--------------------------------- MODULE Strings ---------------------------------
(***************************************************************************)
(* pkg/strsplit, pkg/stringmetric and pkg/stringkey.  A string is a        *)
(* sequence of runes; a rune has a width in bytes and may be a space, a    *)
(* punctuation mark or a capital.  A step computes one result.             *)
(***************************************************************************)
EXTENDS Integers, SequencesExt

CONSTANTS
  WidthOf,     \* rune -> bytes of its UTF-8 form
  Spaces,      \* the runes of unicode.IsSpace
  Puncts,      \* the runes of unicode.IsPunct
  Lower,       \* rune -> its lower case
  Newline,     \* a rune of Spaces
  Texts,       \* inputs of Chunk
  Sizes,       \* the sizes of a chunk, which may be 0
  Limits,      \* the limits on the number of chunks, negative for none
  Words,       \* inputs of DLDistance
  FieldLists   \* inputs of New

VARIABLE st  \* the operation, its input and its output

Bytes(s) == FoldLeft(LAMBDA n, r : n + WidthOf[r], 0, s)

\* strings.TrimSpace.
TrimSpace(s) ==
  LET kept == {i \in DOMAIN s : s[i] \notin Spaces}
  IN  IF kept = {} THEN <<>> ELSE SubSeq(s, Min(kept), Max(kept))

-----------------------------------------------------------------------------
(* pkg/strsplit *)

limitReached(n, count) == n > 0 /\ count >= n

appendChunk(ret, s) == IF TrimSpace(s) # <<>> THEN Append(ret, TrimSpace(s)) ELSE ret

\* How many runes fit in size bytes, and one if the first does not.
runeSafeEnd(s, size) ==
  LET fit == {k \in 0..Len(s) : Bytes(SubSeq(s, 1, k)) <= size}
  IN  IF Max(fit) = 0 THEN 1 ELSE Max(fit)

\* Before the last space, else after the last punctuation mark, else at the end.
separatorEnd(s, end) ==
  LET spaces == {i \in 1..end : s[i] \in Spaces}
      puncts == {i \in 1..end : s[i] \in Puncts}
  IN  IF spaces # {} THEN Max(spaces) - 1 ELSE IF puncts # {} THEN Max(puncts) ELSE end

\* One turn of ChunkLine's loop: the chunks so far and the rest of the line.
chunkStep(a, size, n) ==
  LET end == separatorEnd(a.s, runeSafeEnd(a.s, size))
  IN  IF Bytes(a.s) > size /\ ~limitReached(n, Len(a.ret))
      THEN [ret |-> appendChunk(a.ret, SubSeq(a.s, 1, end)), s |-> TrimSpace(SubSeq(a.s, end + 1, Len(a.s)))]
      ELSE a

\* A turn shortens the line, so as many turns as runes are enough.
ChunkLine(s, size, n) ==
  IF size < 1 \/ n = 0 THEN <<>>
  ELSE LET last == FoldLeft(LAMBDA a, i : chunkStep(a, size, n), [ret |-> <<>>, s |-> s], s)
       IN  IF limitReached(n, Len(last.ret)) THEN last.ret ELSE appendChunk(last.ret, last.s)

\* Mutant: a long line may yield n chunks of its own.
appendLine_FullLimit(ret, line, size, n) ==
  IF line = <<>> THEN ret ELSE ret \o ChunkLine(line, size, n)

appendLine(ret, line, size, n) ==
  IF line = <<>> THEN ret
  ELSE IF Bytes(line) <= size THEN Append(ret, line)
  ELSE ret \o ChunkLine(line, size, IF n > 0 THEN n - Len(ret) ELSE n)

\* strings.SplitSeq at Newline.
Lines(s) ==
  LET cuts == <<0>> \o SetToSortSeq({i \in DOMAIN s : s[i] = Newline}, <) \o <<Len(s) + 1>>
  IN  [k \in 1..Len(cuts) - 1 |-> SubSeq(s, cuts[k] + 1, cuts[k + 1] - 1)]

Chunk(s, size, n) ==
  IF size < 1 \/ n = 0 THEN <<>>
  ELSE FoldLeft(LAMBDA ret, line : IF limitReached(n, Len(ret)) THEN ret
                                   ELSE appendLine(ret, TrimSpace(line), size, n), <<>>, Lines(s))

-----------------------------------------------------------------------------
(* pkg/stringmetric *)

\* The last row of each rune; 1 is none.
initDLAlphabet(ra, rb) == [c \in Range(ra) \cup Range(rb) |-> 1]

\* Rows and columns 0 are sentinels, rows and columns 1 the empty prefix.
initDLMatrix(nrows, ncols, maxdist) ==
  [i \in 0..nrows - 1, j \in 0..ncols - 1 |->
     IF i = 0 \/ j = 0 THEN maxdist ELSE IF j = 1 THEN i - 1 ELSE IF i = 1 THEN j - 1 ELSE 0]

\* The cell of row i and column j: db is the column of the row's last match.
dlCell(ra, rb, i, a, j) ==
  LET k     == a.da[rb[j - 1]]
      l     == a.db
      same  == ra[i - 1] = rb[j - 1]
      best  == Min({a.dist[i - 1, j - 1] + (IF same THEN 0 ELSE 1), a.dist[i, j - 1] + 1,
                    a.dist[i - 1, j] + 1, a.dist[k - 1, l - 1] + (i - k - 1) + 1 + (j - l - 1)})
  IN  [a EXCEPT !.dist = [@ EXCEPT ![i, j] = best], !.db = IF same THEN j ELSE @]

dlRow(ra, rb, a, i) ==
  LET done == FoldLeft(LAMBDA b, j : dlCell(ra, rb, i, b, j), [a EXCEPT !.db = 1], [x \in 1..Len(rb) |-> x + 1])
  IN  [done EXCEPT !.da[ra[i - 1]] = i]

\* In cells numbered from 0, row i is rune i - 1 of ra.
DLDistance(ra, rb) ==
  IF ra = rb THEN 0
  ELSE IF ra = <<>> \/ rb = <<>> THEN Len(ra) + Len(rb)
  ELSE LET start == [dist |-> initDLMatrix(Len(ra) + 2, Len(rb) + 2, Len(ra) + Len(rb)),
                     da |-> initDLAlphabet(ra, rb), db |-> 1]
           last  == FoldLeft(LAMBDA a, i : dlRow(ra, rb, a, i), start, [x \in 1..Len(ra) |-> x + 1])
       IN  last.dist[Len(ra) + 1, Len(rb) + 1]

-----------------------------------------------------------------------------
(* pkg/stringkey: the bytes that are hashed; a space stands for a run of spaces *)

normalizeRune(a, r) ==
  IF r \in Spaces THEN [a EXCEPT !.pending = a.b # <<>>]
  ELSE [b |-> a.b \o (IF a.pending THEN <<" ">> ELSE <<>>) \o <<Lower[r]>>, pending |-> FALSE]

appendNormalizedField(field) == FoldLeft(normalizeRune, [b |-> <<>>, pending |-> FALSE], field).b

NewKey(fields) == FlattenSeq([i \in DOMAIN fields |-> Append(appendNormalizedField(fields[i]), "\t")])

-----------------------------------------------------------------------------

Init == st = [op |-> "none"]

Split == \E s \in Texts, size \in Sizes, n \in Limits :
           st' = [op |-> "split", s |-> s, size |-> size, n |-> n, out |-> Chunk(s, size, n)]

Measure == \E a, b \in Words : st' = [op |-> "measure", a |-> a, b |-> b]

Digest == \E f, g \in FieldLists : st' = [op |-> "digest", f |-> f, g |-> g]

Next == st.op = "none" /\ (Split \/ Measure \/ Digest)

-----------------------------------------------------------------------------
(* Properties *)

Ink(s) == SelectSeq(s, LAMBDA r : r \notin Spaces)

\* Chunks are trimmed, not empty and within the size (but for a rune wider than it); together
\* they hold everything but spaces, and a limit keeps the first of them.
ChunksKeepTheText ==
  LET all == Chunk(st.s, st.size, -1)
  IN  st.size >= 1 =>
        /\ Ink(FlattenSeq(all)) = Ink(st.s)
        /\ \A i \in DOMAIN all : /\ all[i] # <<>> /\ TrimSpace(all[i]) = all[i]
                                 /\ Bytes(all[i]) <= st.size \/ Len(all[i]) = 1
        /\ st.n >= 0 => st.out = SubSeq(all, 1, Min({st.n, Len(all)}))

Alphabet == UNION {Range(w) : w \in Words}
Cut(s, i, j) == SubSeq(s, 1, i) \o SubSeq(s, j, Len(s))

\* One insertion, deletion, substitution or swap of neighbours.
EditsOf(s) ==
  UNION {{Cut(s, i - 1, i + 1) : i \in DOMAIN s},
         {Append(SubSeq(s, 1, i), c) \o SubSeq(s, i + 1, Len(s)) : i \in 0..Len(s), c \in Alphabet},
         {[s EXCEPT ![i] = c] : i \in DOMAIN s, c \in Alphabet},
         {[s EXCEPT ![i] = s[i + 1], ![i + 1] = s[i]] : i \in 1..Len(s) - 1}}

\* The distance is the least number of edits: no edit changes it by more than one, and
\* unless it is 0 some edit lowers it.
DistanceIsLeast ==
  LET d == DLDistance(st.a, st.b)
      around == {DLDistance(e, st.b) : e \in EditsOf(st.a)}
  IN  /\ (d = 0) = (st.a = st.b)
      /\ \A x \in around : x - d \in -1..1
      /\ d > 0 => d - 1 \in around

\* The words of a field, in lower case.
WordsOf(f) ==
  LET starts == {i \in DOMAIN f : f[i] \notin Spaces /\ (i = 1 \/ f[i - 1] \in Spaces)}
      endOf(i) == Min({j \in i..Len(f) : j = Len(f) \/ f[j + 1] \in Spaces})
      order  == SetToSortSeq(starts, <)
  IN  [k \in DOMAIN order |-> [j \in 1..endOf(order[k]) - order[k] + 1 |-> Lower[f[order[k] + j - 1]]]]

\* Two lists of fields give the same bytes if and only if they have the same words field by field.
KeysSeparateFields ==
  NewKey(st.f) = NewKey(st.g) <=>
    [i \in DOMAIN st.f |-> WordsOf(st.f[i])] = [i \in DOMAIN st.g |-> WordsOf(st.g[i])]

\* Each operation agrees with its reference on every small input.
StringsAgree ==
  /\ st.op = "split" => ChunksKeepTheText
  /\ st.op = "measure" => DistanceIsLeast
  /\ st.op = "digest" => KeysSeparateFields

=============================================================================
