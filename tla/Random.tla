---------------------------------- MODULE Random ----------------------------------
(***************************************************************************)
(* pkg/random: bytes, integers and strings from a reader that may deliver  *)
(* less than asked, nothing at all, or an error, with or without bytes.    *)
(* A step is one call of the reader.                                       *)
(***************************************************************************)
EXTENDS Integers, Sequences, FiniteSets

CONSTANTS
  byteRange,         \* 256 in the code
  chrMapDefault,     \* the characters of a string
  CharMaps,          \* what WithByteToCharMap is given
  maxEmptyReads,     \* 100 in the code
  maxStalledPasses,  \* 128 in the code
  Lengths            \* what callers ask for

VARIABLE st  \* the generator and the call in progress

\* An empty map is the default one, a long one is cut.
WithByteToCharMap(cm) ==
  IF cm = <<>> THEN chrMapDefault ELSE SubSeq(cm, 1, IF Len(cm) > byteRange THEN byteRange ELSE Len(cm))

Unset == -1

Init == \E cm \in CharMaps :
  st = [chrMap |-> WithByteToCharMap(cm), op |-> "none", n |-> 0, b |-> <<>>, filled |-> 0, read |-> 0,
        empty |-> 0, stalled |-> 0, res |-> "none", fellBack |-> FALSE, raw |-> <<>>]

\* The bytes of b that readFull has yet to fill start after filled + read.
Begin(op, n) ==
  [st EXCEPT !.op = op, !.n = n, !.b = [i \in 1..n |-> Unset], !.filled = 0, !.read = 0, !.empty = 0,
             !.stalled = 0, !.res = "none", !.fellBack = FALSE, !.raw = <<>>]

\* A string or bytes that failed are not returned; an integer comes from elsewhere, and the
\* hook is told.
Fail(s, err) ==
  IF s.op = "uint" THEN [s EXCEPT !.res = "ok", !.fellBack = TRUE, !.b = <<>>]
  ELSE [s EXCEPT !.res = err, !.b = <<>>]

Succeed(s) == [s EXCEPT !.res = "ok"]

Call(op, n) ==
  LET s == Begin(op, IF n < 0 THEN 0 ELSE n)
  IN  /\ st.op = "none" \/ st.res # "none"
      /\ st' = IF n < 0 THEN Fail(s, "negative")
               ELSE IF op = "string" /\ Len(st.chrMap) \notin 1..byteRange THEN Fail(s, "charmap")
               ELSE IF n = 0 THEN Succeed(s) ELSE s

RandomBytes == \E n \in Lengths : Call("bytes", n)
RandUint == \E n \in Lengths : n > 0 /\ Call("uint", n)
RandString == \E n \in Lengths : Call("string", n)

\* Mutant: every byte is accepted, so the first characters are more likely.
acceptLimit_All(cmlen) == byteRange

\* The largest multiple of the map's length: at it and above, a byte is rejected.
acceptLimit(cmlen) == byteRange - (byteRange % cmlen)

\* The bytes below a multiple of the map's length become characters, moved down over the others.
mapAccepted(s) ==
  LET cmlen == Len(s.chrMap)
      kept  == SelectSeq(SubSeq(s.b, s.filled + 1, s.n), LAMBDA v : v < acceptLimit(cmlen))
      chars == [i \in DOMAIN kept |-> s.chrMap[(kept[i] % cmlen) + 1]]
  IN  [s EXCEPT !.filled = @ + Len(kept),
                !.b = SubSeq(@, 1, s.filled) \o chars \o SubSeq(@, s.filled + Len(kept) + 1, s.n)]

\* readFull has filled the buffer: a string maps it and asks again for what was rejected.
Filled(s) ==
  LET m == mapAccepted(s)
      t == [m EXCEPT !.read = 0, !.empty = 0]
  IN  IF s.op # "string" \/ m.filled = m.n THEN Succeed(IF s.op = "string" THEN m ELSE s)
      ELSE IF m.filled > s.filled THEN [t EXCEPT !.stalled = 0]
      ELSE IF s.stalled + 1 >= maxStalledPasses THEN Fail(s, "no progress")
      ELSE [t EXCEPT !.stalled = @ + 1]

\* A reader's end after some bytes is unexpected.
readError(err, read) == IF err = "EOF" /\ read > 0 THEN "unexpected EOF" ELSE err

\* One Read of readFull: values delivered, and an error or none.
Read(values, err) ==
  LET at   == st.filled + st.read
      read == st.read + Len(values)
      s    == [st EXCEPT !.read = read, !.raw = @ \o values,
                         !.b = [i \in 1..st.n |-> IF i \in at + 1..at + Len(values) THEN values[i - at] ELSE st.b[i]]]
  IN  /\ st.op # "none" /\ st.res = "none"
      /\ Len(values) <= st.n - at
      /\ st' = IF read >= st.n - st.filled THEN Filled(s)
               ELSE IF err # "none" THEN Fail(s, readError(err, read))
               ELSE IF Len(values) > 0 THEN [s EXCEPT !.empty = 0]
               ELSE IF st.empty + 1 >= maxEmptyReads THEN Fail(s, "no progress")
               ELSE [s EXCEPT !.empty = @ + 1]

ReaderDelivers ==
  \E k \in 0..2 : \E values \in [1..k -> 0..byteRange - 1], err \in {"none", "EOF", "broken"} : Read(values, err)

Next == RandomBytes \/ RandUint \/ RandString \/ ReaderDelivers

-----------------------------------------------------------------------------
(* Properties *)

\* How many of the byte values lead to a character.
Weight(c) ==
  Cardinality({v \in 0..byteRange - 1 : v < acceptLimit(Len(st.chrMap))
                                        /\ st.chrMap[(v % Len(st.chrMap)) + 1] = c})
\* What the reader delivered, without what a string rejects.
Usable == SelectSeq(st.raw, LAMBDA v : v < byteRange - (byteRange % Len(st.chrMap)))

\* A result is made of bytes of the reader only, each used once and in order; characters come
\* from values that favour none; an integer that is not says so to the hook; and no reader,
\* however slow or broken, keeps a call for more than the limits allow.
EntropyIsTheReaders ==
  /\ st.res = "ok" /\ ~st.fellBack =>
       /\ Len(st.b) = st.n
       /\ st.op # "string" => st.b = st.raw
       /\ st.op = "string" =>
            Len(Usable) >= st.n /\ st.b = [i \in 1..st.n |-> st.chrMap[(Usable[i] % Len(st.chrMap)) + 1]]
  /\ st.op = "string" /\ st.res = "ok" => \A i, j \in DOMAIN st.chrMap : Weight(st.chrMap[i]) = Weight(st.chrMap[j])
  /\ st.fellBack => st.op = "uint"
  /\ st.res \notin {"ok", "none"} => st.b = <<>>
  /\ st.stalled < maxStalledPasses /\ st.empty < maxEmptyReads

=============================================================================
