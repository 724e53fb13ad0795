------------------------------ MODULE CountryPhone ------------------------------
(***************************************************************************)
(* pkg/countryphone over pkg/numtrie and pkg/phonekeypad.  The numbering   *)
(* plans of the countries are loaded into a trie of digits, in the order   *)
(* in which Go happens to range over the map, and numbers are looked up by *)
(* their longest prefix.  A number is a sequence of characters.  The trie  *)
(* is a function: its domain holds the paths of its nodes.                 *)
(***************************************************************************)
EXTENDS Integers, SequencesExt, TLC

CONSTANTS
  Plans,    \* the data sets: country -> [cc, groups]; NoPlan for a nil entry
  NoPlan,
  Numbers   \* the numbers looked up

VARIABLE st  \* the data, the countries still to load, the trie and the last lookup

None == [type |-> -1, geo |-> <<>>]  \* no value at a node

-----------------------------------------------------------------------------
(* pkg/phonekeypad *)

Key == <<{"A", "B", "C"}, {"D", "E", "F"}, {"G", "H", "I"}, {"J", "K", "L"}, {"M", "N", "O"},
         {"P", "Q", "R", "S"}, {"T", "U", "V"}, {"W", "X", "Y", "Z"}>>

Numerals == <<"0", "1", "2", "3", "4", "5", "6", "7", "8", "9">>

keypadAlphaToDigit(r) == {k + 1 : k \in {i \in DOMAIN Key : r \in Key[i]}}

\* The digit as a set; empty for a character that is skipped.
KeypadDigit(r) ==
  IF \E i \in DOMAIN Numerals : Numerals[i] = r
  THEN {i - 1 : i \in {j \in DOMAIN Numerals : Numerals[j] = r}}
  ELSE keypadAlphaToDigit(r)

KeypadNumber(num) ==
  FoldLeft(LAMBDA seq, r : seq \o SetToSeq(KeypadDigit(r)), <<>>, num)

-----------------------------------------------------------------------------
(* pkg/numtrie *)

New == << >> :> None

Children(trie, path) == {i \in 0..9 : Append(path, i) \in DOMAIN trie}

Upto(digits) == {SubSeq(digits, 1, k) : k \in 0..Len(digits)}

\* The path of the number is created and its last node overwritten.
Add(trie, num, val) ==
  LET digits == KeypadNumber(num)
  IN  (digits :> val) @@ trie @@ [path \in Upto(digits) |-> None]

StatusMatchEmpty == -127
StatusMatchNo == -125

matchStatus(trie, path, match, digit) ==
  IF match = 0 THEN (IF digit = 0 THEN StatusMatchEmpty ELSE StatusMatchNo)
  ELSE 2 * (IF digit > match THEN 1 ELSE 0) + (IF Children(trie, path) # {} THEN 1 ELSE 0)

\* The digits are followed while there is a child; val is the last value on the way.
Get(trie, num) ==
  LET digits == KeypadNumber(num)
      match  == Max({k \in 0..Len(digits) : SubSeq(digits, 1, k) \in DOMAIN trie})
      digit  == IF match < Len(digits) THEN match + 1 ELSE match
      valued == {k \in 0..match : trie[SubSeq(digits, 1, k)] # None}
      status == matchStatus(trie, SubSeq(digits, 1, match), match, digit)
  IN  [val |-> IF match = 0 \/ valued = {} THEN None ELSE trie[SubSeq(digits, 1, Max(valued))],
       status |-> status]

GetExact(trie, num) ==
  LET digits == KeypadNumber(num) IN IF digits \in DOMAIN trie THEN trie[digits] ELSE None

-----------------------------------------------------------------------------
(* pkg/countryphone *)

hasDialableDigit(prefix) == \E i \in DOMAIN prefix : KeypadDigit(prefix[i]) # {}

\* The existing entries, then those added that are not among them.
mergeGeo(existing, added) ==
  existing \o SelectSeq(added, LAMBDA g : ~\E i \in DOMAIN existing : existing[i] = g)

\* Mutant: the entry of the country loaded before is overwritten.
insertPrefix_Overwrite(trie, prefix, info) ==
  IF hasDialableDigit(prefix) THEN Add(trie, prefix, info) ELSE trie

insertPrefix(trie, prefix, info) ==
  LET v == GetExact(trie, prefix)
  IN  IF ~hasDialableDigit(prefix) THEN trie
      ELSE Add(trie, prefix,
               IF v # None /\ v.geo # <<>> /\ info.geo # <<>>
               THEN [info EXCEPT !.geo = mergeGeo(v.geo, info.geo)] ELSE info)

newGroupInfo(a2, g) == [type |-> g.prefixType, geo |-> <<[alpha2 |-> a2, area |-> g.name]>>]

\* A group without prefixes is put at the country's calling code.
insertGroups(trie, a2, cdata) ==
  LET insertAll(t, g) ==
        FoldLeft(LAMBDA u, p : insertPrefix(u, p, newGroupInfo(a2, g)), t,
                 IF g.prefixes = <<>> THEN <<cdata.cc>> ELSE g.prefixes)
  IN  FoldLeft(insertAll, trie, cdata.groups)

\* One turn of loadData's loop over the map.
loadCountry(trie, a2, cdata) ==
  LET root == IF cdata.cc = <<>> THEN trie
              ELSE insertPrefix(trie, cdata.cc, [type |-> 0, geo |-> <<[alpha2 |-> a2, area |-> ""]>>])
  IN  IF cdata = NoPlan THEN trie ELSE insertGroups(root, a2, cdata)

\* A copy of the entry, or an error.
NumberInfo(trie, num) ==
  LET found == Get(trie, num)
  IN  [ok |-> ~(found.status < 0 \/ found.val = None), info |-> found.val, status |-> found.status]

-----------------------------------------------------------------------------

Init == \E data \in Plans : st = [data |-> data, left |-> DOMAIN data, trie |-> New,
                                  asked |-> FALSE, num |-> <<>>, answer |-> NumberInfo(New, <<>>)]

Load == \E a2 \in st.left :
          st' = [st EXCEPT !.left = @ \ {a2}, !.trie = loadCountry(@, a2, st.data[a2])]

Lookup ==
  /\ st.left = {} /\ ~st.asked
  /\ \E num \in Numbers : st' = [st EXCEPT !.asked = TRUE, !.num = num, !.answer = NumberInfo(st.trie, num)]

Next == Load \/ Lookup

-----------------------------------------------------------------------------
(* Properties *)

\* What a country says of a prefix.
Claims(a2) ==
  LET c == st.data[a2]
      claim(num, type, area) == [at |-> KeypadNumber(num), type |-> type, geo |-> [alpha2 |-> a2, area |-> area]]
      groups == {c.groups[i] : i \in DOMAIN c.groups}
  IN  IF c = NoPlan THEN {}
      ELSE {claim(c.cc, 0, "")} \union
           UNION {{claim(p, g.prefixType, g.name) : p \in
                     IF g.prefixes = <<>> THEN {c.cc} ELSE {g.prefixes[i] : i \in DOMAIN g.prefixes}} : g \in groups}

\* "longest-prefix matching ... the most specific available mapping": a lookup finds every
\* country and area that claims the longest prefix of the number, whatever the order in
\* which the countries were loaded, and an error only if nobody claims any prefix of it.
LongestPrefixWins ==
  st.asked =>
    LET digits == KeypadNumber(st.num)
        claims == {c \in UNION {Claims(a2) : a2 \in DOMAIN st.data} : c.at # <<>> /\ IsPrefix(c.at, digits)}
        longest == {c \in claims : \A d \in claims : Len(d.at) <= Len(c.at)}
        found == st.answer
    IN  /\ found.ok <=> claims # {}
        /\ found.ok => /\ Range(found.info.geo) = {c.geo : c \in longest}
                       /\ IsInjective(found.info.geo)
                       /\ found.info.type \in {c.type : c \in longest}
        /\ found.status \in {0, 2} => found.ok

=============================================================================
