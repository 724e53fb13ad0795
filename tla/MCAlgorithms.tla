---------------------------- MODULE MCAlgorithms ----------------------------
(***************************************************************************)
(* TLC instance of the packages that compute: the victim queue of sfcache, *)
(* redaction, filters, lookups, numbers, texts, passwords and random       *)
(* values.  They share no state, so a behaviour is one of them, chosen at  *)
(* the start.  The queue has variables of its own, the others have st.     *)
(***************************************************************************)
EXTENDS PQueue

VARIABLES
  subject,  \* the package whose behaviour this is
  st        \* its state

-----------------------------------------------------------------------------
(* Redaction: the lexemes of each kind of text around those a rule looks at *)

Member == <<"quote", "sens", "quote", "colon", "quote">>
Labelled == <<"quote", "name", "quote", "colon", "quote", "sens", "quote", "comma", "quote", "value", "quote", "colon">>
Escaped == <<"bslash", "quote", "sens", "bslash", "quote", "colon", "bslash", "quote", "word", "bslash", "quote">>
From(s, i) == SubSeq(s, i, Len(s))
After(prefix, lexemes, n) == {prefix \o t : t \in SeqOf(lexemes, n)}

RedactTexts == UNION {
  SeqOf({"sens", "colon", "nl", "cr", "word"}, 4),
  SeqOf({"sens", "equals", "word", "amp", "quote", "name"}, 4),
  SeqOf({"quote", "sens", "colon", "open", "close", "comma"}, 4),
  SeqOf({"jwt", "card", "half", "space", "word"}, 4),
  SeqOf({"vendor", "num", "word", "bslash", "nl"}, 2),
  After(Member, {"word", "quote", "comma", "bslash", "nl", "close"}, 3),
  After(Labelled, {"quote", "word", "open", "num"}, 2),
  After(<<"quote", "key">> \o From(Labelled, 3), {"quote", "word"}, 2),
  {<<"quote", k>> \o SubSeq(Labelled, 3, 6) \o t : k \in {"name", "id", "key", "word"}, t \in SeqOf({"bslash", "quote", "esc"}, 2)},
  {<<"bslash", "quote", "word", "bslash", "quote", "comma">> \o t \o Escaped : t \in SeqOf({"esc", "space", "bslash"}, 2)},
  After(<<"lt", "sens", "gt">>, {"word", "lt", "slash", "sens", "gt"}, 4),
  {<<"lt", "sens", "gt">> \o t \o <<"lt", "slash", "sens", "gt">> : t \in SeqOf({"word", "cdata", "uncdata", "lt"}, 4)},
  After(<<"begin", "priv">>, {"nl", "cr", "word", "end", "quote"}, 3),
  After(<<"begin">>, {"priv", "block", "nl", "jwt", "word"}, 3),
  After(<<"colon", "slash", "slash">>, {"word", "colon", "at", "slash", "space"}, 3),
  After(<<"colon", "slash", "slash", "word", "colon">>, {"jwt", "at", "amp"}, 3),
  {<<"begin", "colon", "slash", "slash", "word", "colon">> \o t \o <<"jwt", "at", "word", "priv", "word">> : t \in SeqOf({"amp"}, 6)}}

\* A JWT is long.  The windows are small enough for texts to go beyond each.
LexemeWidth(x) == IF x = "jwt" THEN 8 ELSE 1

Engine == INSTANCE Redact WITH
  Texts <- RedactTexts, Width <- LexemeWidth,
  maxPEMBeginScan <- 11, maxPEMBodyScan <- 2, maxUserinfoScan <- 12, maxXMLContentScan <- 2

AB == <<"a", "b">>
RedactKeySet == SeqOf({"a", "b", "s", "A", "B", "1", "_", "ee"}, 4)
RedactConfigTokens == {<<"B">>, AB, <<"s", "_">>, <<"a", "a", "a", "a", "a", "a">>}
RedactAllowed == {<<"a", "_", "b", "s">>, <<"b", "_", "a", "b">>}
RedactPairs == {<< <<"a">>, <<"b", "b">> >>, << <<"s">>, <<"b">> >>}

CardStarts == {<<a, b, c, d>> : a \in 0..9, b \in 0..9, c \in {0, 1, 2, 3, 4, 5, 9}, d \in {0, 4, 8, 9}}

Classes == INSTANCE RedactRules WITH
  Keys <- RedactKeySet, Tokens <- {AB, <<"b", "s">>}, Strong <- {AB}, Roots <- {AB}, Pairs <- RedactPairs,
  Allowed <- RedactAllowed, Hints <- {<<"b", "s">>, AB}, ConfigTokens <- RedactConfigTokens,
  MinGlued <- 3, MaxTokenLen <- 5,
  CardPrefixes <- CardStarts, Lengths <- {11, 12, 13, 14, 15, 16, 17, 19, 20}, LastDigits <- {2}

-----------------------------------------------------------------------------
(* Filters: two types, slices of structs, interfaces and numbers, and rules of every operator *)

Field(type, exported) == [type |-> type, exported |-> exported]
FilterTypes ==
  [P |-> [name |-> Field("str", TRUE), age |-> Field("int", TRUE), home |-> Field("H", TRUE), key |-> Field("str", FALSE)],
   H |-> [city |-> Field("str", TRUE)]]

IntV(n) == [k |-> "int", n |-> n]
UintV(n) == [k |-> "uint", n |-> n]
FloatV(n) == [k |-> "float", n |-> n]
StrV(s) == [k |-> "str", s |-> s]
Nil == [k |-> "nil"]
NotANumber == 99  \* NaN of Filter
Home(c) == [k |-> "struct", t |-> "H", f |-> [city |-> StrV(c)]]
Ptr(x) == [k |-> "ptr", to |-> x]
Person(n, a, h) == [k |-> "struct", t |-> "P", f |-> [name |-> StrV(n), age |-> IntV(a), home |-> h, key |-> StrV(n)]]
Ann == Person(AB, 3, Ptr(Home(<<"a">>)))
Bob == Person(<<"A", "b">>, -1, Ptr(Nil))
Cid == Person(<<"b">>, 2, Ptr(Home(<<"b">>)))

FilterSlices == {
  [type |-> "P", elems |-> <<Ann, Bob, Cid, Ann>>],
  [type |-> "any", elems |-> <<Bob, Nil, Home(<<"a">>), Ptr(Ann)>>],
  [type |-> "any", elems |-> <<Bob, StrV(<<"a">>), Ann>>],
  [type |-> "int", elems |-> <<IntV(-8), IntV(0), IntV(3), IntV(7)>>],
  [type |-> "uint", elems |-> <<UintV(0), UintV(15), UintV(9), UintV(3)>>],
  [type |-> "float", elems |-> <<FloatV(8), FloatV(NotANumber), FloatV(-1)>>],
  [type |-> "str", elems |-> <<StrV(<<>>), StrV(AB), StrV(<<"A">>)>>],
  [type |-> "not a slice", elems |-> <<>>]}

FilterValues == {IntV(3), IntV(-1), UintV(9), UintV(15), FloatV(8), StrV(<<"a">>), StrV(AB), StrV(<<>>), StrV(<<"*">>),
                 StrV(<<"a", "a", "a", "a">>), Nil, [k |-> "bool", b |-> TRUE]}
RuleOf(f, o, n, v) == [field |-> f, op |-> o, negated |-> n, value |-> v]
SingleRules == {RuleOf(f, o, n, v) :
  f \in {<<>>, <<"name">>, <<"age">>, <<"home", "city">>, <<"key">>, <<"zip">>, <<"home", "city", "x">>},
  o \in {"==", "=", "regexp", "^=", "=$", "~=", "<", "<=", ">", ">=", "<>"}, n \in BOOLEAN, v \in FilterValues}
Few == {RuleOf(<<"name">>, "=", FALSE, StrV(AB)), RuleOf(<<"age">>, ">=", FALSE, IntV(2)),
        RuleOf(<<"home", "city">>, "==", TRUE, StrV(<<"a">>)), RuleOf(<<>>, "!=", FALSE, IntV(1))}
RuleSets == UNION {
  {<<>>, << <<>> >>}, {<< <<r>> >> : r \in SingleRules},
  {<< <<a, b>>, <<c>> >> : a, b, c \in Few}, {<< <<a>>, <<b, c>>, <<a>> >> : a, b, c \in Few}}

Number(n, whole) == [k |-> "number", n |-> n, whole |-> whole]
RawValues == {Number(3, TRUE), Number(-1, TRUE), Number(9, TRUE), Number(2, FALSE), Number(17, TRUE), Number(40, TRUE),
              StrV(<<"a">>), [k |-> "array"], Nil}
FilterPayloads ==
  [bytes : {1, 9},
   raw : {<<>>, << <<>> >>, << <<[op |-> "=="]>> >>} \union {<< <<RuleOf(<<>>, ">", FALSE, v)>> >> : v \in RawValues}]
FilterWindows == {[offset |-> 1, length |-> 2], [offset |-> 0, length |-> 0], [offset |-> 0, length |-> 9], [offset |-> 3, length |-> 3]}

Rules == INSTANCE Filter WITH
  Types <- FilterTypes, Payloads <- FilterPayloads, GoRules <- RuleSets, Slices <- FilterSlices, Windows <- FilterWindows,
  MaxRules <- 3, MaxResults <- 5, MaxValueLen <- 3, MaxFilterBytes <- 5, MaxFieldDepth <- 2, ExactBits <- 3

-----------------------------------------------------------------------------
(* Lookups: two plans under one prefix, records that clash in every code *)

Group(n, t, ps) == [name |-> n, prefixType |-> t, prefixes |-> ps]
NoPhonePlan == [cc |-> <<"none">>, groups |-> <<>>]
PhonePlans == {[
  X |-> [cc |-> <<"1">>, groups |-> <<Group("north", 1, << <<"1", "A">>, <<"1", "2">> >>)>>],
  Y |-> [cc |-> <<"1">>, groups |-> <<Group("south", 2, <<>>), Group("isle", 3, << <<"1", "-", "2">>, <<"1", "2", "1">> >>)>>],
  Z |-> [cc |-> <<>>, groups |-> <<Group("toll", 5, << <<"2", "1", "2">>, <<"-">> >>), Group("all", 7, <<>>)>>],
  W |-> NoPhonePlan]}

Phones == INSTANCE CountryPhone WITH Plans <- PhonePlans, NoPlan <- NoPhonePlan, Numbers <- SeqOf({"1", "2", "A", "-"}, 5)

Area(c, n) == [code |-> c, name |-> n]
Country(a2, a3, num, s, r, sr, tld, nm) ==
  [alpha2 |-> a2, alpha3 |-> a3, numeric |-> num, status |-> s, region |-> r, subregion |-> sr, intregion |-> sr, tld |-> tld, name |-> nm]
CountryRecords ==
  {Country(a2, <<1, 1, 2>>, <<0, 1, 0>>, "a", r, Area(0, 0), <<1, 2>>, 1) : a2 \in {<<1, 1>>, <<1, 2>>}, r \in {Area(1, 1), Area(2, 1)}}
  \union {Country(<<2, 1>>, <<3, 1, 1>>, <<0, 0, 0>>, "b", Area(1, 2), Area(2, 3), <<1>>, 2),
          Country(<<1, 1>>, <<>>, <<1, 1, 1>>, "b", Area(3, 2), Area(3, 3), <<2, 2>>, 3),
          Country(<<3, 1>>, <<1, 1, 2>>, <<0, 1, 0>>, "b", Area(0, 2), Area(2, 3), <<1, 2>>, 2),
          Country(<<1, 2>>, <<1, 1, 2>>, <<0, 1, 0>>, "x", Area(0, 2), Area(2, 3), <<1, 2>>, 2)}
CountryProbes == {<<>>, <<1, 1>>, <<1, 2>>, <<2, 2>>, <<1, 1, 2>>, <<2, 2, 2>>, <<3, 1, 1>>, <<0, 1, 0>>, <<0, 0, 0>>, <<1, 1, 1>>}

Countries == INSTANCE CountryCode WITH
  bitLenChar <- 2, bitLenNumeric <- 3, bitLenRegion <- 2, bitLenStatus <- 2, LastLetter <- 2, LastDigit <- 1,
  StatusNames <- <<"u", "a", "b">>, Loads <- SeqOf(CountryRecords, 3) \ {<<>>}, Probes <- CountryProbes

-----------------------------------------------------------------------------
(* Numbers, texts, passwords and random values *)

EnumMap == (1 :> "one") @@ (4 :> "three")
ClockInstants == [ms : {0, 1, 255, 256, 16777216}, ns : {0, 243, 245, 5000000, 999999, 500000, 500300}]

Arithmetic == INSTANCE Numbers WITH
  W <- 4, FloatBits <- 2, Scale <- 3, MaxFloat <- 2, HexBase <- 2, MaxBit <- 3, Enum <- EnumMap,
  Samples <- SeqOf({-1, 0, 2, 3}, 5) \ {<<>>}, Instants <- ClockInstants

RuneWidth == [r \in {"a", "A", " ", "\n", "."} |-> 1] @@ [r \in {"w", "W", "P", "S"} |-> 2]
LowerCase == [r \in DOMAIN RuneWidth |-> IF r = "A" THEN "a" ELSE IF r = "W" THEN "w" ELSE r]
FieldTexts == {<<f>> : f \in SeqOf({"a", "A", " "}, 3)} \union {<<f, g>> : f, g \in SeqOf({"a", " "}, 2)}

TextRules == INSTANCE Strings WITH
  WidthOf <- RuneWidth, Lower <- LowerCase, Spaces <- {" ", "\n", "S"}, Puncts <- {".", "P"}, Newline <- "\n",
  Texts <- SeqOf({"a", " ", "\n", "."}, 4) \union SeqOf({"a", "w", "P", "S"}, 4), Sizes <- 0..4, Limits <- -1..2,
  Words <- SeqOf({"a", "b", "c"}, 3), FieldLists <- FieldTexts

HashOptions(k, s, t, m, p, mn, mx, x, f, a) ==
  [keyLen |-> k, saltLen |-> s, time |-> t, memory |-> m, threads |-> p, minP |-> mn, maxP |-> mx, multiplier |-> x, format |-> f, accept |-> a]
HashOptionSets == {
  HashOptions(32, 16, 3, 65536, 4, 8, 4096, 4, "json", {}), HashOptions(0, 0, 0, 0, 0, 0, 0, 0, "phc", {}),
  HashOptions(4096, 4096, 4096, 2^23, 255, 16, 8, 2, "other", {"phc"}), HashOptions(32, 16, 1, 65537, 3, 1, 16, 1, "phc", {"json"})}
RowParams(a, v, k, s, t, m, p) ==
  [Algo |-> a, Version |-> v, KeyLen |-> k, SaltLen |-> s, Time |-> t, Memory |-> m, Threads |-> p]
DamagedRows == {
  RowParams("argon2id", 19, 32, 16, 13, 65536, 4), RowParams("argon2id", 19, 32, 16, 3, 65536, 4),
  RowParams("argon2id", 19, 16, 8, 1, 8, 0), RowParams("argon2id", 19, 16, 8, 1, 2^22, 1),
  RowParams("argon2id", 19, 2, 8, 1, 8, 1), RowParams("argon2i", 19, 32, 16, 3, 65536, 4),
  RowParams("argon2id", 16, 32, 16, 3, 65536, 4)}

Passwords == INSTANCE PasswordHash WITH
  PwLen <- [short |-> 4, good |-> 12, long |-> 5000], KeyBytes <- [aes |-> 16, other |-> 32, bad |-> 10],
  OptionSets <- HashOptionSets, RowEdits <- DamagedRows

Entropy == INSTANCE Random WITH
  byteRange <- 3, chrMapDefault <- AB, CharMaps <- {<<>>, <<"x">>, <<"x", "y", "z", "u">>},
  maxEmptyReads <- 2, maxStalledPasses <- 2, Lengths <- {-1, 0, 2}

-----------------------------------------------------------------------------

None == [op |-> "none"]
InitOf(name, init) == subject = name /\ init

AlgInit ==
  /\ Init
  /\ \/ InitOf("sfcache", st = None)
     \/ InitOf("redact", Engine!Init)
     \/ InitOf("redact keys", Classes!KeyInit)
     \/ InitOf("redact cards", Classes!CardInit)
     \/ InitOf("filter", Rules!Init)
     \/ InitOf("countryphone", Phones!Init)
     \/ InitOf("countrycode", Countries!Init)
     \/ InitOf("numbers", Arithmetic!Init)
     \/ InitOf("strings", TextRules!Init)
     \/ InitOf("passwordhash", Passwords!Init)
     \/ InitOf("random", Entropy!Init)

Stepping(name, step) == subject = name /\ step /\ UNCHANGED <<subject, vars>>

AlgNext ==
  \/ subject = "sfcache" /\ Next /\ UNCHANGED <<subject, st>>
  \/ Stepping("redact", Engine!Pass)
  \/ Stepping("redact keys", Classes!KeyNext)
  \/ Stepping("redact cards", Classes!ClassifyCard)
  \/ Stepping("filter", Rules!Next)
  \/ Stepping("countryphone", Phones!Next)
  \/ Stepping("countrycode", Countries!Next)
  \/ Stepping("numbers", Arithmetic!Next)
  \/ Stepping("strings", TextRules!Next)
  \/ Stepping("passwordhash", Passwords!Next)
  \/ Stepping("random", Entropy!Next)

AlgSpec == AlgInit /\ [][AlgNext]_<<subject, st, vars>>

\* The behaviours of countrycode alone.
CountrySpec == Init /\ InitOf("countrycode", Countries!Init) /\ [][Stepping("countrycode", Countries!Next)]_<<subject, st, vars>>

\* The entries of the queue are interchangeable: a state counts up to their names.  One that
\* is not queued has no position and no deadline.
View == <<subject, st, [i \in DOMAIN nodes |-> <<deadline[nodes[i]], idx[nodes[i]]>>], pc, at, start, heapifying, now, budget>>

-----------------------------------------------------------------------------
(* Properties, besides IndexIsPosition and ImplementsQueue of PQueue *)


\* What the pure algorithms compute is what an exact definition gives.  A filter keeps exactly the
\* elements its rules describe, and compares numbers by their value whatever their types (Filter);
\* the longest prefix decides about a number (CountryPhone), and every code of a record leads back
\* to it (CountryCode); so it is for pages, conversions, identifiers and statistics (Numbers), and
\* for the pieces, distances and keys of texts (Strings).  A stored password verifies, and only it
\* does, at a bounded cost (PasswordHash); random values come from the reader alone, evenly, or
\* fail (Random).
AlgorithmsAreExact ==
  /\ subject = "filter" => Rules!FilterIsExact /\ Rules!NumbersCompareByValue
  /\ subject = "countryphone" => Phones!LongestPrefixWins
  /\ subject = "countrycode" => Countries!CountriesResolve
  /\ subject = "numbers" => Arithmetic!ArithmeticIsExact
  /\ subject = "strings" => TextRules!StringsAgree
  /\ subject = "passwordhash" => Passwords!HashesRoundTrip
  /\ subject = "random" => Entropy!EntropyIsTheReaders

\* "The same last-wins resolution applies to duplicate alpha-3, numeric, and TLD codes." (data.go):
\* a code that several records share resolves to the last of them (CountryCode).
LastRecordWins == subject = "countrycode" => Countries!LastRecordWins

=============================================================================
