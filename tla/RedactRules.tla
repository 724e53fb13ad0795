------------------------------ MODULE RedactRules ------------------------------
(***************************************************************************)
(* pkg/redact: is this key sensitive?  An ASCII key is cut into tokens and *)
(* classified in one scan of its bytes; any other key is first rewritten   *)
(* into lower-case tokens joined by underscores.  A key is a sequence of   *)
(* characters over a small alphabet: lower and upper case letters, a       *)
(* digit, a separator and a letter outside ASCII.                          *)
(*                                                                         *)
(* And is this run of digits a card number?  A run is its first four       *)
(* digits, zeros, and a last digit: what the code looks at is there.       *)
(***************************************************************************)
EXTENDS Integers, SequencesExt

CONSTANTS
  Keys,         \* the keys classified
  Tokens,       \* sensitiveTokens
  Strong,       \* strongSecretTokens
  Roots,        \* sensitiveRoots
  Pairs,        \* two tokens that are sensitive one after the other
  Allowed,      \* nonSensitiveKeys, normalized
  Hints,        \* what mightBeNonSensitiveKey looks for
  ConfigTokens, \* the tokens an option may add or drop
  MinGlued,     \* minGluedCompoundLen
  MaxTokenLen,  \* maxSensitiveTokenLen
  CardPrefixes, Lengths, LastDigits  \* the runs classified

VARIABLE st  \* the redactor's configuration, the key or the run, and what is answered

Upper == {"A", "B"}
Lower == {"a", "b", "s", "ee"}
Digit == {"1"}
AlphaNum == Upper \union Lower \union Digit
Ascii(c) == c # "ee"
ToLower(c) == IF c = "A" THEN "a" ELSE IF c = "B" THEN "b" ELSE c
Lowered(s) == [i \in DOMAIN s |-> ToLower(s[i])]

-----------------------------------------------------------------------------
(* One token *)

\* An option's token is kept in lower case, if it is short and alphanumeric.
normalizeConfigToken(tok) ==
  LET fits == tok # <<>> /\ Len(tok) <= MaxTokenLen
              /\ \A i \in DOMAIN tok : tok[i] \in AlphaNum /\ Ascii(tok[i])
  IN  IF fits THEN {Lowered(tok)} ELSE {}

hasSensitiveRootSuffix(re, tok) ==
  \E root \in Roots \ re.drop : Len(tok) > Len(root) /\ IsSuffix(root, tok)

Glued(re, tok) == Len(tok) >= MinGlued /\ hasSensitiveRootSuffix(re, tok)

matchesTokenOrRoot(re, tok) ==
  tok \notin re.drop /\ (tok \in Tokens \union re.extra \/ Glued(re, tok))

matchesRoot(re, tok) == tok \notin re.drop /\ tok # <<>> /\ (tok \in Roots \/ Glued(re, tok))

\* password2 is password, tokens is token.
sensitiveTokenSuffix(re, tok) ==
  LET letters == {i \in DOMAIN tok : tok[i] \notin Digit}
  IN  IF tok[Len(tok)] = "s" THEN matchesRoot(re, Front(tok))
      ELSE letters # {} /\ matchesTokenOrRoot(re, SubSeq(tok, 1, Max(letters)))

sensitiveToken(re, tok) ==
  /\ tok # <<>> /\ tok \notin re.drop
  /\ \/ matchesTokenOrRoot(re, tok)
     \/ tok[Len(tok)] \in Digit \union {"s"} /\ Len(tok) >= 2 /\ sensitiveTokenSuffix(re, tok)

isStrongSecretToken(re, tok) == tok \notin re.drop /\ (tok \in Strong \/ Glued(re, tok))

-----------------------------------------------------------------------------
(* The rewriting of any key *)

\* The state of normalizeKey's loop after a prefix of the key.
normalizeStep(key, a, i) ==
  LET c         == key[i]
      nextLower == i < Len(key) /\ key[i + 1] \in Lower
      cut       == c \in Upper /\ ~a.underscore /\ (a.lowerOrDigit \/ (a.upper /\ nextLower))
      word      == (IF cut THEN <<"_">> ELSE <<>>) \o <<ToLower(c)>>
  IN  IF c \in AlphaNum
      THEN [out |-> a.out \o word, lowerOrDigit |-> c \notin Upper, upper |-> c \in Upper,
            underscore |-> FALSE]
      ELSE [out |-> IF a.underscore THEN a.out ELSE Append(a.out, "_"),
            lowerOrDigit |-> FALSE, upper |-> FALSE, underscore |-> TRUE]

normalizeKey(key) ==
  LET last == FoldLeftDomain(LAMBDA a, i : normalizeStep(key, a, i),
                [out |-> <<>>, lowerOrDigit |-> FALSE, upper |-> FALSE, underscore |-> TRUE], key)
  IN  IF last.out # <<>> /\ Last(last.out) = "_" THEN Front(last.out) ELSE last.out

\* The tokens between the underscores.
SplitAt(normalized) ==
  LET ends   == {i \in 1..Len(normalized) + 1 : i > Len(normalized) \/ normalized[i] = "_"}
      before == [e \in ends |-> Max({i \in ends \union {0} : i < e})]
      full   == SetToSortSeq({e \in ends : e > before[e] + 1}, <)
  IN  [k \in DOMAIN full |-> SubSeq(normalized, before[full[k]] + 1, full[k] - 1)]

isSensitiveNormalizedKeyTokens(re, normalized) ==
  LET toks == SplitAt(normalized)
  IN  \/ \E k \in DOMAIN toks : sensitiveToken(re, toks[k])
      \/ \E k \in 2..Len(toks) : <<toks[k - 1], toks[k]>> \in Pairs

isStrongSecretName(re, key) == \E tok \in Range(SplitAt(normalizeKey(key))) : isStrongSecretToken(re, tok)

-----------------------------------------------------------------------------
(* The scan of an ASCII key *)

\* Mutant: the pairs of tokens are not looked up.
closeSensitiveToken_NoPair(re, tok, prev) == sensitiveToken(re, Lowered(tok))

\* A token ended: whether it is sensitive, alone or after the one before it.
closeSensitiveToken(re, tok, prev) ==
  sensitiveToken(re, Lowered(tok)) \/ <<prev, Lowered(tok)>> \in Pairs

\* The loop's variables after a byte; start = 0 outside a token.
fastStep(re, key, a, i) ==
  LET c       == key[i]
      isUpper == c \in Upper
      first   == isUpper /\ a.lowerOrDigit /\ ~a.underscore /\ a.start > 0
      second  == c \in Lower /\ a.upper /\ a.start > 0 /\ i - 1 > a.start
      \* The token that ends here, if one does, ends before this position.
      end     == IF c \in AlphaNum THEN (IF first THEN i ELSE IF second THEN i - 1 ELSE 0)
                 ELSE IF a.start > 0 THEN i ELSE 0
      tok     == SubSeq(key, a.start, end - 1)
      start   == IF c \notin AlphaNum THEN 0
                 ELSE IF end > 0 THEN end ELSE IF a.start = 0 THEN i ELSE a.start
      \* The flags the next character is judged by.
      flags   == [start |-> start, upper |-> isUpper, lowerOrDigit |-> c \in AlphaNum \ Upper,
                  underscore |-> c \notin AlphaNum]
  IN  flags @@ [found |-> a.found \/ (end > 0 /\ closeSensitiveToken(re, tok, a.prev)),
                prev  |-> IF end > 0 THEN Lowered(tok) ELSE a.prev]

sensitiveKeyASCIIFast(re, key) ==
  LET last == FoldLeftDomain(LAMBDA a, i : fastStep(re, key, a, i),
                [start |-> 0, lowerOrDigit |-> FALSE, upper |-> FALSE, underscore |-> TRUE,
                 prev |-> <<>>, found |-> FALSE], key)
      ascii == \A i \in DOMAIN key : Ascii(key[i])
  IN  [ok |-> ascii,
       result |-> \/ last.found
                  \/ last.start > 0
                     /\ closeSensitiveToken(re, SubSeq(key, last.start, Len(key)), last.prev)]

containsFold(key, sub) == \E i \in 1..Len(key) - Len(sub) + 1 :
                            Lowered(SubSeq(key, i, i + Len(sub) - 1)) = sub

mightBeNonSensitiveKey(key) == \E hint \in Hints : containsFold(key, hint)

isNonSensitiveNormalizedKey(normalized) == normalized \in Allowed

isNonSensitiveKey(key) == mightBeNonSensitiveKey(key) /\ isNonSensitiveNormalizedKey(normalizeKey(key))

isSensitiveKey(re, key) ==
  LET fast       == sensitiveKeyASCIIFast(re, key)
      normalized == normalizeKey(key)
  IN  IF fast.ok THEN fast.result /\ ~isNonSensitiveKey(key)
      ELSE isSensitiveNormalizedKeyTokens(re, normalized) /\ ~isNonSensitiveNormalizedKey(normalized)

-----------------------------------------------------------------------------

Idle == [extra |-> {}, drop |-> {}, key |-> <<>>, done |-> FALSE, answer |-> FALSE, strong |-> FALSE]

KeyInit == st = Idle

\* New applies the options.
WithTokens ==
  /\ st = Idle
  /\ \E tok \in ConfigTokens :
       \/ st' = [st EXCEPT !.extra = normalizeConfigToken(tok)]
       \/ st' = [st EXCEPT !.drop = normalizeConfigToken(tok)]

ClassifyKey ==
  /\ ~st.done
  /\ \E key \in Keys :
       st' = [st EXCEPT !.key = key, !.done = TRUE, !.answer = isSensitiveKey(st, key),
                        !.strong = isStrongSecretName(st, key)]

KeyNext == WithTokens \/ ClassifyKey

-----------------------------------------------------------------------------
(* Card numbers *)

maxCardDigits == 19
minShortMaestroDigits == 12

Digits(prefix, n, last) == prefix \o [i \in 1..n - Len(prefix) - 1 |-> 0] \o <<last>>

matchesCard15(d) ==
  \/ d[1] = 3 /\ d[2] \in {4, 7}
  \/ SubSeq(d, 1, 4) = <<2, 1, 3, 1>>
  \/ SubSeq(d, 1, 4) = <<1, 8, 0, 0>>

matchesCard14(d) == d[1] = 3 /\ ((d[2] = 0 /\ d[3] \in 0..5) \/ d[2] \in {6, 8})

matchesMaestroIIN(d) ==
  d[1] * 1000 + d[2] * 100 + d[3] * 10 + d[4] \in {5018, 5020, 5038, 5893, 6304, 6759, 6761, 6762, 6763}

\* Mutant: Discover ends at 648.
matchesCard6Series_648(d) ==
  d[2] \in {2, 5} \/ (d[2] = 0 /\ d[3] = 1 /\ d[4] = 1) \/ (d[2] = 4 /\ d[3] \in 4..8)

matchesCard6Series(d) ==
  \/ d[2] \in {2, 5}
  \/ d[2] = 0 /\ d[3] = 1 /\ d[4] = 1
  \/ d[2] = 4 /\ d[3] \in 4..9

matchesCard16To19(d) ==
  \/ Len(d) = 16 /\ d[1] \in {2, 5} /\ d[2] \in 1..7
  \/ d[1] = 3 /\ d[2] = 5
  \/ d[1] # 3 /\ matchesMaestroIIN(d)
  \/ d[1] = 6 /\ matchesCard6Series(d)

matchesCardPattern(d) ==
  LET n == Len(d)
  IN  /\ n \in 13..maxCardDigits
      /\ IF d[1] = 4 THEN n \in {13, 16, 19}
         ELSE \/ n >= 16 /\ matchesCard16To19(d)
              \/ n = 15 /\ matchesCard15(d)
              \/ n = 14 /\ matchesCard14(d)

passesLuhn(d) ==
  LET value(i) == IF (Len(d) - i) % 2 = 0 THEN d[i] ELSE IF d[i] > 4 THEN 2 * d[i] - 9 ELSE 2 * d[i]
  IN  FoldLeftDomain(LAMBDA sum, i : sum + value(i), 0, d) % 10 = 0

isCreditCard(luhn, d) ==
  \/ matchesCardPattern(d) /\ (luhn => passesLuhn(d))
  \/ /\ ~matchesCardPattern(d)
     /\ luhn /\ Len(d) \in minShortMaestroDigits..15 /\ matchesMaestroIIN(d) /\ passesLuhn(d)

isGroupedCardCandidate(luhn, d) ==
  ~(Len(d) = 14 \/ (Len(d) = 15 /\ d[1] # 3)) /\ isCreditCard(luhn, d)

\* The gate on, or off.
CardInit == \E luhn \in BOOLEAN : st = [luhn |-> luhn, digits |-> <<>>, card |-> FALSE, grouped |-> FALSE]

\* A run is longer than a card's digits, or is classified alone and as joined groups.
ClassifyCard ==
  /\ st.digits = <<>>
  /\ \E prefix \in CardPrefixes, n \in Lengths, last \in LastDigits :
       LET d == Digits(prefix, n, last)
       IN  st' = [st EXCEPT !.digits = d, !.card = isCreditCard(st.luhn, d),
                            !.grouped = n <= maxCardDigits /\ isGroupedCardCandidate(st.luhn, d)]

-----------------------------------------------------------------------------
(* Properties *)

\* A token starts at i: after a separator, at an upper case letter after a lower case one or
\* a digit, and at the last upper case letter of an acronym that a word follows.
TokenStarts(key, i) ==
  /\ key[i] \in AlphaNum
  /\ \/ i = 1 \/ key[i - 1] \notin AlphaNum
     \/ key[i] \in Upper /\ key[i - 1] \notin Upper
     \/ key[i] \in Upper /\ i < Len(key) /\ key[i + 1] \in Lower

TokensOf(key) ==
  LET starts == SetToSortSeq({i \in DOMAIN key : TokenStarts(key, i)}, <)
      end(i) == Min({j \in i + 1..Len(key) : key[j] \notin AlphaNum \/ TokenStarts(key, j)}
                      \union {Len(key) + 1})
  IN  [k \in DOMAIN starts |-> Lowered(SubSeq(key, starts[k], end(starts[k]) - 1))]

\* The scan of the bytes and the rewriting of the runes agree with the cut of TokensOf on
\* every key, so the answer does not depend on which of them ran; and a name that is strong
\* enough to redact its sibling's value is also sensitive, unless it is on the allowlist.
KeysAgree ==
  LET toks  == TokensOf(st.key)
      joined == FlattenSeq([k \in DOMAIN toks |-> IF k = 1 THEN toks[k] ELSE <<"_">> \o toks[k]])
      hot    == \/ \E k \in DOMAIN toks : sensitiveToken(st, toks[k])
                \/ \E k \in 2..Len(toks) : <<toks[k - 1], toks[k]>> \in Pairs
  IN  st.done =>
        /\ st.answer = (hot /\ joined \notin Allowed)
        /\ st.strong /\ joined \notin Allowed => st.answer

\* What the networks issue: first four digits and lengths.  2221-2720 is taken as 21xx-27xx
\* and 51-55 as 51-57.
CardNetworks ==
  {[from |-> 4000, to |-> 4999, len |-> {13, 16, 19}], [from |-> 2100, to |-> 2799, len |-> {16}],
   [from |-> 5100, to |-> 5799, len |-> {16}], [from |-> 3400, to |-> 3499, len |-> {15}],
   [from |-> 3700, to |-> 3799, len |-> {15}], [from |-> 2131, to |-> 2131, len |-> {15}],
   [from |-> 1800, to |-> 1800, len |-> {15}], [from |-> 3000, to |-> 3059, len |-> {14}],
   [from |-> 3600, to |-> 3699, len |-> {14}], [from |-> 3800, to |-> 3899, len |-> {14}],
   [from |-> 3500, to |-> 3599, len |-> 16..19], [from |-> 6200, to |-> 6299, len |-> 16..19],
   [from |-> 6500, to |-> 6599, len |-> 16..19], [from |-> 6011, to |-> 6011, len |-> 16..19],
   [from |-> 6440, to |-> 6499, len |-> 16..19]}
  \union [from : {5018, 5020, 5038, 5893, 6304, 6759, 6761, 6762, 6763}, to : {0}, len : {16..19}]

\* A run is a card without the gate exactly if a network issues its prefix in its length; the
\* gate lets every such number through to be redacted unless one digit of it was mistyped.
CardsAreRecognised ==
  LET d   == st.digits
      iin == d[1] * 1000 + d[2] * 100 + d[3] * 10 + d[4]
      issued == \E w \in CardNetworks : (iin = w.from \/ iin \in w.from..w.to) /\ Len(d) \in w.len
  IN  d # <<>> =>
        /\ ~st.luhn => (st.card <=> issued)
        /\ st.grouped => st.card
        /\ st.luhn /\ st.card =>
             \A i \in 2..4, x \in 0..9 : x # d[i] => ~passesLuhn([d EXCEPT ![i] = x])

=============================================================================
