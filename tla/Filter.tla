--------------------------------- MODULE Filter ---------------------------------
(***************************************************************************)
(* pkg/filter: rules parsed from JSON or given by the caller, compiled     *)
(* against the element type and applied to a slice in place.  Values are   *)
(* records with a kind k: int, uint and float (n; NaN for a float that is  *)
(* not a number), str (s, a sequence of letters), bool (b), nil, struct    *)
(* (t, the type's name, and f, its fields) and ptr (to).                   *)
(***************************************************************************)
EXTENDS Integers, SequencesExt

CONSTANTS
  Types,     \* type name -> field name -> [type, exported]; other types have no fields
  Payloads,  \* the filters a client sends: groups of raw rules
  GoRules,   \* the rules a Go caller builds
  Slices,    \* the slices filtered: [type, elems]; type "any" for an interface
  Windows,   \* offset and length of ApplySubset
  MaxRules, MaxResults, MaxValueLen, MaxFilterBytes, MaxFieldDepth,
  ExactBits  \* integers up to 2^ExactBits are exact as floats

VARIABLE st  \* the rules, the slice before and after, and what was returned

NaN == 99
Nil == [k |-> "nil"]
Invalid == [ok |-> FALSE, why |-> "invalid"]  \* an error that wraps ErrInvalidFilter
NotFound == [ok |-> FALSE, why |-> "not found"]
Refused == [ok |-> FALSE, why |-> "arguments"]
Ok(x) == [ok |-> TRUE, val |-> x]

-----------------------------------------------------------------------------
(* numeric.go *)

toNumeric(v) == v.k \in {"int", "uint", "float"}

\* Ties round to even.
float(v) ==
  IF v.k = "float" \/ v.n \in -(2^ExactBits)..2^ExactBits \/ v.n % 2 = 0 THEN v.n
  ELSE IF v.n % 4 = 1 THEN v.n - 1 ELSE v.n + 1

cmp(a, b) == IF a < b THEN -1 ELSE IF a > b THEN 1 ELSE 0

\* Mutant: an unsigned operand is compared as its signed bits.
compareInt_Signed(a, b) ==
  LET signed(n) == IF n > 7 THEN n - 16 ELSE n IN cmp(signed(a.n), signed(b.n))

\* A negative integer is less than any unsigned one, and no conversion wraps around.
compareInt(a, b) ==
  CASE a.k = b.k                    -> cmp(a.n, b.n)
    [] a.k = "int" /\ b.k = "uint"  -> IF a.n < 0 THEN -1 ELSE cmp(a.n, b.n)
    [] a.k = "uint" /\ b.k = "int"  -> -(IF b.n < 0 THEN -1 ELSE cmp(b.n, a.n))

\* The order of two numbers; not ok if one of them is not a number.
compare(a, b) ==
  IF a.k # "float" /\ b.k # "float" THEN Ok(compareInt(a, b))
  ELSE IF float(a) = NaN \/ float(b) = NaN THEN [ok |-> FALSE] ELSE Ok(cmp(float(a), float(b)))

numericEquals(a, b) == compare(a, b).ok /\ compare(a, b).val = 0

-----------------------------------------------------------------------------
(* The evaluators *)

Fold(s) == [i \in DOMAIN s |-> IF s[i] = "A" THEN "a" ELSE s[i]]

equalTo(ref, v, folded) ==
  CASE toNumeric(ref)  -> toNumeric(v) /\ numericEquals(ref, v)
    [] ref.k = "str"   -> v.k = "str" /\ IF folded THEN Fold(v.s) = Fold(ref.s) ELSE v.s = ref.s
    [] ref.k = "nil"   -> v.k = "nil" \/ (v.k = "ptr" /\ v.to = Nil)
    [] OTHER           -> v = ref

\* A string stands for its length, and so do the collections.
ordered(ref, v, signs) ==
  LET c == IF toNumeric(v) THEN compare(v, ref)
           ELSE IF v.k = "str" THEN compare([k |-> "int", n |-> Len(v.s)], ref) ELSE [ok |-> FALSE]
  IN  c.ok /\ c.val \in signs

HasSub(s, sub) == \E i \in 0..Len(s) : IsPrefix(sub, SubSeq(s, i + 1, Len(s)))

\* The patterns are literal; one that starts with a star does not compile.
compiles(pattern) == pattern = <<>> \/ pattern[1] # "*"

equal(ref, v) == equalTo(ref, v, FALSE)
equalFold(ref, v) == equalTo(ref, v, TRUE)
evalRegexp(ref, v) == v.k = "str" /\ HasSub(v.s, ref.s)
evalHasPrefix(ref, v) == v.k = "str" /\ IsPrefix(ref.s, v.s)
evalHasSuffix(ref, v) == v.k = "str" /\ IsSuffix(ref.s, v.s)
evalContains(ref, v) == v.k = "str" /\ HasSub(v.s, ref.s)
lt(ref, v) == ordered(ref, v, {-1})
lte(ref, v) == ordered(ref, v, {-1, 0})
gt(ref, v) == ordered(ref, v, {1})
gte(ref, v) == ordered(ref, v, {0, 1})

Evaluate(op, ref, v) ==
  CASE op = "==" -> equal(ref, v)         [] op = "="      -> equalFold(ref, v)
    [] op = "^=" -> evalHasPrefix(ref, v) [] op = "=$"     -> evalHasSuffix(ref, v)
    [] op = "~=" -> evalContains(ref, v)  [] op = "regexp" -> evalRegexp(ref, v)
    [] op = "<"  -> lt(ref, v)            [] op = "<="     -> lte(ref, v)
    [] op = ">"  -> gt(ref, v)            [] op = ">="     -> gte(ref, v)

\* The evaluator exists: the reference fits the operator, and a pattern compiles.
getBaseTypeEvaluator(op, ref) ==
  CASE op \in {"==", "="}              -> TRUE
    [] op \in {"^=", "=$", "~="}       -> ref.k = "str"
    [] op = "regexp"                   -> ref.k = "str" /\ compiles(ref.s)
    [] op \in {"<", "<=", ">", ">="}   -> toNumeric(ref)
    [] OTHER                           -> FALSE

getEvaluator(rule) == getBaseTypeEvaluator(rule.op, rule.value)

-----------------------------------------------------------------------------
(* Field paths *)

Struct(t) == t \in DOMAIN Types

\* The type at the end of the path, or why there is none.
RECURSIVE getFieldPath(_, _)
getFieldPath(t, names) ==
  IF names = <<>> THEN Ok(t)
  ELSE IF ~Struct(t) THEN Invalid
  ELSE IF Head(names) \notin DOMAIN Types[t] THEN NotFound
  ELSE IF ~Types[t][Head(names)].exported THEN Invalid
  ELSE getFieldPath(Types[t][Head(names)].type, Tail(names))

\* The cache of paths is left out: what it holds is what getFieldPath returns.
resolvePath(t, path) == IF Len(path) > MaxFieldDepth THEN Invalid ELSE getFieldPath(t, path)

Indirect(v) == IF v.k = "ptr" THEN v.to ELSE v

unwrapLeaf(v) == Indirect(v)

RECURSIVE walkFieldPath(_, _)
walkFieldPath(v, path) ==
  IF path = <<>> THEN Ok(unwrapLeaf(v))
  ELSE IF Indirect(v) = Nil THEN [ok |-> FALSE, why |-> "no match"]
  ELSE walkFieldPath(Indirect(v).f[Head(path)], Tail(path))

TypeOf(v) == IF Indirect(v).k = "struct" THEN Indirect(v).t ELSE v.k

\* The element of an interface slice has its own type.
dynamicFieldValue(path, v) ==
  IF v = Nil THEN [ok |-> FALSE, why |-> "no match"]
  ELSE LET found == resolvePath(TypeOf(v), path)
       IN  IF found.ok THEN walkFieldPath(v, path)
           ELSE IF found = NotFound THEN [ok |-> FALSE, why |-> "no match"] ELSE found

ruleValue(rule, elemType, elem) ==
  IF rule.field = <<>> THEN Ok(elem)
  ELSE IF elemType = "any" THEN dynamicFieldValue(rule.field, elem)
  ELSE walkFieldPath(elem, rule.field)

-----------------------------------------------------------------------------
(* Rules against an element *)

evaluateRule(rule, elemType, elem) ==
  LET value == ruleValue(rule, elemType, elem)
  IN  IF value.ok THEN Ok(Evaluate(rule.op, rule.value, value.val) # rule.negated)
      ELSE IF value.why = "no match" THEN Ok(FALSE) ELSE value

\* The first of results that settles it, or what holds if none does.
Settle(results, settles, otherwise) ==
  LET at == {i \in DOMAIN results : ~results[i].ok \/ results[i].val = settles}
  IN  IF at = {} THEN Ok(otherwise) ELSE results[Min(at)]

evaluateRules(rules, elemType, elem) ==
  Settle([i \in DOMAIN rules |->
            Settle([j \in DOMAIN rules[i] |-> evaluateRule(rules[i][j], elemType, elem)], TRUE, FALSE)],
         FALSE, TRUE)

compileRule(rule, elemType) ==
  IF rule.value.k = "str" /\ Len(rule.value.s) > MaxValueLen THEN Invalid
  ELSE IF ~getEvaluator(rule) THEN Invalid
  ELSE IF rule.field = <<>> \/ elemType = "any" THEN Ok(0)
  ELSE IF resolvePath(elemType, rule.field) = NotFound THEN Invalid
  ELSE resolvePath(elemType, rule.field)

compileRules(rules, elemType) ==
  \A i \in DOMAIN rules : \A j \in DOMAIN rules[i] : compileRule(rules[i][j], elemType).ok

RulesIn(rules) == FoldLeft(LAMBDA n, group : n + Len(group), 0, rules)

checkRulesCount(rules) ==
  /\ Len(rules) <= MaxRules
  /\ \A i \in DOMAIN rules : rules[i] # <<>>
  /\ RulesIn(rules) <= MaxRules

-----------------------------------------------------------------------------
(* Parsing *)

\* A number of the JSON text: an int64, a uint64, a float64, or none of them.
exactJSONNumber(raw) ==
  IF raw.whole /\ raw.n \in -8..7 THEN Ok([k |-> "int", n |-> raw.n])
  ELSE IF raw.whole /\ raw.n \in 0..15 THEN Ok([k |-> "uint", n |-> raw.n])
  ELSE IF raw.n > 31 THEN Invalid ELSE Ok([k |-> "float", n |-> float([k |-> "int", n |-> raw.n])])

normalizeRuleValue(raw) ==
  CASE raw.k = "number"             -> exactJSONNumber(raw)
    [] raw.k \in {"array", "object"} -> Invalid
    [] OTHER                        -> Ok(raw)

\* A raw rule holds the keys that were set.
parseRule(raw) ==
  IF ~(DOMAIN raw = {"field", "op", "negated", "value"}) THEN Invalid
  ELSE LET value == normalizeRuleValue(raw.value)
       IN  IF value.ok THEN Ok([raw EXCEPT !.value = value.val]) ELSE Invalid

parseJSON(raw) ==
  IF raw = <<>> \/ \E i \in DOMAIN raw : \E j \in DOMAIN raw[i] : ~parseRule(raw[i][j]).ok THEN Invalid
  ELSE Ok([i \in DOMAIN raw |-> [j \in DOMAIN raw[i] |-> parseRule(raw[i][j]).val]])

ParseJSON(payload) ==
  IF payload.bytes > MaxFilterBytes THEN Invalid
  ELSE LET parsed == parseJSON(payload.raw)
       IN  IF parsed.ok /\ ~checkRulesCount(parsed.val) THEN Invalid ELSE parsed

-----------------------------------------------------------------------------
(* Filtering *)

\* The indexes kept, and how many elements match, from what the rules said of each.
selectMatches(results, offset, length) ==
  LET bad  == {i \in DOMAIN results : ~results[i].ok}
      hits == SetToSortSeq({i \in DOMAIN results : results[i].ok /\ results[i].val}, <)
  IN  IF bad # {} THEN results[Min(bad)]
      ELSE Ok([selected |-> SubSeq(hits, offset + 1, Min({offset + length, Len(hits)})), total |-> Len(hits)])

\* Mutant: elements are copied while they are selected, from the back.
compact_Back(elems, selected) ==
  LET from(n, s) == [s EXCEPT ![n] = s[selected[n]]]
      moved == FoldLeftDomain(LAMBDA s, k : from(Len(selected) + 1 - k, s), elems, selected)
  IN  SubSeq(moved, 1, Len(selected))

\* slice[n] = slice[selected[n]] for each n in turn, in the slice itself; then its length.
compact(elems, selected) ==
  SubSeq(FoldLeftDomain(LAMBDA s, n : [s EXCEPT ![n] = s[selected[n]]], elems, selected),
         1, Len(selected))

filterSliceValue(rules, slice, offset, length) ==
  LET results == [i \in DOMAIN slice.elems |-> evaluateRules(rules, slice.type, slice.elems[i])]
      found   == selectMatches(results, offset, length)
  IN  IF found.ok
      THEN Ok([elems |-> compact(slice.elems, found.val.selected), total |-> found.val.total])
      ELSE found

ApplySubset(rules, slice, offset, length) ==
  IF length < 1 \/ length > MaxResults THEN Refused
  ELSE IF ~checkRulesCount(rules) THEN Invalid
  ELSE IF slice.type = "not a slice" THEN Refused
  ELSE IF ~compileRules(rules, slice.type) THEN Invalid
  ELSE filterSliceValue(rules, slice, offset, length)

Apply(rules, slice) == ApplySubset(rules, slice, 0, MaxResults)

-----------------------------------------------------------------------------

Init == \E slice \in Slices : st = [pc |-> "rules", rules |-> <<>>, slice |-> slice, got |-> slice.elems,
                                    window |-> [offset |-> 0, length |-> MaxResults], out |-> Refused]

\* The client's filter; the caller gives up if it does not parse.
Parse ==
  /\ st.pc = "rules"
  /\ \E payload \in Payloads :
       LET parsed == ParseJSON(payload)
       IN  st' = IF parsed.ok THEN [st EXCEPT !.pc = "apply", !.rules = parsed.val]
                 ELSE [st EXCEPT !.pc = "done", !.out = parsed]

BuildRules ==
  /\ st.pc = "rules"
  /\ \E rules \in GoRules : st' = [st EXCEPT !.pc = "apply", !.rules = rules]

Run ==
  /\ st.pc = "apply"
  /\ \E w \in Windows \union {[offset |-> 0, length |-> MaxResults]} :
       LET out == ApplySubset(st.rules, st.slice, w.offset, w.length)
       IN  st' = [st EXCEPT !.pc = "done", !.window = w, !.out = out,
                            !.got = IF out.ok THEN out.val.elems ELSE @]

Next == Parse \/ BuildRules \/ Run

-----------------------------------------------------------------------------
(* Properties *)

\* What the rules mean: every group has a rule that the element's field passes.
Matches(e) ==
  \A i \in DOMAIN st.rules : \E j \in DOMAIN st.rules[i] :
    LET r == ruleValue(st.rules[i][j], st.slice.type, e)
        raw == st.rules[i][j]
    IN  r.ok /\ (Evaluate(raw.op, raw.value, r.val) # raw.negated)

\* A filter that ran left in the slice exactly the window of the matching elements, in their
\* order, and counted all of them; one that was refused left the slice as it was.
FilterIsExact ==
  st.pc = "done" =>
    LET hits == SelectSeq(st.slice.elems, Matches)
    IN  IF st.out.ok
        THEN /\ st.got = SubSeq(hits, st.window.offset + 1,
                                Min({st.window.offset + st.window.length, Len(hits)}))
             /\ st.out.val.total = Len(hits)
        ELSE st.got = st.slice.elems

Sign(n) == IF n < 0 THEN -1 ELSE IF n > 0 THEN 1 ELSE 0

\* Integers of any sign and width compare by their values, as a rule's reference and as an
\* element's field; and a client's number means the same whichever type it was read as.
NumbersCompareByValue ==
  \A i \in DOMAIN st.rules : \A j \in DOMAIN st.rules[i] : \A e \in Range(st.slice.elems) :
    LET ref == st.rules[i][j].value
    IN  (ref.k \in {"int", "uint"} /\ e.k \in {"int", "uint"}) => compare(e, ref) = Ok(Sign(e.n - ref.n))

=============================================================================
