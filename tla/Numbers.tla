--------------------------------- MODULE Numbers ---------------------------------
(***************************************************************************)
(* The packages that compute with numbers: paging, decint, enumbitmap,     *)
(* uhex, the identifiers of random, sliceutil and timeutil.  A step        *)
(* computes one result from small inputs; widths and scales are constants  *)
(* so that every boundary of the real ones is near.                        *)
(***************************************************************************)
EXTENDS Integers, SequencesExt

CONSTANTS
  W,         \* bits of an integer: 64 in the code
  FloatBits, \* significant bits of a float: 53 in the code
  Scale,     \* decint: 10^6 in the code
  MaxFloat,  \* decint: 2^33 in the code
  HexBase,   \* uhex: 16 in the code
  MaxBit,    \* enumbitmap: 32 in the code
  Enum,      \* enumbitmap: bit value -> name
  Samples,   \* sliceutil: the slices described
  Instants   \* random: the times [ms, ns] of identifiers

VARIABLE st  \* the operation, its input and its output

MaxUint == 2^W - 1
MinInt == -(2^(W - 1))
UintW == 0..MaxUint
IntW == MinInt..(2^(W - 1) - 1)
Abs(n) == IF n < 0 THEN -n ELSE n
Smaller(a, b) == IF a < b THEN a ELSE b
Larger(a, b) == IF a > b THEN a ELSE b

-----------------------------------------------------------------------------
(* pkg/paging *)

\* Mutant: the product is not checked.
computeOffset_Wraps(currentPage, pageSize) == (pageSize * (currentPage - 1)) % 2^W

\* An offset that does not fit is pinned to the largest.
computeOffset(currentPage, pageSize) ==
  LET offset == (pageSize * (currentPage - 1)) % 2^W
  IN  IF currentPage > 1 /\ offset \div pageSize # currentPage - 1 THEN MaxUint ELSE offset

computeTotalPages(totalItems, pageSize) ==
  IF totalItems <= pageSize THEN 1
  ELSE (totalItems \div pageSize) + (IF totalItems % pageSize # 0 THEN 1 ELSE 0)

computePreviousPage(currentPage) == IF currentPage <= 1 THEN 1 ELSE currentPage - 1

computeNextPage(currentPage, totalPages) ==
  IF currentPage >= totalPages THEN totalPages ELSE currentPage + 1

NewPaging(currentPage, pageSize, totalItems) ==
  LET size  == Larger(pageSize, 1)
      total == computeTotalPages(totalItems, size)
      page  == Smaller(Larger(currentPage, 1), total)
  IN  [page |-> page, size |-> size, items |-> totalItems, pages |-> total,
       previous |-> computePreviousPage(page), next |-> computeNextPage(page, total),
       offset |-> computeOffset(page, size), hasPrevious |-> page > 1, hasNext |-> page < total]

ComputeOffsetAndLimit(currentPage, pageSize) ==
  LET page == Larger(currentPage, 1) size == Larger(pageSize, 1)
  IN  [offset |-> computeOffset(page, size), limit |-> size]

-----------------------------------------------------------------------------
(* pkg/decint: a float is a multiple f of 1 / (4 * Scale) *)

MaxDecInt == MaxFloat * Scale

\* math.Round: half away from zero.
Round(quarters) ==
  LET n == (Abs(quarters) + 2) \div 4 IN IF quarters < 0 THEN -n ELSE n

FloatToInt(f) ==
  IF f >= MaxFloat * 4 * Scale THEN MaxDecInt
  ELSE IF f <= -MaxFloat * 4 * Scale THEN -MaxDecInt ELSE Round(f)

FloatToUint(f) ==
  IF f <= 0 THEN 0 ELSE IF f >= MaxFloat * 4 * Scale THEN MaxDecInt ELSE Round(f)

\* A string is its sign, its whole part and its decimals; the magnitude of the least
\* integer is its own negation.
IntToString(v) ==
  LET u == IF v < 0 THEN (-(v % 2^W)) % 2^W ELSE v
  IN  [neg |-> v < 0, whole |-> u \div Scale, frac |-> u % Scale]

UintToString(v) == [neg |-> FALSE, whole |-> v \div Scale, frac |-> v % Scale]

\* strconv.ParseFloat of such a string.
ParseFloat(s) == (IF s.neg THEN -4 ELSE 4) * (s.whole * Scale + s.frac)

OutOfRange == [ok |-> FALSE, v |-> 0]

StringToInt(s) ==
  LET v == ParseFloat(s)
  IN  IF Abs(v) > MaxFloat * 4 * Scale THEN OutOfRange ELSE [ok |-> TRUE, v |-> FloatToInt(v)]

StringToUint(s) ==
  LET v == ParseFloat(s)
  IN  IF v > MaxFloat * 4 * Scale THEN OutOfRange ELSE [ok |-> TRUE, v |-> FloatToUint(v)]

-----------------------------------------------------------------------------
(* pkg/enumbitmap *)

Bit(v, k) == (v \div 2^k) % 2 = 1

BitMapToStrings(v) ==
  LET bits  == {k \in 0..MaxBit - 1 : Bit(v, k)}
      known == SetToSortSeq({k \in bits : 2^k \in DOMAIN Enum}, <)
  IN  [s |-> [i \in DOMAIN known |-> Enum[2^known[i]]], unknown |-> {2^k : k \in bits} \ DOMAIN Enum]

\* The ids are or-ed; a name may come twice.
StringsToBitMap(s) ==
  LET ids == {id \in DOMAIN Enum : \E i \in DOMAIN s : s[i] = Enum[id]}
  IN  [v |-> FoldSet(LAMBDA id, n : n + id, 0, ids),
       unknown |-> {s[i] : i \in DOMAIN s} \ {Enum[id] : id \in DOMAIN Enum}]

-----------------------------------------------------------------------------
(* pkg/uhex: a byte is two digits of HexBase *)

ByteSize == HexBase * HexBase
hex16(b) == <<b \div HexBase, b % HexBase>>
Hex(bytes) == FlattenSeq([i \in DOMAIN bytes |-> hex16(bytes[i])])
BytesOf(n, k) == [i \in 1..k |-> (n \div ByteSize^(k - i)) % ByteSize]
Hex64(n) == Hex(BytesOf(n, 8))
Hex32(n) == Hex(BytesOf(n, 4))
Hex16(n) == Hex(BytesOf(n, 2))
Hex8(n) == Hex(BytesOf(n, 1))

-----------------------------------------------------------------------------
(* pkg/random: identifiers.  Bytes are 0..255 and times fit in 31 bits here. *)

ByteAt(n, k) == IF k > 3 THEN 0 ELSE (n \div 256^k) % 256

\* The milliseconds, then twelve bits of what is left of the nanoseconds (which is
\* nanoseconds * 4294 / 2^20), then random bits.
UUIDv7(ms, ns, rb) ==
  LET frac == ((ns % 1000000) * 2147) \div 2^19
  IN  [i \in 1..16 |->
         CASE i <= 6 -> ByteAt(ms, 6 - i)
           [] i = 7  -> 112 + ((frac \div 256) % 16)
           [] i = 8  -> frac % 256
           [] i = 9  -> 128 + (rb % 64)
           [] OTHER  -> rb]

\* The 36 characters of String: two digits for a byte, and four dashes.
FormatUUID(u) ==
  LET hex(i, j) == FlattenSeq([k \in 1..j - i + 1 |-> <<u[i + k - 1] \div 16, u[i + k - 1] % 16>>])
      dash      == <<-1>>
  IN  hex(1, 4) \o dash \o hex(5, 6) \o dash \o hex(7, 8) \o dash \o hex(9, 10) \o dash \o hex(11, 14) \o hex(15, 16)

\* Seconds since the decade began in the high bits; sec is below 2^W and so is the decade.
UID64(sec, rnd) == sec * 2^W + (rnd % 2^W)

-----------------------------------------------------------------------------
(* pkg/sliceutil: Stats, without the moments *)

\* The run lengths of the sorted slice give the mode.
modeStep(ord, a, i) ==
  IF ord[i] = ord[i - 1] THEN [a EXCEPT !.freq = @ + 1]
  ELSE IF a.freq > a.modeFreq THEN [mode |-> ord[i - 1], modeFreq |-> a.freq, freq |-> 1]
  ELSE [a EXCEPT !.freq = 1]

centerStep(s, a, i) ==
  IF s[i] < a.min THEN [a EXCEPT !.sum = @ + s[i], !.min = s[i], !.minID = i - 1]
  ELSE IF s[i] > a.max THEN [a EXCEPT !.sum = @ + s[i], !.max = s[i], !.maxID = i - 1]
  ELSE [a EXCEPT !.sum = @ + s[i]]

statsMedian(ord) ==
  LET mid == Len(ord) \div 2
  IN  IF Len(ord) % 2 = 0 THEN ord[mid] + ord[mid + 1] ELSE 2 * ord[mid + 1]

Stats(s) ==
  LET n      == Len(s)
      ord    == SortSeq(s, <)
      center == FoldLeft(LAMBDA a, i : centerStep(s, a, i),
                  [sum |-> s[1], min |-> s[1], minID |-> 0, max |-> s[1], maxID |-> 0], [k \in 1..n - 1 |-> k + 1])
      runs   == FoldLeft(LAMBDA a, i : modeStep(ord, a, i),
                  [mode |-> ord[1], modeFreq |-> 1, freq |-> 1], [k \in 1..n - 1 |-> k + 1])
      last   == IF runs.freq > runs.modeFreq THEN [runs EXCEPT !.mode = ord[n], !.modeFreq = runs.freq] ELSE runs
  IN  [center |-> center, mode |-> last.mode, modeFreq |-> last.modeFreq, range |-> center.max - center.min,
       median2 |-> statsMedian(ord)]

-----------------------------------------------------------------------------
(* pkg/timeutil: a JSON number is h halves, in the notation of integers or another *)

\* json.Number.Float64: FloatBits bits of it, the nearest, and of two the even one.
Float64(h) ==
  LET unit == 2^Min({k \in 0..2 * W : Abs(h) \div 2^k < 2^FloatBits})
      n    == Abs(h) \div unit
      rest == Abs(h) % unit
      near == unit * (IF 2 * rest > unit \/ (2 * rest = unit /\ n % 2 = 1) THEN n + 1 ELSE n)
  IN  IF h < 0 THEN -near ELSE near

Whole(h) == IF h < 0 THEN -((-h) \div 2) ELSE h \div 2

\* What is no int64 in the notation of integers is read as a float, and truncated.
fromNumber(h, integer) ==
  LET aux == Float64(h)
  IN  IF integer /\ h \div 2 \in IntW THEN [ok |-> TRUE, ns |-> h \div 2]
      ELSE IF aux < 2 * MinInt \/ aux >= 2 * (2^(W - 1)) THEN [ok |-> FALSE, ns |-> 0]
      ELSE [ok |-> TRUE, ns |-> Whole(aux)]

-----------------------------------------------------------------------------

Init == st = [op |-> "none"]

Compute(op, in, out) == st' = [op |-> op, in |-> in, out |-> out]

Page == \E page, size, items \in UintW :
          Compute("page", <<page, size, items>>,
                  [p |-> NewPaging(page, size, items), o |-> ComputeOffsetAndLimit(page, size)])

Decimal == \E v \in IntW, f \in -5 * Scale..5 * Scale :
             Compute("decimal", <<v, f>>,
                     [back |-> StringToInt(IntToString(v)), s |-> IntToString(v), near |-> FloatToInt(f),
                      uback |-> StringToUint(UintToString(Abs(v))), unear |-> FloatToUint(f)])

Bits == \E v \in 0..2^(MaxBit + 1) - 1 :
          Compute("bits", v, [names |-> BitMapToStrings(v), back |-> StringsToBitMap(BitMapToStrings(v).s)])

HexDigits == \E n \in 0..ByteSize^4 - 1 :
               Compute("hex", n, <<Hex64(n), Hex32(n), Hex16(n % ByteSize^2), Hex8(n % ByteSize)>>)

Identify == \E t, u \in Instants, a, b \in {0, 255} :
              Compute("uuid", <<t, u>>, [first |-> UUIDv7(t.ms, t.ns, a), second |-> UUIDv7(u.ms, u.ns, b),
                                         text |-> FormatUUID(UUIDv7(t.ms, t.ns, a)),
                                         order |-> UID64(t.ms, a) < UID64(u.ms, b)])

Describe == \E s \in Samples : Compute("stats", s, Stats(s))

ReadDuration == \E h \in 2 * MinInt - 7..2^W + 7, integer \in BOOLEAN :
  (integer => h % 2 = 0) /\ Compute("duration", <<h, integer>>, fromNumber(h, integer))

Next ==
  /\ st.op = "none"
  /\ \/ Page \/ Decimal \/ Bits \/ HexDigits \/ Identify \/ Describe \/ ReadDuration

-----------------------------------------------------------------------------
(* Properties *)

\* The pages of a listing cover its items once, the page returned is one of them, and an
\* offset that does not fit in an integer is pinned to the largest one.
PagesPartition ==
  LET p == st.out.p o == st.out.o
      start(k) == p.size * (k - 1)
  IN  /\ p.page \in 1..p.pages /\ p.offset = start(p.page)
      /\ p.items > 0 => start(p.pages) < p.items
      /\ p.items <= p.size * p.pages
      /\ p.previous = Larger(1, p.page - 1) /\ p.next = Smaller(p.pages, p.page + 1)
      /\ o.offset = Smaller(MaxUint, o.limit * (Larger(st.in[1], 1) - 1))

\* What is written is read back up to the safe range and refused beyond it, and a float
\* becomes the nearest decimal, clamped.
DecimalsRoundTrip ==
  LET v == st.in[1] f == st.in[2]
  IN  /\ st.out.s.whole * Scale + st.out.s.frac = Abs(v)
      /\ st.out.back = IF Abs(v) <= MaxDecInt THEN [ok |-> TRUE, v |-> v] ELSE OutOfRange
      /\ st.out.uback = IF Abs(v) <= MaxDecInt THEN [ok |-> TRUE, v |-> Abs(v)] ELSE OutOfRange
      /\ Abs(st.out.near) <= MaxDecInt /\ st.out.unear = Larger(0, st.out.near)
      /\ Abs(f) <= 4 * MaxDecInt => Abs(4 * st.out.near - f) <= 2

\* Names and bits convert back to the bits that have a name; the others are reported,
\* except those beyond the last.
BitsRoundTrip ==
  LET low   == st.in % 2^MaxBit
      found == st.out.back.v
  IN  /\ st.out.back.unknown = {}
      /\ found + FoldSet(LAMBDA x, n : x + n, 0, st.out.names.unknown) = low
      /\ \A k \in 0..MaxBit - 1 : Bit(found, k) => 2^k \in DOMAIN Enum

Value(digits) == FoldLeft(LAMBDA n, d : n * HexBase + d, 0, digits)

\* The digits of every width read back as the number, most significant first.
HexRoundTrips ==
  /\ Value(st.out[1]) = st.in /\ Value(st.out[2]) = st.in
  /\ Value(st.out[3]) = st.in % ByteSize^2 /\ Value(st.out[4]) = st.in % ByteSize

Below(a, b) == \E i \in DOMAIN a : a[i] < b[i] /\ \A j \in 1..i - 1 : a[j] = b[j]

\* Identifiers made at later times never sort before earlier ones of another millisecond or
\* another 12-bit fraction of it, and carry the version and variant of RFC 9562.
IdentifiersAreOrdered ==
  LET t == st.in[1] u == st.in[2]
      frac(x) == (x.ns % 1000000) \div 256  \* coarser than the fraction kept
  IN  /\ t.ms < u.ms \/ (t.ms = u.ms /\ frac(t) + 1 < frac(u)) => Below(st.out.first, st.out.second)
      /\ st.out.first[7] \div 16 = 7 /\ st.out.first[9] \div 64 = 2
      /\ Len(st.out.text) = 36
      /\ SelectSeq(st.out.text, LAMBDA d : d >= 0) =
           FlattenSeq([i \in 1..16 |-> <<st.out.first[i] \div 16, st.out.first[i] % 16>>])
      /\ t.ms < u.ms => st.out.order

\* Extremes are found at their first position, the mode is the smallest of the most frequent
\* values, and the median splits the values in halves.
StatsAreRight ==
  LET s == st.in
      count(x) == Cardinality({i \in DOMAIN s : s[i] = x})
      c == st.out.center
      under == Cardinality({i \in DOMAIN s : 2 * s[i] < st.out.median2})
      over  == Cardinality({i \in DOMAIN s : 2 * s[i] > st.out.median2})
  IN  /\ c.minID = Min({i - 1 : i \in {j \in DOMAIN s : \A k \in DOMAIN s : s[j] <= s[k]}})
      /\ c.maxID = Min({i - 1 : i \in {j \in DOMAIN s : \A k \in DOMAIN s : s[j] >= s[k]}})
      /\ st.out.modeFreq = count(st.out.mode)
      /\ \A x \in Range(s) : count(x) < st.out.modeFreq \/ (count(x) = st.out.modeFreq /\ st.out.mode <= x)
      /\ 2 * under <= Len(s) /\ 2 * over <= Len(s)

\* An integer that fits is itself, however large.  Any other number is its whole part while a
\* float holds it; beyond, it is off by less than a nanosecond and the float's relative error; and
\* it is refused if it is out of range by more than that error, and only if it is out of range
\* or within the error of it.
DurationsFit ==
  LET h      == st.in[1]
      size   == 2^FloatBits
      high   == 2 * (2^(W - 1))
  IN  /\ st.in[2] /\ Whole(h) \in IntW => st.out = [ok |-> TRUE, ns |-> Whole(h)]
      /\ Abs(h) <= size /\ Whole(h) \in IntW => st.out = [ok |-> TRUE, ns |-> Whole(h)]
      /\ st.out.ok => st.out.ns \in IntW /\ size * (Abs(2 * st.out.ns - h) - 2) < Abs(h)
      /\ (size - 1) * h > size * high \/ (size - 1) * h < 2 * MinInt * size => ~st.out.ok
      /\ ~st.out.ok => (size + 1) * h >= size * high \/ (size + 1) * h <= 2 * MinInt * size

\* Each operation agrees with its reference on every small input.
ArithmeticIsExact ==
  /\ st.op = "page" => PagesPartition
  /\ st.op = "decimal" => DecimalsRoundTrip
  /\ st.op = "bits" => BitsRoundTrip
  /\ st.op = "hex" => HexRoundTrips
  /\ st.op = "uuid" => IdentifiersAreOrdered
  /\ st.op = "stats" => StatsAreRight
  /\ st.op = "duration" => DurationsFit

=============================================================================
