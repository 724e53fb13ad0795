------------------------------- MODULE CountryCode -------------------------------
(***************************************************************************)
(* pkg/countrycode built from caller's records: the catalogs, the packed   *)
(* keys, the indexes and the lookups.  A code is a sequence of letters     *)
(* (numbers from 1) or digits; the widths of the packed fields are         *)
(* constants, so that their limits are near.                               *)
(***************************************************************************)
EXTENDS Integers, SequencesExt

CONSTANTS
  bitLenChar, bitLenNumeric, bitLenRegion, bitLenStatus,  \* 5, 10, 5 and 3 in the code
  LastLetter,   \* 26 in the code
  LastDigit,    \* 9 in the code
  StatusNames,  \* the seven of the code, in order of their id from 0
  Loads,        \* lists of records given to New
  Probes        \* codes looked up

VARIABLE st  \* the records, the order the indexes were filled in, and the data built

None == <<>>
NotFound == [err |-> TRUE, v |-> 0]
Found(v) == [err |-> FALSE, v |-> v]

-----------------------------------------------------------------------------
(* countrykey.go *)

charOffset(c) == c \in 1..LastLetter

Pack(s) == FoldLeft(LAMBDA n, c : n * 2^bitLenChar + c, 0, s)

encodeChars(s, n) == IF Len(s) = n /\ \A i \in DOMAIN s : charOffset(s[i]) THEN Found(Pack(s)) ELSE NotFound
encodeAlpha2(s) == encodeChars(s, 2)
encodeAlpha3(s) == encodeChars(s, 3)
encodeTLD(s) == encodeChars(s, 2)

decodeChars(code, n) == [i \in 1..n |-> (code \div 2^(bitLenChar * (n - i))) % 2^bitLenChar]
decodeAlpha2(code) == decodeChars(code, 2)
decodeAlpha3(code) == decodeChars(code, 3)
decodeTLD(code) == decodeChars(code, 2)

encodeNumeric(s) ==
  IF Len(s) = 3 /\ \A i \in DOMAIN s : s[i] \in 0..LastDigit
  THEN Found(FoldLeft(LAMBDA n, d : n * (LastDigit + 1) + d, 0, s)) ELSE NotFound

numericStr(n) ==
  LET base == LastDigit + 1
  IN  IF n > base * base * base - 1 THEN None ELSE <<n \div (base * base), (n \div base) % base, n % base>>

\* The fields of a key from the highest bits down, with their lengths.
keyFields == <<"status", "alpha2", "alpha3", "numeric", "region", "subregion", "intregion", "tld">>
keyLens == <<bitLenStatus, 2 * bitLenChar, 3 * bitLenChar, bitLenNumeric, bitLenRegion, bitLenRegion, bitLenRegion,
             2 * bitLenChar>>
bitPos(i) == FoldLeft(LAMBDA n, l : n + l, 0, SubSeq(keyLens, i + 1, Len(keyLens)))

\* A value that is too long for its field loses its high bits.
encodeCountryKey(e) ==
  FoldLeft(LAMBDA n, i : n + (e[keyFields[i]] % 2^keyLens[i]) * 2^bitPos(i), 0, [i \in 1..8 |-> i])

decodeCountryKey(key) ==
  [f \in Range(keyFields) |-> LET i == CHOOSE k \in 1..8 : keyFields[k] = f
                              IN  (key \div 2^bitPos(i)) % 2^keyLens[i]]

-----------------------------------------------------------------------------
(* data.go: catalogs and indexes *)

\* Sorted by code, behind an empty entry; the first name of a code stays.
collectCatalog(pairs) ==
  LET codes == {pairs[i].code : i \in DOMAIN pairs} \cup {0}
      first(c) == IF c = 0 THEN [code |-> 0, name |-> 0]
                  ELSE pairs[Min({i \in DOMAIN pairs : pairs[i].code = c})]
      order == SetToSortSeq(codes, <)
  IN  [i \in DOMAIN order |-> first(order[i])]

RegionPairs(cdata) == [i \in DOMAIN cdata |-> cdata[i].region]
SubRegionPairs(cdata) == [i \in DOMAIN cdata |-> cdata[i].subregion]
IntRegionPairs(cdata) == [i \in DOMAIN cdata |-> cdata[i].intregion]

statusMap == [i \in DOMAIN StatusNames |-> [code |-> i - 1, name |-> StatusNames[i]]]

\* An id is a position from 0.  The empty code is refused; a name that came twice is the last's.
regionIDByCode(catalog, code) ==
  LET at == {i \in DOMAIN catalog : catalog[i].code = code}
  IN  IF code = 0 \/ at = {} THEN NotFound ELSE Found(Max(at) - 1)

regionIDByName(catalog, name) ==
  LET at == {i \in DOMAIN catalog : catalog[i].name = name}
  IN  IF name = 0 \/ at = {} THEN NotFound ELSE Found(Max(at) - 1)

statusIDByName(name) ==
  LET at == {i \in DOMAIN statusMap : statusMap[i].name = name}
  IN  IF at = {} THEN NotFound ELSE Found(Max(at) - 1)

subRegionIDByCode(d, code) == regionIDByCode(d.subRegions, code)
subRegionIDByName(d, name) == regionIDByName(d.subRegions, name)
intermediateRegionIDByCode(d, code) == regionIDByCode(d.intRegions, code)
intermediateRegionIDByName(d, name) == regionIDByName(d.intRegions, name)

byID(catalog, id) == IF id >= Len(catalog) THEN NotFound ELSE Found(catalog[id + 1])

Value(r) == IF r.err THEN 0 ELSE r.v

\* Only the status and the alpha-2 code must be good; the rest is left out when it is not.
countryKey(d, c) ==
  IF statusIDByName(c.status).err \/ encodeAlpha2(c.alpha2).err THEN NotFound
  ELSE Found([status    |-> statusIDByName(c.status).v,
              alpha2    |-> encodeAlpha2(c.alpha2).v,
              alpha3    |-> Value(encodeAlpha3(c.alpha3)),
              numeric   |-> Value(encodeNumeric(c.numeric)),
              region    |-> Value(regionIDByCode(d.regions, c.region.code)),
              subregion |-> Value(subRegionIDByCode(d, c.subregion.code)),
              intregion |-> Value(intermediateRegionIDByCode(d, c.intregion.code)),
              tld       |-> Value(encodeTLD(c.tld))])

\* The key and names of an alpha-2 code are those of its last record.
loadData(cdata) ==
  LET d == [regions |-> collectCatalog(RegionPairs(cdata)), subRegions |-> collectCatalog(SubRegionPairs(cdata)),
            intRegions |-> collectCatalog(IntRegionPairs(cdata))]
      ck(i) == countryKey(d, cdata[i])
      ids == {ck(i).v.alpha2 : i \in {k \in DOMAIN cdata : ~ck(k).err}}
      last(a2) == Max({i \in DOMAIN cdata : ck(i).v.alpha2 = a2})
  IN  IF \E i \in DOMAIN cdata : ck(i).err THEN NotFound
      ELSE Found(d @@ [keys |-> [a2 \in ids |-> encodeCountryKey(ck(last(a2)).v)],
                       names |-> [a2 \in ids |-> cdata[last(a2)].name]])

\* A map is filled in the order Go ranges over dCountryKeyByAlpha2ID, which is any order.
IndexOf(d, order, f) ==
  LET val(a2) == decodeCountryKey(d.keys[a2])[f]
  IN  [v \in {val(a2) : a2 \in DOMAIN d.keys} \ {0} |->
         order[Max({i \in DOMAIN order : val(order[i]) = v})]]

\* Mutant: the groups stay in the order they were filled in.
GroupsOf_Unsorted(d, order, f) ==
  LET val(a2) == decodeCountryKey(d.keys[a2])[f]
  IN  [v \in {val(a2) : a2 \in DOMAIN d.keys} |-> SelectSeq(order, LAMBDA a2 : val(a2) = v)]

GroupsOf(d, order, f) ==
  LET val(a2) == decodeCountryKey(d.keys[a2])[f]
  IN  [v \in {val(a2) : a2 \in DOMAIN d.keys} |->
         SortSeq(SelectSeq(order, LAMBDA a2 : val(a2) = v), <)]

genCountryIndexes(d, order) ==
  d @@ [byAlpha3 |-> IndexOf(d, order, "alpha3"), byNumeric |-> IndexOf(d, order, "numeric"),
        groups |-> [f \in {"region", "subregion", "intregion", "status", "tld"} |-> GroupsOf(d, order, f)]]

-----------------------------------------------------------------------------
(* countrycode.go *)

Region(catalog, id) == LET r == byID(catalog, id) IN IF r.err THEN [code |-> -1, name |-> -1] ELSE r.v

populateCountryDetails(d, a2, el) ==
  [alpha3 |-> IF el.alpha3 > 0 THEN decodeAlpha3(el.alpha3) ELSE None,
   numeric |-> IF el.numeric > 0 THEN numericStr(el.numeric) ELSE None,
   name |-> d.names[a2],
   region |-> Region(d.regions, el.region), subregion |-> Region(d.subRegions, el.subregion),
   intregion |-> Region(d.intRegions, el.intregion),
   tld |-> IF el.tld > 0 THEN decodeTLD(el.tld) ELSE None]

countryByAlpha2ID(d, a2) ==
  IF a2 \notin DOMAIN d.keys THEN NotFound
  ELSE LET el == decodeCountryKey(d.keys[a2])
           status == byID(statusMap, el.status)
       IN  IF status.err THEN NotFound
           ELSE Found([status |-> status.v.name, alpha2 |-> decodeAlpha2(el.alpha2)]
                      @@ populateCountryDetails(d, a2, el))

Through(d, index, code) ==
  IF code.err THEN NotFound
  ELSE IF code.v \notin DOMAIN index THEN NotFound ELSE countryByAlpha2ID(d, index[code.v])

CountryByAlpha2Code(d, s) == LET code == encodeAlpha2(s) IN IF code.err THEN NotFound ELSE countryByAlpha2ID(d, code.v)
CountryByAlpha3Code(d, s) == Through(d, d.byAlpha3, encodeAlpha3(s))
CountryByNumericCode(d, s) == Through(d, d.byNumeric, encodeNumeric(s))

countriesByAlpha2IDs(d, a2s) == [i \in DOMAIN a2s |-> countryByAlpha2ID(d, a2s[i]).v]

Group(d, f, id) ==
  IF id.err THEN NotFound
  ELSE IF id.v \notin DOMAIN d.groups[f] THEN NotFound ELSE Found(countriesByAlpha2IDs(d, d.groups[f][id.v]))

CountriesByRegionCode(d, code) == Group(d, "region", regionIDByCode(d.regions, code))
CountriesByRegionName(d, name) == Group(d, "region", regionIDByName(d.regions, name))
CountriesBySubRegionCode(d, code) == Group(d, "subregion", subRegionIDByCode(d, code))
CountriesBySubRegionName(d, name) == Group(d, "subregion", subRegionIDByName(d, name))
CountriesByIntermediateRegionCode(d, code) == Group(d, "intregion", intermediateRegionIDByCode(d, code))
CountriesByIntermediateRegionName(d, name) == Group(d, "intregion", intermediateRegionIDByName(d, name))
CountriesByStatusName(d, name) == Group(d, "status", statusIDByName(name))
CountriesByTLD(d, s) == Group(d, "tld", encodeTLD(s))

\* Name to code, without the empty entry.
EnumRegion(catalog) ==
  LET listed == {i \in DOMAIN catalog : catalog[i] # [code |-> 0, name |-> 0]}
  IN  [n \in {catalog[i].name : i \in listed} |-> catalog[Max({i \in listed : catalog[i].name = n})].code]

-----------------------------------------------------------------------------

Init == st = [cdata |-> <<>>, err |-> FALSE]

New == \E cdata \in Loads :
  LET r == loadData(cdata)
  IN  \/ r.err /\ st' = [cdata |-> cdata, err |-> TRUE]
      \/ ~r.err /\ \E order \in {q \in [1..Cardinality(DOMAIN r.v.keys) -> DOMAIN r.v.keys] : IsInjective(q)} :
           st' = [cdata |-> cdata, err |-> FALSE, d |-> genCountryIndexes(r.v, order)]

Next == st.cdata = <<>> /\ New

-----------------------------------------------------------------------------
(* Properties *)

\* The record that counts for an alpha-2 code is its last.
LastWith(a2) == st.cdata[Max({i \in DOMAIN st.cdata : st.cdata[i].alpha2 = a2})]
Live == {LastWith(st.cdata[i].alpha2) : i \in DOMAIN st.cdata}
\* The name of a region is the first its code came with.
Named(pairs, r) == IF r.code = 0 THEN [code |-> 0, name |-> 0]
                   ELSE pairs[Min({i \in DOMAIN pairs : pairs[i].code = r.code})]
Good(v, ok) == IF ok THEN v ELSE None
Expected(c) ==
  [status |-> c.status, alpha2 |-> c.alpha2, name |-> c.name,
   alpha3 |-> Good(c.alpha3, ~encodeAlpha3(c.alpha3).err),
   numeric |-> Good(c.numeric, Value(encodeNumeric(c.numeric)) > 0),
   region |-> Named(RegionPairs(st.cdata), c.region),
   subregion |-> Named(SubRegionPairs(st.cdata), c.subregion),
   intregion |-> Named(IntRegionPairs(st.cdata), c.intregion),
   tld |-> Good(c.tld, ~encodeTLD(c.tld).err)]
\* The catalogs fit in the bits of a key.
Fits == \A pairs \in {RegionPairs(st.cdata), SubRegionPairs(st.cdata), IntRegionPairs(st.cdata)} :
          Cardinality({p.code : p \in Range(pairs)} \cup {0}) <= 2^bitLenRegion

\* What was loaded is what every lookup returns, packed and unpacked: by alpha-2 the last
\* record, by another code a record that has it, by group all of them in the order of their
\* codes, whatever order the indexes were filled in.
CountriesResolve ==
  st.cdata # <<>> /\ ~st.err /\ Fits =>
    LET d == st.d
        listed(r, ok(_)) ==
          IF r.err THEN \A c \in Live : ~ok(c)
          ELSE r.v = [i \in DOMAIN r.v |-> Expected(LastWith(r.v[i].alpha2))]
               /\ {r.v[i].alpha2 : i \in DOMAIN r.v} = {c.alpha2 : c \in {x \in Live : ok(x)}}
               /\ \A i \in 1..Len(r.v) - 1 : Pack(r.v[i].alpha2) < Pack(r.v[i + 1].alpha2)
    IN  /\ \A c \in Live : CountryByAlpha2Code(d, c.alpha2) = Found(Expected(c))
        /\ \A p \in Probes : LET r == CountryByAlpha3Code(d, p)
             IN  IF r.err THEN \A c \in Live : Expected(c).alpha3 # p \/ p = None
                 ELSE r.v.alpha3 = p /\ r.v \in {Expected(c) : c \in Live}
        /\ \A p \in Probes : LET r == CountryByNumericCode(d, p)
             IN  IF r.err THEN \A c \in Live : Expected(c).numeric # p \/ p = None
                 ELSE r.v.numeric = p /\ r.v \in {Expected(c) : c \in Live}
        /\ \A k \in 1..2^bitLenRegion :
             /\ listed(CountriesByRegionCode(d, k), LAMBDA c : c.region.code = k)
             /\ listed(CountriesBySubRegionCode(d, k), LAMBDA c : c.subregion.code = k)
             /\ listed(CountriesByIntermediateRegionCode(d, k), LAMBDA c : c.intregion.code = k)
        /\ \A n \in 1..2^bitLenRegion :
             LET named(r, f) == r.err \/ \A i \in DOMAIN r.v : r.v[i][f].name = n
             IN  /\ named(CountriesByRegionName(d, n), "region")
                 /\ named(CountriesBySubRegionName(d, n), "subregion")
                 /\ named(CountriesByIntermediateRegionName(d, n), "intregion")
        /\ \A p \in Probes : Len(p) = 2 => listed(CountriesByTLD(d, p), LAMBDA c : c.tld = p)
        /\ \A n \in Range(StatusNames) : listed(CountriesByStatusName(d, n), LAMBDA c : c.status = n)
        /\ \A n \in DOMAIN EnumRegion(d.regions) :
             \E i \in DOMAIN st.cdata : st.cdata[i].region = [code |-> EnumRegion(d.regions)[n], name |-> n]

\* Among records that share an alpha-3 code the last wins, as the comment of New says.
LastRecordWins ==
  st.cdata # <<>> /\ ~st.err =>
    \A p \in Probes : LET r == CountryByAlpha3Code(st.d, p)
      IN  ~r.err => r.v.alpha2 = st.cdata[Max({i \in DOMAIN st.cdata : st.cdata[i].alpha3 = p})].alpha2

=============================================================================
