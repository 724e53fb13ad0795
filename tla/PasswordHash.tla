------------------------------- MODULE PasswordHash -------------------------------
(***************************************************************************)
(* pkg/passwordhash, with the pkg/encrypt and pkg/encode it stores through.*)
(* One stored hash, and a service that is reconfigured between the calls.  *)
(* A stored string is the encodings put around a Hashed, outermost first,  *)
(* and the key and additional data of its AES-GCM box, if it has one.      *)
(***************************************************************************)
EXTENDS Integers, SequencesExt

CONSTANTS
  PwLen,       \* password -> its length in bytes
  KeyBytes,    \* pepper key -> its length in bytes
  OptionSets,  \* the options New is given
  RowEdits     \* parameters a damaged row may claim

VARIABLE st  \* the parameters in use, the stored row and the last call

DefaultAlgo == "argon2id"
argon2Version == 19
minKeyLen == 4
minHashKeyLen == 16
minSaltLen == 1
minHashSaltLen == 8
minTime == 1
minMemory == 8
memBlock == 4
minThreads == 1
minPasswordLength == 1
maxVerifyTime == 2^10
maxVerifyMemory == 2^22
maxVerifyKeyLen == 2^10
maxVerifySaltLen == 2^10
minVerifyCostMultiplier == 1
maxHashLen == 2^14

Least(a, b) == IF a < b THEN a ELSE b
Most(a, b) == IF a > b THEN a ELSE b
Clamp(lo, v, hi) == Least(Most(lo, v), hi)
outOfRange(v, lo, hi) == v < lo \/ v > hi

-----------------------------------------------------------------------------
(* pkg/encrypt and pkg/encode *)

\* A box that was never sealed.
NoBox == [key |-> "none", aad |-> "none"]

Wrap(layer, s) == [s EXCEPT !.layers = <<layer>> \o @]
Unwrap(layer, s) ==
  IF s.layers # <<>> /\ Head(s.layers) = layer THEN [ok |-> TRUE, s |-> [s EXCEPT !.layers = Tail(@)]]
  ELSE [ok |-> FALSE, s |-> s]

newAESGCM(key) == KeyBytes[key] \in {16, 24, 32}

EncryptWith(key, s, aad, rnd) ==
  IF ~newAESGCM(key) \/ ~rnd THEN [ok |-> FALSE, s |-> s]
  ELSE [ok |-> TRUE, s |-> Wrap("gcm", [s EXCEPT !.box = [key |-> key, aad |-> aad]])]

\* What is not a box, or one of another key or other data, does not open.
DecryptWith(key, s, aad) ==
  IF ~newAESGCM(key) \/ s.box # [key |-> key, aad |-> aad] THEN [ok |-> FALSE, s |-> s]
  ELSE Unwrap("gcm", s)

byteEncryptEncoded(key, s, rnd) ==
  LET e == EncryptWith(key, s, "", rnd) IN IF e.ok THEN [e EXCEPT !.s = Wrap("b64", e.s)] ELSE e

byteDecryptEncoded(key, s) ==
  LET d == Unwrap("b64", s) IN IF d.ok THEN DecryptWith(key, d.s, "") ELSE d

EncryptSerializeAny(key, s, rnd) == byteEncryptEncoded(key, Wrap("json", s), rnd)

DecryptSerializeAny(key, s) ==
  LET d == byteDecryptEncoded(key, s) IN IF d.ok THEN Unwrap("json", d.s) ELSE d

Serialize(s) == Wrap("b64", Wrap("json", s))

Deserialize(s) == LET d == Unwrap("b64", s) IN IF d.ok THEN Unwrap("json", d.s) ELSE d

\* The length of the string: base64 makes four bytes of three, a box adds nonce and tag.
Base64Len(n) == 4 * ((n + 2) \div 3)
JSONOverhead == 100
SizeOf(s) ==
  FoldRight(LAMBDA layer, n : CASE layer = "b64" -> Base64Len(n) [] layer = "gcm" -> n + 28
                                [] layer = "json" -> n + JSONOverhead [] OTHER -> n + JSONOverhead,
            s.layers, Base64Len(s.data.keyN) + Base64Len(s.data.saltN))

-----------------------------------------------------------------------------
(* options.go and New *)

normalizeFormat(f) == IF f = "phc" THEN "phc" ELSE "json"

adjustMemory(m, p) == Most(2 * memBlock * p, (m \div (memBlock * p)) * memBlock * p)

WithFormat(f, accept) == [format |-> normalizeFormat(f), accepted |-> {normalizeFormat(f)} \cup (accept \cap {"json", "phc"})]

WithKeyLen(v) == Clamp(minHashKeyLen, v, maxVerifyKeyLen)
WithSaltLen(v) == Clamp(minHashSaltLen, v, maxVerifySaltLen)
WithTime_Unclamped(v) == v  \* Mutant: the time is not clamped.
WithTime(v) == Clamp(minTime, v, maxVerifyTime)
WithMemory(v) == Clamp(minMemory, v, maxVerifyMemory)
WithThreads(v) == Most(minThreads, v)
WithMinPasswordLength(v) == Most(minPasswordLength, v)
WithMaxPasswordLength(v) == v
WithVerifyCostMultiplier(v) == Most(minVerifyCostMultiplier, v)

New(o) ==
  LET minP == WithMinPasswordLength(o.minP)
  IN  [Algo |-> DefaultAlgo, Version |-> argon2Version, KeyLen |-> WithKeyLen(o.keyLen), SaltLen |-> WithSaltLen(o.saltLen),
       Time |-> WithTime(o.time), Threads |-> WithThreads(o.threads),
       Memory |-> adjustMemory(WithMemory(o.memory), WithThreads(o.threads)),
       minPLen |-> minP, maxPLen |-> Most(WithMaxPasswordLength(o.maxP), minP),
       multiplier |-> WithVerifyCostMultiplier(o.multiplier)] @@ WithFormat(o.format, o.accept)

-----------------------------------------------------------------------------
(* format.go and phc.go *)

\* The fields that travel with a hash.
Exported(p) == [Algo |-> p.Algo, Version |-> p.Version, KeyLen |-> p.KeyLen, SaltLen |-> p.SaltLen,
                Time |-> p.Time, Memory |-> p.Memory, Threads |-> p.Threads]

\* A PHC string starts with its separator and does not carry the lengths.
detectFormat(s) == IF s.layers # <<>> /\ Head(s.layers) = "phc" THEN "phc" ELSE "json"

marshalPHC(s) == Wrap("phc", [s EXCEPT !.data.params.KeyLen = 0, !.data.params.SaltLen = 0])

unmarshalPHC(s) ==
  LET d == Unwrap("phc", s)
  IN  [d EXCEPT !.s.data.params.KeyLen = d.s.data.keyN, !.s.data.params.SaltLen = d.s.data.saltN]

decodeHash(s) == IF detectFormat(s) = "phc" THEN unmarshalPHC(s) ELSE Deserialize(s)

serialize(ph, s) == IF ph.format = "phc" THEN marshalPHC(s) ELSE Serialize(s)

acceptsFormat(ph, f) == f \in ph.accepted

-----------------------------------------------------------------------------
(* passwordhash.go *)

\* A call's answer, and the work it had Argon2 do.
NoWork == [Time |-> 0, Memory |-> 0]
Work(p) == [Time |-> p.Time, Memory |-> p.Memory]
Result(err, ok, spent) == [err |-> err, ok |-> ok, spent |-> spent]
Refused(err) == Result(err, FALSE, NoWork)

validateHashLen(s) == SizeOf(s) <= maxHashLen

validatePepperKey(key) == KeyBytes[key] \in {16, 24, 32}

\* Some of it cannot be false for what New returns.
validateHashParams(ph) ==
  /\ ph.maxPLen >= ph.minPLen
  /\ ph.Algo = DefaultAlgo /\ ph.Version = argon2Version
  /\ ~outOfRange(ph.Time, minTime, maxVerifyTime)
  /\ ph.Threads >= minThreads
  /\ ~outOfRange(ph.KeyLen, minHashKeyLen, maxVerifyKeyLen)
  /\ ~outOfRange(ph.SaltLen, minHashSaltLen, maxVerifySaltLen)
  /\ ~outOfRange(ph.Memory, minMemory, maxVerifyMemory)

\* argon2.IDKey: another key for another password, salt or cost.
IDKey(pw, salt, p) == [pw |-> pw, salt |-> salt, Time |-> p.Time, Memory |-> p.Memory, Threads |-> p.Threads]

passwordHashData(ph, pw, rnd, salt) ==
  IF ~validateHashParams(ph) THEN Refused("params")
  ELSE IF PwLen[pw] < ph.minPLen THEN Refused("short")
  ELSE IF PwLen[pw] > ph.maxPLen THEN Refused("long")
  ELSE IF ~rnd THEN Refused("random")
  ELSE Result("none", TRUE, Work(ph)) @@
       [s |-> [layers |-> <<>>, box |-> NoBox,
               data |-> [params |-> Exported(ph), salt |-> salt, saltN |-> ph.SaltLen,
                         key |-> IDKey(pw, salt, ph), keyN |-> ph.KeyLen]]]

verifyTimeCeiling(ph) == Least(ph.multiplier * ph.Time, maxVerifyTime)

verifyMemoryCeiling(ph) == Least(ph.multiplier * ph.Memory, maxVerifyMemory)

validateStoredParamBounds(ph, p) ==
  /\ ~outOfRange(p.Time, minTime, verifyTimeCeiling(ph))
  /\ ~outOfRange(p.Memory, minMemory, verifyMemoryCeiling(ph))
  /\ p.Threads >= minThreads
  /\ ~outOfRange(p.KeyLen, minKeyLen, maxVerifyKeyLen)
  /\ ~outOfRange(p.SaltLen, minSaltLen, maxVerifySaltLen)

validateStoredLengths(d) == d.keyN = d.params.KeyLen /\ d.saltN = d.params.SaltLen

validateVerifyData(ph, d) == validateStoredParamBounds(ph, d.params) /\ validateStoredLengths(d)

\* Only New makes the parameters, so the check of an uninitialised receiver never fails.
passwordVerifyData(ph, pw, d) ==
  IF PwLen[pw] > ph.maxPLen THEN Refused("long")
  ELSE IF ~validateVerifyData(ph, d) THEN Refused("data")
  ELSE IF d.params.Algo # ph.Algo THEN Refused("algo")
  ELSE IF d.params.Version # ph.Version THEN Refused("version")
  ELSE Result("none", IDKey(pw, d.salt, d.params) = d.key, Work(d.params))

needsRehashData(ph, d) ==
  IF ~validateVerifyData(ph, d) THEN Refused("data") ELSE Result("none", d.params # Exported(ph), NoWork)

PasswordHash(ph, pw, rnd, salt) ==
  LET r == passwordHashData(ph, pw, rnd, salt)
  IN  IF r.ok THEN [r EXCEPT !.s = serialize(ph, @)] ELSE r

PasswordVerify(ph, pw, s) ==
  IF ~validateHashLen(s) \/ ~decodeHash(s).ok THEN Refused("data")
  ELSE passwordVerifyData(ph, pw, decodeHash(s).s.data)

PasswordNeedsRehash(ph, s) ==
  IF ~validateHashLen(s) \/ ~decodeHash(s).ok THEN Refused("data")
  ELSE LET need == needsRehashData(ph, decodeHash(s).s.data)
       IN  IF need.err # "none" THEN need ELSE [need EXCEPT !.ok = @ \/ ~acceptsFormat(ph, detectFormat(s))]

\* rnd is the reader the salt is drawn from, nonce the one of the box: a hash that was made
\* may still fail to be sealed.
EncryptPasswordHash(ph, key, pw, rnd, nonce, salt) ==
  IF ~validatePepperKey(key) THEN Refused("pepper")
  ELSE LET r == passwordHashData(ph, pw, rnd, salt)
           e == EncryptSerializeAny(key, r.s, nonce)
       IN  IF ~r.ok THEN r
           ELSE IF ~e.ok THEN Result("encrypt", FALSE, r.spent)
           ELSE [r EXCEPT !.s = e.s]

EncryptPasswordVerify(ph, key, pw, s) ==
  IF ~validatePepperKey(key) THEN Refused("pepper")
  ELSE IF ~validateHashLen(s) \/ ~DecryptSerializeAny(key, s).ok THEN Refused("data")
  ELSE passwordVerifyData(ph, pw, DecryptSerializeAny(key, s).s.data)

EncryptPasswordNeedsRehash(ph, key, s) ==
  IF ~validatePepperKey(key) THEN Refused("pepper")
  ELSE IF ~validateHashLen(s) \/ ~DecryptSerializeAny(key, s).ok THEN Refused("data")
  ELSE needsRehashData(ph, DecryptSerializeAny(key, s).s.data)

-----------------------------------------------------------------------------
(* A service: one row, a pepper key or none, and calls in any order. *)

Keys == DOMAIN KeyBytes
NoKey == "none"  \* plain hashing

Hash(ph, key, pw, rnd, nonce, salt) ==
  IF key = NoKey THEN PasswordHash(ph, pw, rnd, salt) ELSE EncryptPasswordHash(ph, key, pw, rnd, nonce, salt)
Verify(ph, key, pw, s) == IF key = NoKey THEN PasswordVerify(ph, pw, s) ELSE EncryptPasswordVerify(ph, key, pw, s)
NeedsRehash(ph, key, s) == IF key = NoKey THEN PasswordNeedsRehash(ph, s) ELSE EncryptPasswordNeedsRehash(ph, key, s)

Call(op, key, pw, r) == [op |-> op, key |-> key, pw |-> pw, err |-> r.err, ok |-> r.ok, spent |-> r.spent]

Idle == [op |-> "none", key |-> NoKey, pw |-> "none", err |-> "none", ok |-> FALSE, spent |-> NoWork]

Init == \E o \in OptionSets :
          st = [ph |-> New(o), row |-> <<>>, owner |-> "none", boxKey |-> NoKey, edited |-> FALSE, call |-> Idle]

Configure == \E o \in OptionSets : New(o) # st.ph /\ st' = [st EXCEPT !.ph = New(o), !.call = Idle]

\* A hash that cannot be made leaves the row.
Store == \E pw \in DOMAIN PwLen, key \in Keys \cup {NoKey}, rnd, nonce \in BOOLEAN :
  LET r == Hash(st.ph, key, pw, rnd, nonce, "salt")
  IN  st' = [st EXCEPT !.call = Call("hash", key, pw, r),
                       !.row = IF r.ok THEN <<r.s>> ELSE @, !.owner = IF r.ok THEN pw ELSE @,
                       !.boxKey = IF r.ok THEN key ELSE @, !.edited = IF r.ok THEN FALSE ELSE @]

Login == \E pw \in DOMAIN PwLen, key \in Keys \cup {NoKey} :
  /\ st.row # <<>>
  /\ st' = [st EXCEPT !.call = Call("verify", key, pw, Verify(st.ph, key, pw, st.row[1]))]

CheckRow == \E key \in Keys \cup {NoKey} :
  /\ st.row # <<>>
  /\ st' = [st EXCEPT !.call = Call("check", key, "none", NeedsRehash(st.ph, key, st.row[1]))]

\* The row comes back with other parameters, as a damaged or foreign one would; a box that
\* is touched does not open at all.
Damage == \E p \in RowEdits :
  /\ st.row # <<>> /\ st.boxKey = NoKey
  /\ st' = [st EXCEPT !.row = <<[@[1] EXCEPT !.data.params = p]>>, !.edited = TRUE, !.call = Idle]

Next == Configure \/ Store \/ Login \/ CheckRow \/ Damage

-----------------------------------------------------------------------------
(* Properties *)

\* What the parameters make, they accept: New leaves nothing that hashing would refuse, a
\* password just stored verifies and needs no new hash, and only the password and key that
\* were stored ever verify.  No stored row has Argon2 work beyond the multiplier, and one that
\* claims more, or another algorithm or version, is an error before Argon2 is asked at all;
\* an intact row within the multiplier is never misjudged.
HashesRoundTrip ==
  LET c == st.call
      row == st.row[1]
      claimed == row.data.params
      foreign == claimed.Algo # st.ph.Algo \/ claimed.Version # st.ph.Version
      costly == \/ claimed.Time > st.ph.multiplier * st.ph.Time
                \/ claimed.Memory > st.ph.multiplier * st.ph.Memory
  IN  /\ c.op = "hash" =>
           /\ c.err # "params"
           /\ c.ok => LET v == Verify(st.ph, c.key, c.pw, row)
                         n == NeedsRehash(st.ph, c.key, row)
                     IN  v.err = "none" /\ v.ok /\ n.err = "none" /\ ~n.ok
      /\ c.op = "verify" =>
           /\ c.ok => c.pw = st.owner /\ c.key = st.boxKey
           /\ costly \/ foreign => c.err # "none"
           /\ c.spent # NoWork => c.err = "none" /\ c.spent = Work(claimed)
           /\ ~st.edited /\ ~costly /\ c.key = st.boxKey /\ PwLen[c.pw] <= st.ph.maxPLen
                => c.err = "none" /\ (c.ok = (c.pw = st.owner))
      /\ c.op = "check" => /\ c.spent = NoWork
                           /\ c.err = "none" /\ ~c.ok => claimed.Time = st.ph.Time /\ claimed.Memory = st.ph.Memory /\ ~foreign

=============================================================================
