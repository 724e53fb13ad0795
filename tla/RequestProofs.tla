----------------------------- MODULE RequestProofs -----------------------------
(***************************************************************************)
(* Sessions of pkg/jwt: what the tokens in circulation have in common, and *)
(* that a session therefore lasts as long as it may, for any deployments,  *)
(* users and clocks.  The state goroutines share (SharedState): that an    *)
(* operation on a slice or a map of pkg/threadsafe looks atomic, and the   *)
(* caches of pkg/redact and pkg/filter stay bounded, for any number of     *)
(* goroutines, operations and elements.  Subscriptions (PubSub) and queues *)
(* (Queues): that messages are delivered as promised, whatever crashes.    *)
(* Databases: that transactions settle and loads are whole.  Exchanges     *)
(* (HTTPClient): that a caller reads what was sent, whatever was dumped.   *)
(* And requests (RequestPath): that the log tells what was sent.           *)
(***************************************************************************)
EXTENDS JWT, SharedState, PubSub, Queues, Database, HTTPClient, RequestPath, SequenceTheorems, FiniteSetTheorems, TLAPS

-----------------------------------------------------------------------------
(* Types *)

Issuers == {c.issuer : c \in Range(Configs)}
Audiences == {c.audience : c \in Range(Configs)}
Algs == {c.alg : c \in Range(Configs)} \cup {"none"}

Dates == Nat \cup {Nil}
Claims == [user : Users, exp : Dates, iat : Dates, nbf : Dates, auth : Dates, iss : Issuers, aud : Audiences]
Headers == [alg : Algs, crit : BOOLEAN, dup : BOOLEAN, json : BOOLEAN]
Signatures == [alg : Algs, key : Keys, header : Headers, claims : Claims]
Tokens == [segments : Int, header : Headers, claims : Claims, sig : Signatures, size : Int]
Auths == [kind : {"absent", "other"}] \cup [kind : {"token"}, token : Tokens]
Ops == {"none", "login", "issue", "renew", "authorize"}
Challenges == {"none", "Bearer", "invalid_token"}
LastAnswers == [op : Ops, auth : Auths, status : Int, challenge : Challenges, issued : SUBSET Tokens]

TypeOK ==
  session \in [now : Nat, deployed : DOMAIN Configs, tokens : SUBSET Tokens, logins : SUBSET (Users \X Nat), last : LastAnswers]

-----------------------------------------------------------------------------
(* The inductive invariant *)

\* A token as it was signed.
Sealed(t) ==
  /\ t.segments = 3 /\ t.header = PlainHeader(t.header.alg)
  /\ t.sig = computeSignature(t.header.alg, t.sig.key, t.header, t.claims)

\* Its user logged in, and it was good from the moment it was signed.
Known(t) == \E l \in session.logins : l[1] = t.claims.user
Begun(t) == t.claims.auth # Nil => t.claims.nbf # Nil /\ t.claims.nbf <= session.now

\* It does not outlive the session of the login it goes back to; a token of another issuer goes
\* back to the time it was issued at.
Anchored(t) ==
  /\ t.claims.auth # Nil => \E l \in session.logins, d \in Deployed :
       l[1] = t.claims.user /\ t.claims.auth <= l[2] /\ t.claims.exp <= l[2] + d.maxSessionLifetime
  /\ t.claims.auth = Nil /\ t.claims.iat # Nil => \E l \in session.logins : l[1] = t.claims.user /\ t.claims.iat <= l[2]

SessionInv ==
  /\ TypeOK
  /\ validate(Conf)
  /\ session.last.op = "none" => session.last = Quiet
  /\ \A t \in session.tokens : Sealed(t) /\ Known(t) /\ Begun(t) /\ (Bounded => Anchored(t))

-----------------------------------------------------------------------------
(* Operators *)

LEMMA Division ==
  ASSUME NEW P \in Nat \ {0}, NEW t \in Nat
  PROVE  (t \div P) * P \in Nat /\ (t \div P) * P <= t /\ t < (t \div P) * P + P
<1>1. t \div P \in Nat /\ t % P \in 0..(P - 1) /\ t = P * (t \div P) + (t % P)
  BY SMT
<1> DEFINE q == t \div P
           r == t % P
<1>2. q \in Nat /\ r \in 0..(P - 1) /\ t = P * q + r
  BY <1>1
<1> HIDE DEF q, r
<1>3. q * P \in Nat /\ P * q = q * P
  BY <1>2, SMT
<1>4. q * P \in Nat /\ q * P <= t /\ t < q * P + P
  BY <1>2, <1>3, SMT
<1> QED
  BY <1>4 DEF q

LEMMA SecondsBounds ==
  ASSUME ConstantsOK, NEW t \in Nat
  PROVE  Seconds(t) \in Nat /\ Seconds(t) <= t /\ t < Seconds(t) + PerSecond
BY Division DEF ConstantsOK, Seconds

LEMMA ValidConfig ==
  ASSUME ConstantsOK, NEW c \in Range(Configs), validate(c)
  PROVE  /\ c.expirationTime >= PerSecond /\ c.clockSkewLeeway >= 0 /\ c.alg # "none"
         /\ c.maxSessionLifetime = 0 \/ c.maxSessionLifetime >= PerSecond
BY DEF ConstantsOK, validate, hashSize

\* The current key is among those tried, first.
LEMMA CurrentKey ==
  ASSUME ConstantsOK, NEW c \in Range(Configs)
  PROVE  /\ 1 \in DOMAIN verifyKeys(c) /\ verifyKeys(c)[1] = c.key
         /\ c.key \in Keys
<1>1. /\ 1 \in DOMAIN verifyKeys(c) /\ verifyKeys(c)[1] = c.key
  BY DEF ConstantsOK, verifyKeys
<1>2. PICK i \in DOMAIN Configs : c = Configs[i]
  BY DEF Range
<1>3. c.key \in Keys
  BY <1>2 DEF Keys
<1> QED
  BY <1>1, <1>3

\* What a token that is accepted passed.
LEMMA ParsedTokens ==
  ASSUME NEW c, NEW t, NEW now, parseToken(c, t, now) = "none"
  PROVE  /\ ~(t.size > c.maxTokenBytes) /\ t.segments = 3
         /\ t.header.json /\ ~t.header.dup /\ ~t.header.crit /\ t.header.alg = c.alg
         /\ \E i \in DOMAIN verifyKeys(c) : t.sig = computeSignature(c.alg, verifyKeys(c)[i], t.header, t.claims)
         /\ t.claims.exp # Nil /\ ~(now >= t.claims.exp + c.clockSkewLeeway)
<1>1. ~(t.size > c.maxTokenBytes) /\ t.segments = 3 /\ checkHeader(c, t.header) = "none" /\ verifySignature(c, t)
      /\ validateClaims(c, t.claims, now) = "none"
  BY DEF parseToken
<1>2. t.header.json /\ ~t.header.dup /\ ~t.header.crit /\ t.header.alg = c.alg
  BY <1>1 DEF checkHeader, decodeJOSEHeader
<1>3. t.claims.exp # Nil /\ ~(now >= t.claims.exp + c.clockSkewLeeway)
  BY <1>1 DEF validateClaims
<1> QED
  BY <1>1, <1>2, <1>3 DEF verifySignature

\* And what is enough to be accepted.
LEMMA SealedParses ==
  ASSUME NEW c, NEW t, NEW now, Sealed(t), ~(t.size > c.maxTokenBytes), t.header.alg = c.alg,
         \E i \in DOMAIN verifyKeys(c) : t.sig.key = verifyKeys(c)[i],
         validateClaims(c, t.claims, now) = "none"
  PROVE  parseToken(c, t, now) = "none"
<1>1. decodeJOSEHeader(t.header) = "none" /\ ~t.header.crit
  BY DEF Sealed, PlainHeader, decodeJOSEHeader
<1>2. checkHeader(c, t.header) = "none"
  BY <1>1 DEF checkHeader
<1>3. verifySignature(c, t)
  BY DEF Sealed, verifySignature
<1> QED
  BY <1>2, <1>3 DEF parseToken, Sealed

\* What newClaims makes of a session that began at start, or begins now.
LEMMA FreshClaims ==
  ASSUME ConstantsOK, NEW c \in Range(Configs), validate(c), NEW user \in Users, NEW start \in Dates, NEW now \in Nat,
         NEW claims, claims = newClaims(c, user, start, now)
  PROVE  /\ claims \in Claims
         /\ claims.user = user /\ claims.iat = now /\ claims.nbf = now /\ claims.iss = c.issuer /\ claims.aud = c.audience
         /\ claims.auth \in Nat /\ claims.auth = IF start = Nil THEN now ELSE start
         /\ claims.exp \in Nat /\ (c.maxSessionLifetime > 0 => claims.exp <= claims.auth + c.maxSessionLifetime)
         /\ start = Nil => claims.exp >= now + PerSecond
<1> DEFINE auth == IF start = Nil THEN now ELSE start
           exp  == now + c.expirationTime
           hard == auth + c.maxSessionLifetime
           last == IF c.maxSessionLifetime > 0 /\ hard < exp THEN hard ELSE exp
<1>1. claims = [user |-> user, exp |-> last, iat |-> now, nbf |-> now, auth |-> auth, iss |-> c.issuer, aud |-> c.audience]
  BY DEF newClaims
<1>2. PerSecond \in Nat \ {0} /\ c.expirationTime \in Int /\ c.maxSessionLifetime \in Int
  BY DEF ConstantsOK
<1>3. c.expirationTime >= PerSecond /\ (c.maxSessionLifetime = 0 \/ c.maxSessionLifetime >= PerSecond)
  BY ValidConfig
<1>4. auth \in Nat /\ Nil = -1
  BY DEF Dates, Nil
<1>5. /\ last \in Nat
      /\ c.maxSessionLifetime > 0 => last <= auth + c.maxSessionLifetime
      /\ start = Nil => last >= now + PerSecond
  BY <1>2, <1>3, <1>4
<1>6. c.issuer \in Issuers /\ c.audience \in Audiences
  BY DEF Issuers, Audiences
<1> HIDE DEF auth, last
<1>7. claims \in Claims
  BY <1>1, <1>4, <1>5, <1>6 DEF Claims, Dates
<1> QED
  BY <1>1, <1>4, <1>5, <1>7 DEF auth

\* What goes on the wire: whole seconds.
LEMMA WireClaims ==
  ASSUME ConstantsOK, NEW claims \in Claims, claims.exp \in Nat, claims.iat \in Nat, claims.nbf \in Nat, claims.auth \in Nat,
         NEW wire, wire = MarshalClaims(claims)
  PROVE  /\ wire \in Claims
         /\ wire.user = claims.user /\ wire.iss = claims.iss /\ wire.aud = claims.aud
         /\ wire.exp = Seconds(claims.exp) /\ wire.iat = Seconds(claims.iat)
         /\ wire.nbf = Seconds(claims.nbf) /\ wire.auth = Seconds(claims.auth)
<1>1. claims.auth # Nil
  BY DEF Nil
<1>2. wire = [claims EXCEPT !.exp = Seconds(claims.exp), !.iat = Seconds(claims.iat), !.nbf = Seconds(claims.nbf),
                            !.auth = Seconds(claims.auth)]
  BY <1>1 DEF MarshalClaims, Claims
<1>3. Seconds(claims.exp) \in Dates /\ Seconds(claims.iat) \in Dates /\ Seconds(claims.nbf) \in Dates /\ Seconds(claims.auth) \in Dates
  BY SecondsBounds DEF Dates
<1> QED
  BY <1>2, <1>3 DEF Claims

\* What signToken returns, if it does.
LEMMA SignedTokens ==
  ASSUME ConstantsOK, NEW c \in Range(Configs), NEW claims \in Claims, MarshalClaims(claims) \in Claims,
         NEW s, s = signToken(c, claims), s.ok
  PROVE  /\ s.token \in Tokens /\ Sealed(s.token)
         /\ s.token.claims = MarshalClaims(claims) /\ s.token.header.alg = c.alg /\ s.token.sig.key = c.key
         /\ ~(s.token.size > c.maxTokenBytes)
<1> DEFINE wire == MarshalClaims(claims)
           sig == computeSignature(c.alg, c.key, PlainHeader(c.alg), wire)
           token == [segments |-> 3, header |-> PlainHeader(c.alg), claims |-> wire, sig |-> sig, size |-> TokenSize(wire)]
<1>1. s = IF token.size > c.maxTokenBytes THEN [ok |-> FALSE] ELSE [ok |-> TRUE, token |-> token]
  BY DEF signToken
<1>2. ~(token.size > c.maxTokenBytes) /\ s.token = token
  BY <1>1
<1>3. PlainHeader(c.alg) \in Headers /\ c.alg \in Algs
  BY DEF PlainHeader, Headers, Algs
<1>4. sig \in Signatures
  BY <1>3, CurrentKey DEF Signatures, computeSignature
<1>5. TokenSize(wire) \in Int
  BY DEF TokenSize, Claims, ConstantsOK
<1> HIDE DEF wire
<1>6. wire \in Claims
  BY DEF wire
<1>7. token \in Tokens
  BY <1>3, <1>4, <1>5, <1>6 DEF Tokens
<1>8. Sealed(token) /\ token.claims = wire /\ token.header.alg = c.alg /\ token.sig.key = c.key
  BY DEF Sealed, computeSignature, PlainHeader
<1> QED
  BY <1>2, <1>7, <1>8 DEF wire

\* A token that is issued is good at once, and dates from the beginning of its session.
LEMMA IssuedTokens ==
  ASSUME ConstantsOK, NEW c \in Range(Configs), validate(c), NEW user \in Users, NEW start \in Dates, NEW now \in Nat,
         NEW claims, claims = newClaims(c, user, start, now), NEW s, s = signToken(c, claims), s.ok,
         start = Nil \/ ~expiredOnIssue(c, claims.exp, now)
  PROVE  /\ s.token \in Tokens /\ Sealed(s.token) /\ s.token.claims.user = user
         /\ s.token.claims.nbf # Nil /\ s.token.claims.nbf <= now
         /\ s.token.claims.auth # Nil /\ s.token.claims.auth <= IF start = Nil THEN now ELSE start
         /\ c.maxSessionLifetime > 0 => s.token.claims.exp <= (IF start = Nil THEN now ELSE start) + c.maxSessionLifetime
         /\ parseToken(c, s.token, now) = "none"
<1> DEFINE begun == IF start = Nil THEN now ELSE start
           wire == MarshalClaims(claims)
<1>1. /\ claims \in Claims
      /\ claims.user = user /\ claims.iat = now /\ claims.nbf = now /\ claims.iss = c.issuer /\ claims.aud = c.audience
      /\ claims.auth \in Nat /\ claims.auth = begun
      /\ claims.exp \in Nat /\ (c.maxSessionLifetime > 0 => claims.exp <= claims.auth + c.maxSessionLifetime)
      /\ start = Nil => claims.exp >= now + PerSecond
  BY FreshClaims
<1> HIDE DEF begun
<1>2. /\ wire \in Claims
      /\ wire.user = user /\ wire.iss = c.issuer /\ wire.aud = c.audience
      /\ wire.exp = Seconds(claims.exp) /\ wire.nbf = Seconds(now) /\ wire.auth = Seconds(claims.auth)
  BY <1>1, WireClaims
<1>3. /\ s.token \in Tokens /\ Sealed(s.token)
      /\ s.token.claims = wire /\ s.token.header.alg = c.alg /\ s.token.sig.key = c.key
      /\ ~(s.token.size > c.maxTokenBytes)
  BY <1>1, <1>2, SignedTokens
<1> HIDE DEF wire
<1>4. /\ Seconds(claims.exp) \in Nat /\ Seconds(claims.exp) <= claims.exp /\ claims.exp < Seconds(claims.exp) + PerSecond
      /\ Seconds(now) \in Nat /\ Seconds(now) <= now
      /\ Seconds(claims.auth) \in Nat /\ Seconds(claims.auth) <= claims.auth
  BY <1>1, SecondsBounds
<1>5. c.clockSkewLeeway \in Nat /\ PerSecond \in Nat /\ c.maxSessionLifetime \in Int
  BY ValidConfig DEF ConstantsOK
<1>6. now < wire.exp + c.clockSkewLeeway
  <2>1. CASE start = Nil
    BY <2>1, <1>1, <1>2, <1>4, <1>5
  <2>2. CASE ~expiredOnIssue(c, claims.exp, now)
    BY <2>2, <1>1, <1>2, <1>4, <1>5 DEF expiredOnIssue, Nil
  <2> QED
    BY <2>1, <2>2
<1>7. wire.nbf \in Nat /\ wire.nbf <= now /\ wire.exp \in Nat /\ wire.auth \in Nat
  BY <1>2, <1>4
<1>8. validateClaims(c, wire, now) = "none"
  BY <1>2, <1>5, <1>6, <1>7 DEF validateClaims, Nil
<1>9. parseToken(c, s.token, now) = "none"
  BY <1>3, <1>8, CurrentKey, SealedParses
<1>10. wire.auth <= begun /\ (c.maxSessionLifetime > 0 => wire.exp <= begun + c.maxSessionLifetime)
  BY <1>1, <1>2, <1>4, <1>5
<1>11. wire.nbf # Nil /\ wire.auth # Nil
  BY <1>7 DEF Nil
<1> QED
  BY <1>2, <1>3, <1>7, <1>9, <1>10, <1>11 DEF begun

-----------------------------------------------------------------------------
(* Steps *)

LEMMA DeployedConfig ==
  ASSUME ConstantsOK, TypeOK
  PROVE  Conf \in Range(Configs) /\ Conf \in Deployed /\ session.now \in Nat
<1>1. session.deployed \in DOMAIN Configs /\ session.now \in Nat
  BY DEF TypeOK
<1>2. session.deployed \in 1..session.deployed
  BY <1>1 DEF ConstantsOK
<1> QED
  BY <1>1, <1>2 DEF Conf, Range, Deployed

\* Time, logins and deployments only add to what a token was issued under.
LEMMA TokensKeep ==
  ASSUME ConstantsOK, TypeOK, TypeOK', session.logins \subseteq session'.logins, session.deployed <= session'.deployed, session.now <= session'.now,
         NEW t \in Tokens, Known(t), Begun(t), Bounded => Anchored(t)
  PROVE  Known(t)' /\ Begun(t)' /\ (Bounded => Anchored(t))'
<1>1. session.deployed \in Nat /\ session'.deployed \in Nat /\ session.now \in Nat /\ session'.now \in Nat
  BY DEF TypeOK, ConstantsOK
<1>2. Deployed \subseteq Deployed'
  BY <1>1 DEF Deployed
<1>3. Bounded' => Bounded
  BY <1>2 DEF Bounded
<1>4. Known(t)'
  BY DEF Known
<1>5. Begun(t)'
  BY <1>1 DEF Begun, Tokens, Claims, Dates, Nil
<1>6. Anchored(t) => Anchored(t)'
  BY <1>2 DEF Anchored
<1> QED
  BY <1>3, <1>4, <1>5, <1>6

\* What an answer changes.
LEMMA SessionReplies ==
  ASSUME TypeOK, NEW op \in Ops, NEW auth \in Auths, NEW a, a.status \in Int, a.challenge \in Challenges, a.issued \subseteq Tokens,
         NEW logins \in SUBSET (Users \X Nat), session' = Reply(op, auth, a, logins)
  PROVE  /\ TypeOK'
         /\ session'.now = session.now /\ session'.deployed = session.deployed
         /\ session'.tokens = session.tokens \cup a.issued /\ session'.logins = session.logins \cup logins
         /\ session'.last = [op |-> op, auth |-> auth, status |-> a.status, challenge |-> a.challenge, issued |-> a.issued]
<1> DEFINE last == [op |-> op, auth |-> auth, status |-> a.status, challenge |-> a.challenge, issued |-> a.issued]
<1>1. last \in LastAnswers
  BY DEF LastAnswers
<1> HIDE DEF last
<1>2. session' = [session EXCEPT !.last = last, !.tokens = session.tokens \cup a.issued, !.logins = session.logins \cup logins]
  BY DEF Reply, last, TypeOK
<1>3. /\ TypeOK'
      /\ session'.now = session.now /\ session'.deployed = session.deployed
      /\ session'.tokens = session.tokens \cup a.issued /\ session'.logins = session.logins \cup logins
      /\ session'.last = last
  BY <1>1, <1>2 DEF TypeOK
<1> QED
  BY <1>3 DEF last

\* An answer keeps the invariant if what it issues has it.
LEMMA RepliesKeep ==
  ASSUME ConstantsOK, SessionInv, NEW op \in Ops, op # "none", NEW auth \in Auths,
         NEW a, a.status \in Int, a.challenge \in Challenges, a.issued \subseteq Tokens,
         NEW logins \in SUBSET (Users \X Nat), session' = Reply(op, auth, a, logins),
         \A t \in a.issued : Sealed(t) /\ Known(t)' /\ Begun(t)' /\ (Bounded => Anchored(t))'
  PROVE  SessionInv'
<1>1. /\ TypeOK'
      /\ session'.now = session.now /\ session'.deployed = session.deployed
      /\ session'.tokens = session.tokens \cup a.issued /\ session'.logins = session.logins \cup logins
      /\ session'.last = [op |-> op, auth |-> auth, status |-> a.status, challenge |-> a.challenge, issued |-> a.issued]
  BY SessionReplies DEF SessionInv
<1>2. session'.last.op # "none" /\ validate(Conf)'
  BY <1>1 DEF SessionInv, Conf
<1>3. ASSUME NEW t \in session.tokens PROVE Sealed(t) /\ Known(t)' /\ Begun(t)' /\ (Bounded => Anchored(t))'
  <2>1. t \in Tokens /\ Sealed(t) /\ Known(t) /\ Begun(t) /\ (Bounded => Anchored(t)) /\ TypeOK
    BY DEF SessionInv, TypeOK
  <2>2. session.logins \subseteq session'.logins /\ session.deployed <= session'.deployed /\ session.now <= session'.now
    BY <1>1, <2>1 DEF TypeOK, ConstantsOK
  <2> QED
    BY <1>1, <2>1, <2>2, TokensKeep
<1>4. \A t \in session'.tokens : Sealed(t) /\ Known(t)' /\ Begun(t)' /\ (Bounded => Anchored(t))'
  BY <1>1, <1>3
<1> QED
  BY <1>1, <1>2, <1>4 DEF SessionInv

\* A token damaged on the way is still one to look at.
LEMMA DamagedTokens ==
  ASSUME ConstantsOK, TypeOK, NEW t \in Tokens, NEW x \in Damaged(t)
  PROVE  x \in Tokens
<1>1. "none" \in Algs /\ MaxNow \in Dates /\ Conf.maxTokenBytes + 1 \in Int
  BY DeployedConfig DEF Algs, Dates, ConstantsOK
<1>2. /\ [t.header EXCEPT !.alg = "none"] \in Headers /\ [t.header EXCEPT !.crit = TRUE] \in Headers
      /\ [t.header EXCEPT !.dup = TRUE] \in Headers /\ [t.header EXCEPT !.json = FALSE] \in Headers
      /\ [t.claims EXCEPT !.exp = MaxNow] \in Claims
  BY <1>1 DEF Tokens, Headers, Claims
<1>3. \/ x = [t EXCEPT !.segments = 2] \/ x = [t EXCEPT !.header = [t.header EXCEPT !.alg = "none"]]
      \/ x = [t EXCEPT !.header = [t.header EXCEPT !.crit = TRUE]] \/ x = [t EXCEPT !.header = [t.header EXCEPT !.dup = TRUE]]
      \/ x = [t EXCEPT !.header = [t.header EXCEPT !.json = FALSE]] \/ x = [t EXCEPT !.claims = [t.claims EXCEPT !.exp = MaxNow]]
      \/ x = [t EXCEPT !.size = Conf.maxTokenBytes + 1]
  BY DEF Damaged, Tokens
<1>4. \A h \in Headers : [t EXCEPT !.header = h] \in Tokens
  BY DEF Tokens
<1>5. \A c \in Claims : [t EXCEPT !.claims = c] \in Tokens
  BY DEF Tokens
<1>6. [t EXCEPT !.segments = 2] \in Tokens /\ [t EXCEPT !.size = Conf.maxTokenBytes + 1] \in Tokens
  BY <1>1 DEF Tokens
<1> QED
  BY <1>2, <1>3, <1>4, <1>5, <1>6, Zenon

\* No damage goes unnoticed: what is accepted is in circulation.
LEMMA DamageShows ==
  ASSUME ConstantsOK, SessionInv, NEW t \in session.tokens, NEW x \in Damaged(t), parseToken(Conf, x, session.now) = "none"
  PROVE  x = t
<1>1. t \in Tokens /\ Sealed(t) /\ Conf \in Range(Configs) /\ validate(Conf)
  BY DeployedConfig DEF SessionInv, TypeOK
<1>2. Conf.alg # "none" /\ Conf.maxTokenBytes \in Int
  BY <1>1, ValidConfig DEF ConstantsOK
<1>3. /\ ~(x.size > Conf.maxTokenBytes) /\ x.segments = 3
      /\ x.header.json /\ ~x.header.dup /\ ~x.header.crit /\ x.header.alg = Conf.alg
      /\ \E i \in DOMAIN verifyKeys(Conf) : x.sig = computeSignature(Conf.alg, verifyKeys(Conf)[i], x.header, x.claims)
  BY ParsedTokens
<1>4. x.sig.claims = x.claims
  BY <1>3 DEF computeSignature
<1>5. t.sig.claims = t.claims
  BY <1>1 DEF Sealed, computeSignature
<1>6. CASE x = [t EXCEPT !.segments = 2]
  BY <1>1, <1>3, <1>6 DEF Tokens
<1>7. CASE x = [t EXCEPT !.header = [t.header EXCEPT !.alg = "none"]]
  BY <1>1, <1>2, <1>3, <1>7 DEF Tokens, Headers
<1>8. CASE x = [t EXCEPT !.header = [t.header EXCEPT !.crit = TRUE]]
  <2>1. x.header.crit = TRUE
    BY <1>1, <1>8 DEF Tokens, Headers
  <2> QED
    BY <1>3, <2>1
<1>9. CASE x = [t EXCEPT !.header = [t.header EXCEPT !.dup = TRUE]]
  <2>1. x.header.dup = TRUE
    BY <1>1, <1>9 DEF Tokens, Headers
  <2> QED
    BY <1>3, <2>1
<1>10. CASE x = [t EXCEPT !.header = [t.header EXCEPT !.json = FALSE]]
  <2>1. x.header.json = FALSE
    BY <1>1, <1>10 DEF Tokens, Headers
  <2> QED
    BY <1>3, <2>1
<1>11. CASE x = [t EXCEPT !.claims = [t.claims EXCEPT !.exp = MaxNow]]
  <2>1. x.sig = t.sig /\ x.claims = t.claims
    BY <1>1, <1>4, <1>5, <1>11 DEF Tokens
  <2>2. x = [t EXCEPT !.claims = t.claims]
    BY <1>1, <1>11, <2>1 DEF Tokens
  <2> QED
    BY <1>1, <2>2 DEF Tokens
<1>12. CASE x = [t EXCEPT !.size = Conf.maxTokenBytes + 1]
  BY <1>1, <1>2, <1>3, <1>12 DEF Tokens
<1>13. \/ x = [t EXCEPT !.segments = 2] \/ x = [t EXCEPT !.header = [t.header EXCEPT !.alg = "none"]]
       \/ x = [t EXCEPT !.header = [t.header EXCEPT !.crit = TRUE]] \/ x = [t EXCEPT !.header = [t.header EXCEPT !.dup = TRUE]]
       \/ x = [t EXCEPT !.header = [t.header EXCEPT !.json = FALSE]] \/ x = [t EXCEPT !.claims = [t.claims EXCEPT !.exp = MaxNow]]
       \/ x = [t EXCEPT !.size = Conf.maxTokenBytes + 1]
  BY <1>1 DEF Damaged, Tokens
<1> QED
  BY <1>6, <1>7, <1>8, <1>9, <1>10, <1>11, <1>12, <1>13

LEMMA PresentedTokens ==
  ASSUME ConstantsOK, SessionInv, NEW auth \in Presented
  PROVE  /\ auth \in Auths
         /\ checkToken(Conf, auth, session.now) = "none" =>
              auth.kind = "token" /\ auth.token \in session.tokens /\ parseToken(Conf, auth.token, session.now) = "none"
         /\ auth.kind = "token" => checkToken(Conf, auth, session.now) = parseToken(Conf, auth.token, session.now)
<1>1. CASE auth \in {[kind |-> "absent"], [kind |-> "other"]}
  <2>1. auth.kind \in {"absent", "other"} /\ auth \in [kind : {"absent", "other"}]
    BY <1>1
  <2>2. checkToken(Conf, auth, session.now) # "none" /\ auth.kind # "token"
    BY <2>1 DEF checkToken
  <2> QED
    BY <2>1, <2>2 DEF Auths
<1>2. CASE \E x \in session.tokens \cup UNION {Damaged(y) : y \in session.tokens} : auth = [kind |-> "token", token |-> x]
  <2>1. PICK x \in session.tokens \cup UNION {Damaged(y) : y \in session.tokens} : auth = [kind |-> "token", token |-> x]
    BY <1>2
  <2>2. session.tokens \subseteq Tokens /\ TypeOK
    BY DEF SessionInv, TypeOK
  <2>3. x \in Tokens /\ (parseToken(Conf, x, session.now) = "none" => x \in session.tokens)
    <3>1. CASE x \in session.tokens
      BY <2>2, <3>1
    <3>2. CASE \E y \in session.tokens : x \in Damaged(y)
      BY <2>2, <3>2, DamagedTokens, DamageShows
    <3> QED
      BY <3>1, <3>2
  <2>4. auth.kind = "token" /\ auth.token = x
    BY <2>1
  <2>5. checkToken(Conf, auth, session.now) = parseToken(Conf, x, session.now)
    BY <2>4 DEF checkToken
  <2> QED
    BY <2>1, <2>3, <2>4, <2>5 DEF Auths
<1> QED
  BY <1>1, <1>2 DEF Presented

\* A token for a session that goes back to a login has all the invariant asks of it.
LEMMA Grants ==
  ASSUME ConstantsOK, SessionInv, NEW user \in Users, NEW start \in Dates,
         NEW claims, claims = newClaims(Conf, user, start, session.now), NEW s, s = signToken(Conf, claims), s.ok,
         start = Nil \/ ~expiredOnIssue(Conf, claims.exp, session.now),
         TypeOK', session'.now = session.now, session'.deployed = session.deployed,
         \E l \in session'.logins : l[1] = user,
         Bounded' => \E l \in session'.logins : l[1] = user /\ (IF start = Nil THEN session.now ELSE start) <= l[2]
  PROVE  /\ s.token \in Tokens /\ Sealed(s.token) /\ Known(s.token)' /\ Begun(s.token)' /\ (Bounded => Anchored(s.token))'
         /\ parseToken(Conf', s.token, session'.now) = "none"
<1> DEFINE begun == IF start = Nil THEN session.now ELSE start
<1>1. Conf \in Range(Configs) /\ session.now \in Nat /\ validate(Conf) /\ Conf' = Conf /\ Conf' \in Deployed'
  <2>1. TypeOK /\ validate(Conf)
    BY DEF SessionInv
  <2>2. Conf \in Range(Configs) /\ session.now \in Nat /\ Conf \in Deployed
    BY <2>1, DeployedConfig
  <2> QED
    BY <2>1, <2>2 DEF Conf, Deployed
<1>2. /\ s.token \in Tokens /\ Sealed(s.token) /\ s.token.claims.user = user
      /\ s.token.claims.nbf # Nil /\ s.token.claims.nbf <= session.now
      /\ s.token.claims.auth # Nil /\ s.token.claims.auth <= begun
      /\ Conf.maxSessionLifetime > 0 => s.token.claims.exp <= begun + Conf.maxSessionLifetime
      /\ parseToken(Conf, s.token, session.now) = "none"
  BY <1>1, IssuedTokens
<1>3. Known(s.token)' /\ Begun(s.token)'
  BY <1>2 DEF Known, Begun
<1>4. ASSUME Bounded' PROVE Anchored(s.token)'
  <2>1. PICK l \in session'.logins : l[1] = user /\ begun <= l[2]
    BY <1>4
  <2>2. Conf'.maxSessionLifetime > 0
    BY <1>1, <1>4 DEF Bounded
  <2>3. /\ begun \in Int /\ l[2] \in Int /\ Conf.maxSessionLifetime \in Int
        /\ s.token.claims.auth \in Int /\ s.token.claims.exp \in Int
    <3>1. begun \in Int
      BY <1>1 DEF Dates, Nil
    <3>2. l \in Users \X Nat
      BY <2>1 DEF TypeOK
    <3>3. s.token.claims \in Claims
      BY <1>2 DEF Tokens
    <3>4. s.token.claims.auth \in Int /\ s.token.claims.exp \in Int
      BY <3>3 DEF Claims, Dates, Nil
    <3>5. Conf.maxSessionLifetime \in Int
      BY <1>1 DEF ConstantsOK
    <3> QED
      BY <3>1, <3>2, <3>4, <3>5
  <2> HIDE DEF begun
  <2>4. s.token.claims.auth <= l[2] /\ s.token.claims.exp <= l[2] + Conf'.maxSessionLifetime
    BY <1>1, <1>2, <2>1, <2>2, <2>3
  <2> QED
    BY <1>1, <1>2, <2>1, <2>4 DEF Anchored
<1> QED
  BY <1>1, <1>2, <1>3, <1>4

\* SessionsHold, for an answer to a request that presents no token.
LEMMA NothingPresented ==
  ASSUME session'.last.op \notin {"authorize", "renew"}, \A t \in session'.last.issued : parseToken(Conf', t, session'.now) = "none"
  PROVE  SessionsHold'
BY DEF SessionsHold, Accepted

LEMMA AnswerFields ==
  ASSUME NEW status, NEW challenge, NEW issued
  PROVE  /\ Answer(status, challenge).status = status /\ Answer(status, challenge).challenge = challenge
         /\ Answer(status, challenge).issued = {}
         /\ [Answer(status, challenge) EXCEPT !.issued = issued].status = status
         /\ [Answer(status, challenge) EXCEPT !.issued = issued].challenge = challenge
         /\ [Answer(status, challenge) EXCEPT !.issued = issued].issued = issued
BY DEF Answer

\* A session that begins now, if a token comes of it.
LEMMA NewSession ==
  ASSUME ConstantsOK, SessionInv, NEW user \in Users, NEW op \in {"login", "issue"}, NEW a, a.status \in Int, a.challenge \in Challenges,
         NEW s, s = signToken(Conf, newClaims(Conf, user, Nil, session.now)),
         a.issued = {} \/ (a.issued = {s.token} /\ s.ok),
         NEW logins \in SUBSET (Users \X Nat), a.issued # {} => <<user, session.now>> \in logins,
         session' = Reply(op, NoAuth, a, logins)
  PROVE  SessionInv' /\ SessionsHold'
<1> DEFINE claims == newClaims(Conf, user, Nil, session.now)
<1>1. TypeOK /\ Conf \in Range(Configs) /\ session.now \in Nat /\ validate(Conf) /\ Nil \in Dates
  BY DeployedConfig DEF SessionInv, Dates
<1>2. NoAuth \in Auths /\ op \in Ops /\ op # "none"
  BY DEF NoAuth, Auths, Ops
<1>3. a.issued \subseteq Tokens
  <2>1. s.ok => s.token \in Tokens
    BY <1>1, IssuedTokens
  <2> QED
    BY <2>1
<1>4. /\ TypeOK' /\ session'.now = session.now /\ session'.deployed = session.deployed
      /\ session'.logins = session.logins \cup logins
      /\ session'.last = [op |-> op, auth |-> NoAuth, status |-> a.status, challenge |-> a.challenge, issued |-> a.issued]
  BY <1>1, <1>2, <1>3, SessionReplies
<1>5. ASSUME NEW t \in a.issued
      PROVE  /\ Sealed(t) /\ Known(t)' /\ Begun(t)' /\ (Bounded => Anchored(t))'
             /\ parseToken(Conf', t, session'.now) = "none"
  <2>1. t = s.token /\ s.ok /\ <<user, session.now>> \in session'.logins
    BY <1>4
  <2>2. <<user, session.now>>[1] = user /\ session.now <= <<user, session.now>>[2]
    BY <1>1
  <2>3. \E l \in session'.logins : l[1] = user /\ session.now <= l[2]
    BY <2>1, <2>2
  <2>4. (IF Nil = Nil THEN session.now ELSE Nil) = session.now
    OBVIOUS
  <2> QED
    BY <1>1, <1>4, <2>1, <2>3, <2>4, Grants
<1>6. SessionInv'
  BY <1>2, <1>3, <1>5, RepliesKeep
<1>7. SessionsHold'
  <2>1. session'.last.op = op /\ session'.last.issued = a.issued
    BY <1>4
  <2> QED
    BY <1>5, <2>1, NothingPresented
<1> QED
  BY <1>6, <1>7

LEMMA LoginStep ==
  ASSUME ConstantsOK, SessionInv, Login
  PROVE  SessionInv' /\ SessionsHold'
<1>1. PICK user \in Users, payload \in {"ok", "too_large", "invalid", "trailing"}, verdict \in {"yes", "no", "error"} :
        /\ Room
        /\ LET a == LoginHandler(Conf, payload, verdict, user, session.now)
           IN  session' = Reply("login", NoAuth, a, IF a.issued # {} THEN {<<user, session.now>>} ELSE {})
  BY Zenon DEF Login
<1>2. PICK s : s = signToken(Conf, newClaims(Conf, user, Nil, session.now))
  OBVIOUS
<1>3. PICK a : a = LoginHandler(Conf, payload, verdict, user, session.now)
  OBVIOUS
<1>4. PICK logins : logins = IF a.issued # {} THEN {<<user, session.now>>} ELSE {}
  OBVIOUS
<1>5. \/ a = Answer(413, "none") \/ a = Answer(400, "none") \/ a = Answer(500, "none") \/ a = Answer(401, "none")
      \/ a = [Answer(200, "none") EXCEPT !.issued = {s.token}] /\ s.ok
  BY <1>2, <1>3 DEF LoginHandler, sendTokenResponse
<1>6. a.status \in Int /\ a.challenge \in Challenges /\ (a.issued = {} \/ (a.issued = {s.token} /\ s.ok))
  BY <1>5 DEF Challenges, Answer
<1>7. logins \in SUBSET (Users \X Nat) /\ (a.issued # {} => <<user, session.now>> \in logins)
  BY <1>4, DeployedConfig DEF SessionInv
<1>8. session' = Reply("login", NoAuth, a, logins) /\ "login" \in {"login", "issue"}
  BY <1>1, <1>3, <1>4
<1> QED
  BY <1>2, <1>6, <1>7, <1>8, NewSession

LEMMA IssueStep ==
  ASSUME ConstantsOK, SessionInv, IssueToken
  PROVE  SessionInv' /\ SessionsHold'
<1>1. PICK user \in Users :
        LET s == signToken(Conf, newClaims(Conf, user, Nil, session.now))
        IN  s.ok /\ session' = Reply("issue", NoAuth, [Answer(200, "none") EXCEPT !.issued = {s.token}], {<<user, session.now>>})
  BY Zenon DEF IssueToken
<1>2. PICK s : s = signToken(Conf, newClaims(Conf, user, Nil, session.now))
  OBVIOUS
<1>3. PICK a : a = [Answer(200, "none") EXCEPT !.issued = {s.token}]
  OBVIOUS
<1>4. s.ok /\ session' = Reply("issue", NoAuth, a, {<<user, session.now>>}) /\ "issue" \in {"login", "issue"}
  BY <1>1, <1>2, <1>3
<1>5. a.status \in Int /\ a.challenge \in Challenges /\ a.issued = {s.token}
  BY <1>3, AnswerFields DEF Challenges
<1>6. {<<user, session.now>>} \in SUBSET (Users \X Nat)
  BY DeployedConfig DEF SessionInv
<1> QED
  BY <1>2, <1>4, <1>5, <1>6, NewSession


\* Between two requests there is nothing to hold.
LEMMA NothingAnswered ==
  ASSUME session'.last = Quiet
  PROVE  SessionsHold'
<1>1. session'.last.op = "none" /\ session'.last.issued = {}
  BY DEF Quiet
<1> QED
  BY <1>1, NothingPresented

LEMMA QuietOK == Quiet \in LastAnswers
<1>1. NoAuth \in Auths /\ "none" \in Ops /\ "none" \in Challenges
  BY DEF NoAuth, Auths, Ops, Challenges
<1> QED
  BY <1>1 DEF Quiet, LastAnswers

\* A step between two requests keeps the invariant if the tokens it adds have it.
LEMMA QuietSteps ==
  ASSUME ConstantsOK, SessionInv, TypeOK', validate(Conf'), session'.last = Quiet,
         session.logins \subseteq session'.logins, session.deployed <= session'.deployed, session.now <= session'.now,
         \A t \in session'.tokens \ session.tokens : Sealed(t) /\ Known(t)' /\ Begun(t)' /\ (Bounded => Anchored(t))'
  PROVE  SessionInv' /\ SessionsHold'
<1>1. ASSUME NEW t \in session.tokens PROVE Sealed(t) /\ Known(t)' /\ Begun(t)' /\ (Bounded => Anchored(t))'
  <2>1. t \in Tokens /\ Sealed(t) /\ Known(t) /\ Begun(t) /\ (Bounded => Anchored(t)) /\ TypeOK
    BY DEF SessionInv, TypeOK
  <2> QED
    BY <2>1, TokensKeep
<1>2. \A t \in session'.tokens : Sealed(t) /\ Known(t)' /\ Begun(t)' /\ (Bounded => Anchored(t))'
  BY <1>1
<1> QED
  BY <1>2, NothingAnswered DEF SessionInv

LEMMA TickStep ==
  ASSUME ConstantsOK, SessionInv, session.last.op = "none", Tick
  PROVE  SessionInv' /\ SessionsHold'
<1>1. TypeOK /\ session.last = Quiet /\ validate(Conf)
  BY DEF SessionInv
<1>2. /\ session'.now = session.now + 1 /\ session'.deployed = session.deployed /\ session'.tokens = session.tokens /\ session'.logins = session.logins
      /\ session'.last = session.last /\ TypeOK'
  BY <1>1 DEF Tick, TypeOK
<1>3. session.now \in Nat /\ session.deployed \in Int
  BY <1>1 DEF TypeOK, ConstantsOK
<1>4. validate(Conf')
  BY <1>1, <1>2 DEF Conf
<1> QED
  BY <1>1, <1>2, <1>3, <1>4, QuietSteps

LEMMA DeployStep ==
  ASSUME ConstantsOK, SessionInv, session.last.op = "none", Deploy
  PROVE  SessionInv' /\ SessionsHold'
<1>1. TypeOK /\ session.last = Quiet
  BY DEF SessionInv
<1>2. session.deployed \in Nat /\ session.deployed + 1 \in DOMAIN Configs /\ validate(Configs[session.deployed + 1]) /\ session.now \in Nat
  BY <1>1 DEF TypeOK, ConstantsOK, Deploy
<1>3. /\ session'.now = session.now /\ session'.deployed = session.deployed + 1 /\ session'.tokens = session.tokens /\ session'.logins = session.logins
      /\ session'.last = session.last /\ TypeOK'
  BY <1>1, <1>2 DEF Deploy, TypeOK
<1>4. validate(Conf')
  BY <1>2, <1>3 DEF Conf
<1> QED
  BY <1>1, <1>2, <1>3, <1>4, QuietSteps

LEMMA AnsweredStep ==
  ASSUME ConstantsOK, SessionInv, Answered
  PROVE  SessionInv' /\ SessionsHold'
<1>1. TypeOK /\ validate(Conf)
  BY DEF SessionInv
<1>2. /\ session'.now = session.now /\ session'.deployed = session.deployed /\ session'.tokens = session.tokens /\ session'.logins = session.logins
      /\ session'.last = Quiet /\ TypeOK'
  BY <1>1, QuietOK DEF Answered, TypeOK
<1>3. session.now \in Nat /\ session.deployed \in Int
  BY <1>1 DEF TypeOK, ConstantsOK
<1>4. validate(Conf')
  BY <1>1, <1>2 DEF Conf
<1> QED
  BY <1>2, <1>3, <1>4, QuietSteps

LEMMA ForeignStep ==
  ASSUME ConstantsOK, SessionInv, session.last.op = "none", ForeignToken
  PROVE  SessionInv' /\ SessionsHold'
<1>1. TypeOK /\ session.last = Quiet /\ validate(Conf) /\ Conf \in Range(Configs) /\ session.now \in Nat
  BY DeployedConfig DEF SessionInv
<1>2. PICK user \in Users, k \in Keys, exp \in {Nil, session.now}, nbf \in {Nil, session.now}, iat \in {Nil, session.now} :
        LET claims == [user |-> user, exp |-> IF exp = Nil THEN Nil ELSE Seconds(exp) + 2 * PerSecond,
                       iat |-> IF iat = Nil THEN Nil ELSE Seconds(iat), nbf |-> IF nbf = Nil THEN Nil ELSE Seconds(nbf) + PerSecond,
                       auth |-> Nil, iss |-> Conf.issuer, aud |-> Conf.audience]
        IN  /\ session.tokens = {}
            /\ session' = [session EXCEPT !.tokens = @ \cup {[segments |-> 3, header |-> PlainHeader(Conf.alg), claims |-> claims,
                                    sig |-> computeSignature(Conf.alg, k, PlainHeader(Conf.alg), claims), size |-> 1]},
                                !.logins = @ \cup {<<user, session.now>>}]
  BY Zenon DEF ForeignToken
<1>3. PICK issued : issued = IF iat = Nil THEN Nil ELSE Seconds(iat)
  OBVIOUS
<1>4. PICK claims : claims = [user |-> user, exp |-> IF exp = Nil THEN Nil ELSE Seconds(exp) + 2 * PerSecond,
                              iat |-> issued, nbf |-> IF nbf = Nil THEN Nil ELSE Seconds(nbf) + PerSecond,
                              auth |-> Nil, iss |-> Conf.issuer, aud |-> Conf.audience]
  OBVIOUS
<1>5. PICK t : t = [segments |-> 3, header |-> PlainHeader(Conf.alg), claims |-> claims,
                    sig |-> computeSignature(Conf.alg, k, PlainHeader(Conf.alg), claims), size |-> 1]
  OBVIOUS
<1>6. session' = [session EXCEPT !.tokens = session.tokens \cup {t}, !.logins = session.logins \cup {<<user, session.now>>}]
  BY <1>1, <1>2, <1>3, <1>4, <1>5 DEF TypeOK
<1>7. Seconds(session.now) \in Nat /\ Seconds(session.now) <= session.now /\ PerSecond \in Nat /\ Nil = -1
  BY <1>1, SecondsBounds DEF ConstantsOK, Nil
<1>8. issued \in Dates /\ (issued # Nil => issued <= session.now)
  BY <1>3, <1>7 DEF Dates
<1>9. claims \in Claims
  <2>1. (IF exp = Nil THEN Nil ELSE Seconds(exp) + 2 * PerSecond) \in Dates /\ (IF nbf = Nil THEN Nil ELSE Seconds(nbf) + PerSecond) \in Dates
    BY <1>7 DEF Dates
  <2>2. Conf.issuer \in Issuers /\ Conf.audience \in Audiences /\ Nil \in Dates
    BY <1>1 DEF Issuers, Audiences, Dates
  <2> QED
    BY <1>4, <1>8, <2>1, <2>2 DEF Claims
<1>10. claims.user = user /\ claims.auth = Nil /\ claims.iat = issued
  BY <1>4
<1>11. t \in Tokens /\ t.claims = claims /\ Sealed(t)
  <2>1. PlainHeader(Conf.alg) \in Headers /\ Conf.alg \in Algs
    BY <1>1 DEF PlainHeader, Headers, Algs
  <2>2. computeSignature(Conf.alg, k, PlainHeader(Conf.alg), claims) \in Signatures
    BY <1>9, <2>1 DEF Signatures, computeSignature
  <2>3. t \in Tokens /\ t.claims = claims
    BY <1>5, <1>9, <2>1, <2>2 DEF Tokens
  <2>4. Sealed(t)
    BY <1>5 DEF Sealed, PlainHeader, computeSignature
  <2> QED
    BY <2>3, <2>4
<1>12. /\ TypeOK' /\ session'.now = session.now /\ session'.deployed = session.deployed /\ session'.tokens = session.tokens \cup {t}
       /\ session'.logins = session.logins \cup {<<user, session.now>>} /\ session'.last = session.last
  <2>1. <<user, session.now>> \in Users \X Nat
    BY <1>1
  <2> QED
    BY <1>1, <1>6, <1>11, <2>1 DEF TypeOK
<1>13. Known(t)' /\ Begun(t)' /\ Anchored(t)'
  <2>1. <<user, session.now>> \in session'.logins /\ <<user, session.now>>[1] = user /\ <<user, session.now>>[2] = session.now
    BY <1>12
  <2> QED
    BY <1>8, <1>10, <1>11, <2>1 DEF Known, Begun, Anchored
<1>14. validate(Conf') /\ session.deployed \in Int
  BY <1>1, <1>12 DEF Conf, TypeOK, ConstantsOK
<1> QED
  BY <1>1, <1>11, <1>12, <1>13, <1>14, QuietSteps

\* SessionsHold, for an answer to a request that presents a token.
LEMMA TokenPresented ==
  ASSUME ConstantsOK, SessionInv, SessionInv', NEW auth \in Presented,
         session'.now = session.now, session'.deployed = session.deployed, session.tokens \subseteq session'.tokens,
         session'.last.auth = auth, session'.last.op \in {"renew", "authorize"},
         session'.last.status = 200 => checkToken(Conf, auth, session.now) = "none",
         session'.last.op = "authorize" /\ checkToken(Conf, auth, session.now) = "none" => session'.last.status = 200,
         \A t \in session'.last.issued : parseToken(Conf', t, session'.now) = "none",
         session'.last.op = "authorize" => session'.tokens = session.tokens
  PROVE  SessionsHold'
<1>1. TypeOK /\ TypeOK' /\ Conf' = Conf /\ Conf \in Range(Configs) /\ session.now \in Nat /\ validate(Conf)
  BY DeployedConfig DEF SessionInv, Conf
<1>2. Conf.clockSkewLeeway \in Nat /\ Conf.maxTokenBytes \in Int
  BY <1>1, ValidConfig DEF ConstantsOK
<1>3. ASSUME Accepted'
      PROVE  /\ auth.kind = "token" /\ auth.token \in session.tokens /\ auth.token \in session'.tokens /\ auth.token \in Tokens
             /\ auth.token.claims.exp # Nil /\ session.now < auth.token.claims.exp + Conf.clockSkewLeeway
  <2>1. auth.kind = "token" /\ auth.token \in session.tokens /\ parseToken(Conf, auth.token, session.now) = "none"
    BY <1>3, PresentedTokens DEF Accepted
  <2>2. auth.token \in Tokens
    BY <1>1, <2>1 DEF TypeOK
  <2>3. auth.token.claims.exp # Nil /\ ~(session.now >= auth.token.claims.exp + Conf.clockSkewLeeway)
    BY <2>1, ParsedTokens
  <2>4. auth.token.claims.exp \in Int
    BY <2>2 DEF Tokens, Claims, Dates, Nil
  <2> QED
    BY <1>1, <1>2, <2>1, <2>2, <2>3, <2>4
<1>4. ASSUME Accepted'
      PROVE  \E l \in session'.logins : l[1] = auth.token.claims.user
  BY <1>3, <1>4 DEF SessionInv, Known
<1>5. ASSUME Accepted', auth.token.claims.auth # Nil, Bounded'
      PROVE  \E l \in session'.logins, d \in Deployed' :
               l[1] = auth.token.claims.user /\ session.now < l[2] + d.maxSessionLifetime + Conf.clockSkewLeeway
  <2>1. PICK l \in session'.logins, d \in Deployed' :
          l[1] = auth.token.claims.user /\ auth.token.claims.exp <= l[2] + d.maxSessionLifetime
    BY <1>3, <1>5 DEF SessionInv, Anchored
  <2>2. l[2] \in Int /\ d.maxSessionLifetime \in Int
    <3>1. l \in Users \X Nat
      BY <1>1, <2>1 DEF TypeOK
    <3>2. PICK i \in 1..session'.deployed : d = Configs[i]
      BY <2>1 DEF Deployed
    <3>3. i \in DOMAIN Configs
      BY <1>1, <3>2 DEF TypeOK, ConstantsOK
    <3>4. d \in Range(Configs)
      BY <3>2, <3>3 DEF Range
    <3> QED
      BY <3>1, <3>4 DEF ConstantsOK
  <2>3. auth.token.claims.exp \in Int
    BY <1>3, <1>5 DEF Tokens, Claims, Dates, Nil
  <2>4. session.now < l[2] + d.maxSessionLifetime + Conf.clockSkewLeeway
    BY <1>1, <1>2, <1>3, <1>5, <2>1, <2>2, <2>3
  <2> QED
    BY <2>1, <2>4
<1>6. ASSUME session'.last.op = "authorize", auth.kind = "token", auth.token \in session'.tokens, auth.token.claims.auth # Nil,
             auth.token.header.alg = Conf.alg, auth.token.sig.key \in Range(verifyKeys(Conf)), session.now < auth.token.claims.exp,
             Conf.issuer \in {"", auth.token.claims.iss}, Conf.audience \subseteq auth.token.claims.aud,
             auth.token.size <= Conf.maxTokenBytes
      PROVE  session'.last.status = 200
  <2>0. PICK t : t = auth.token
    OBVIOUS
  <2>1. t \in session.tokens /\ t \in Tokens /\ Sealed(t) /\ Begun(t)
    BY <1>1, <1>6, <2>0 DEF SessionInv, TypeOK
  <2>2. t.claims.exp \in Int /\ t.claims.nbf \in Int /\ t.size \in Int
    BY <2>1 DEF Tokens, Claims, Dates, Nil
  <2>3. t.claims.nbf # Nil /\ t.claims.nbf <= session.now
    BY <1>6, <2>0, <2>1 DEF Begun
  <2>4. validateClaims(Conf, t.claims, session.now) = "none"
    <3>1. t.claims.exp # Nil /\ ~(session.now >= t.claims.exp + Conf.clockSkewLeeway)
      <4>1. session.now < t.claims.exp
        BY <1>6, <2>0, Zenon
      <4> QED
        BY <1>1, <1>2, <2>2, <4>1 DEF Nil
    <3>2. ~(session.now + Conf.clockSkewLeeway < t.claims.nbf)
      BY <1>1, <1>2, <2>2, <2>3
    <3>3. ~(Conf.issuer # "" /\ t.claims.iss # Conf.issuer)
      BY <1>6, <2>0
    <3>4. Conf.audience \subseteq t.claims.aud
      BY <1>6, <2>0
    <3> QED
      BY <3>1, <3>2, <3>3, <3>4, Zenon DEF validateClaims
  <2>5. \E i \in DOMAIN verifyKeys(Conf) : t.sig.key = verifyKeys(Conf)[i]
    BY <1>6, <2>0 DEF Range
  <2>6. ~(t.size > Conf.maxTokenBytes) /\ t.header.alg = Conf.alg
    <3>1. t.size <= Conf.maxTokenBytes /\ t.header.alg = Conf.alg
      BY <1>6, <2>0, Zenon
    <3> QED
      BY <1>2, <2>2, <3>1
  <2>7. parseToken(Conf, t, session.now) = "none"
    BY <2>1, <2>4, <2>5, <2>6, SealedParses
  <2>8. checkToken(Conf, auth, session.now) = "none"
    BY <1>6, <2>0, <2>7, PresentedTokens
  <2> QED
    BY <1>6, <2>8
<1> QED
  BY <1>1, <1>3, <1>4, <1>5, <1>6 DEF SessionsHold, Token

LEMMA Unauthorized ==
  ASSUME NEW err
  PROVE  /\ writeUnauthorized(err).status = 401 /\ writeUnauthorized(err).challenge \in Challenges
         /\ writeUnauthorized(err).issued = {}
BY DEF writeUnauthorized, Answer, Challenges

LEMMA AuthorizeStep ==
  ASSUME ConstantsOK, SessionInv, Authorize
  PROVE  SessionInv' /\ SessionsHold'
<1>1. PICK auth \in Presented : session' = Reply("authorize", auth, IsAuthorized(Conf, auth, session.now), {})
  BY DEF Authorize
<1>2. PICK a : a = IsAuthorized(Conf, auth, session.now)
  OBVIOUS
<1>3. PICK err : err = checkToken(Conf, auth, session.now)
  OBVIOUS
<1>4. a = IF err = "none" THEN Answer(200, "none") ELSE writeUnauthorized(err)
  BY <1>2, <1>3 DEF IsAuthorized
<1>5. a.status \in Int /\ a.challenge \in Challenges /\ a.issued = {} /\ (a.status = 200 <=> err = "none")
  <2>1. CASE err = "none"
    BY <1>4, <2>1 DEF Answer, Challenges
  <2>2. CASE err # "none"
    BY <1>4, <2>2, Unauthorized
  <2> QED
    BY <2>1, <2>2
<1>6. auth \in Auths /\ "authorize" \in Ops /\ TypeOK
  BY PresentedTokens DEF Ops, SessionInv
<1>7. session' = Reply("authorize", auth, a, {}) /\ {} \in SUBSET (Users \X Nat)
  BY <1>1, <1>2
<1>8. a.status \in Int /\ a.challenge \in Challenges /\ a.issued \subseteq Tokens
  BY <1>5
<1>9. SessionInv'
  BY <1>5, <1>6, <1>7, <1>8, RepliesKeep
<1>10. /\ TypeOK' /\ session'.now = session.now /\ session'.deployed = session.deployed /\ session'.tokens = session.tokens \cup a.issued
      /\ session'.logins = session.logins \cup {}
      /\ session'.last = [op |-> "authorize", auth |-> auth, status |-> a.status, challenge |-> a.challenge, issued |-> a.issued]
  BY <1>6, <1>7, <1>8, SessionReplies
<1>11. /\ session'.tokens = session.tokens /\ session'.last.auth = auth /\ session'.last.op = "authorize" /\ session'.last.status = a.status
       /\ session'.last.issued = {}
  BY <1>5, <1>10
<1>12. SessionsHold'
  BY <1>3, <1>5, <1>9, <1>10, <1>11, TokenPresented
<1> QED
  BY <1>9, <1>12

LEMMA RenewStep ==
  ASSUME ConstantsOK, SessionInv, Renew
  PROVE  SessionInv' /\ SessionsHold'
<1>1. PICK auth \in Presented : Room /\ session' = Reply("renew", auth, RenewHandler(Conf, auth, session.now), {})
  BY DEF Renew
<1>2. PICK a : a = RenewHandler(Conf, auth, session.now)
  OBVIOUS
<1>3. PICK err : err = checkToken(Conf, auth, session.now)
  OBVIOUS
<1>4. PICK claims : claims = auth.token.claims
  OBVIOUS
<1>5. PICK start : start = IF claims.auth # Nil THEN claims.auth ELSE claims.iat
  OBVIOUS
<1>6. PICK renewed : renewed = newClaims(Conf, claims.user, start, session.now)
  OBVIOUS
<1>7. PICK s : s = signToken(Conf, renewed)
  OBVIOUS
<1>8. a = IF err # "none" THEN writeUnauthorized(err)
          ELSE IF claims.exp - session.now > Conf.renewTime THEN Answer(400, "none")
          ELSE IF Conf.maxSessionLifetime > 0 /\ (start = Nil \/ session.now - start > Conf.maxSessionLifetime)
               THEN writeUnauthorized("session")
          ELSE IF expiredOnIssue(Conf, renewed.exp, session.now) THEN writeUnauthorized("session")
          ELSE IF ~s.ok THEN Answer(500, "none") ELSE [Answer(200, "none") EXCEPT !.issued = {s.token}]
  BY <1>2, <1>3, <1>4, <1>5, <1>6, <1>7 DEF RenewHandler, sendTokenResponse
<1>9. /\ a.status \in Int /\ a.challenge \in Challenges /\ (a.status = 200 => err = "none")
      /\ \/ a.issued = {}
         \/ /\ a.issued = {s.token} /\ s.ok /\ err = "none" /\ ~expiredOnIssue(Conf, renewed.exp, session.now)
            /\ Conf.maxSessionLifetime > 0 => start # Nil
  <2>1. CASE a = writeUnauthorized(err) \/ a = writeUnauthorized("session")
    BY <2>1, Unauthorized
  <2>2. CASE a = Answer(400, "none") \/ a = Answer(500, "none")
    BY <2>2 DEF Answer, Challenges
  <2>3. CASE a = [Answer(200, "none") EXCEPT !.issued = {s.token}] /\ s.ok /\ err = "none"
             /\ ~expiredOnIssue(Conf, renewed.exp, session.now) /\ (Conf.maxSessionLifetime > 0 => start # Nil)
    BY <2>3 DEF Answer, Challenges
  <2> QED
    BY <1>8, <2>1, <2>2, <2>3
<1>10. auth \in Auths /\ "renew" \in Ops /\ TypeOK /\ validate(Conf) /\ Conf \in Range(Configs) /\ session.now \in Nat
  BY PresentedTokens, DeployedConfig DEF Ops, SessionInv
<1>11. ASSUME err = "none"
       PROVE  auth.token \in session.tokens /\ claims.user \in Users /\ start \in Dates
  <2>1. auth.token \in session.tokens
    BY <1>3, <1>11, PresentedTokens
  <2>2. auth.token \in Tokens
    BY <1>10, <2>1 DEF TypeOK
  <2>3. claims \in Claims
    BY <1>4, <2>2 DEF Tokens
  <2> QED
    BY <1>5, <2>1, <2>3 DEF Claims
<1>12. a.issued \subseteq Tokens
  <2>1. ASSUME s.ok, err = "none", ~expiredOnIssue(Conf, renewed.exp, session.now) PROVE s.token \in Tokens
    BY <1>6, <1>7, <1>10, <1>11, <2>1, IssuedTokens
  <2> QED
    BY <1>9, <2>1
<1>13. session' = Reply("renew", auth, a, {}) /\ {} \in SUBSET (Users \X Nat)
  BY <1>1, <1>2
<1>14. /\ TypeOK' /\ session'.now = session.now /\ session'.deployed = session.deployed /\ session'.tokens = session.tokens \cup a.issued
       /\ session'.logins = session.logins \cup {}
       /\ session'.last = [op |-> "renew", auth |-> auth, status |-> a.status, challenge |-> a.challenge, issued |-> a.issued]
  BY <1>9, <1>10, <1>12, <1>13, SessionReplies, ZenonT(40)
<1>15. ASSUME NEW t \in a.issued
       PROVE  /\ Sealed(t) /\ Known(t)' /\ Begun(t)' /\ (Bounded => Anchored(t))'
              /\ parseToken(Conf', t, session'.now) = "none"
  <2>1. /\ t = s.token /\ s.ok /\ err = "none" /\ ~expiredOnIssue(Conf, renewed.exp, session.now)
        /\ Conf.maxSessionLifetime > 0 => start # Nil
    BY <1>9
  <2>2. auth.token \in session.tokens /\ claims.user \in Users /\ start \in Dates
    BY <1>11, <2>1
  <2>3. Known(auth.token) /\ (Bounded => Anchored(auth.token))
    BY <2>2 DEF SessionInv
  <2>4. \E l \in session'.logins : l[1] = claims.user
    BY <1>4, <1>14, <2>3 DEF Known
  <2>5. ASSUME Bounded' PROVE \E l \in session'.logins : l[1] = claims.user /\ (IF start = Nil THEN session.now ELSE start) <= l[2]
    <3>1. Bounded
      BY <1>14, <2>5 DEF Bounded, Deployed
    <3>2. start # Nil
      BY <1>10, <2>1, <3>1, DeployedConfig DEF Bounded
    <3>3. \E l \in session.logins : l[1] = claims.user /\ start <= l[2]
      BY <1>4, <1>5, <2>3, <3>1, <3>2 DEF Anchored
    <3> QED
      BY <1>14, <3>2, <3>3
  <2> QED
    BY <1>6, <1>7, <1>14, <2>1, <2>2, <2>4, <2>5, Grants
<1>16. SessionInv'
  BY <1>9, <1>10, <1>12, <1>13, <1>15, RepliesKeep
<1>17. /\ session.tokens \subseteq session'.tokens /\ session'.last.auth = auth /\ session'.last.op = "renew" /\ session'.last.status = a.status
       /\ session'.last.issued = a.issued
  BY <1>14
<1>18. SessionsHold'
  BY <1>3, <1>9, <1>14, <1>15, <1>16, <1>17, TokenPresented
<1> QED
  BY <1>16, <1>18

-----------------------------------------------------------------------------
(* Theorems *)

LEMMA InitHolds ==
  ASSUME ConstantsOK, Init
  PROVE  SessionInv /\ SessionsHold
<1>1. session = [now |-> 0, deployed |-> 1, tokens |-> {}, logins |-> {}, last |-> Quiet] /\ validate(Configs[1])
  BY DEF Init
<1>2. 1 \in DOMAIN Configs
  BY DEF ConstantsOK
<1>3. TypeOK
  BY <1>1, <1>2, QuietOK DEF TypeOK
<1>4. session.last.op = "none" /\ session.last.issued = {}
  BY <1>1 DEF Quiet
<1>5. SessionsHold
  BY <1>4 DEF SessionsHold, Accepted
<1> QED
  BY <1>1, <1>3, <1>5 DEF SessionInv, Conf

LEMMA NextHolds ==
  ASSUME ConstantsOK, SessionInv, SessionsHold, [Next]_session
  PROVE  SessionInv' /\ SessionsHold'
<1>1. CASE session.last.op = "none" /\ Tick
  BY <1>1, TickStep
<1>2. CASE session.last.op = "none" /\ Deploy
  BY <1>2, DeployStep
<1>3. CASE Login
  BY <1>3, LoginStep
<1>4. CASE IssueToken
  BY <1>4, IssueStep
<1>5. CASE session.last.op = "none" /\ ForeignToken
  BY <1>5, ForeignStep
<1>6. CASE Renew
  BY <1>6, RenewStep
<1>7. CASE Authorize
  BY <1>7, AuthorizeStep
<1>8. CASE Answered
  BY <1>8, AnsweredStep
<1>9. CASE UNCHANGED session
  <2>1. Conf' = Conf /\ Deployed' = Deployed /\ (Bounded' <=> Bounded) /\ (Accepted' <=> Accepted) /\ Token' = Token
    BY <1>9 DEF Conf, Deployed, Bounded, Accepted, Token
  <2>2. TypeOK'
    BY <1>9 DEF SessionInv, TypeOK
  <2>3. ASSUME NEW t \in session.tokens
        PROVE  Sealed(t) /\ Known(t)' /\ Begun(t)' /\ (Bounded => Anchored(t))'
    BY <1>9, <2>1, <2>3 DEF SessionInv, Known, Begun, Anchored
  <2>4. SessionInv'
    BY <1>9, <2>1, <2>2, <2>3 DEF SessionInv
  <2>5. SessionsHold'
    BY <1>9, <2>1 DEF SessionsHold
  <2> QED
    BY <2>4, <2>5
<1> QED
  BY <1>1, <1>2, <1>3, <1>4, <1>5, <1>6, <1>7, <1>8, <1>9 DEF Next

\* The clock, the deployment, the tokens and the answers of pkg/jwt stay well formed, whatever
\* is deployed, signed, damaged and presented.
THEOREM SessionsAreTyped == Spec => []TypeOK
<1>1. Init => SessionInv /\ SessionsHold
  BY ConstantsAssumption, InitHolds
<1>2. SessionInv /\ SessionsHold /\ [Next]_session => SessionInv' /\ SessionsHold'
  BY ConstantsAssumption, NextHolds
<1>3. SessionInv => TypeOK
  BY DEF SessionInv
<1> QED
  BY <1>1, <1>2, <1>3, PTL DEF Spec

\* For any users, clock, leeways and sequence of deployments: parseToken accepts only what was
\* signed, for a user who logged in no longer ago than a session may last however often
\* RenewHandler renewed it; what signToken hands out is accepted at once; and a token that is
\* still good is accepted.
THEOREM SessionsAreSound == Spec => []SessionsHold
<1>1. Init => SessionInv /\ SessionsHold
  BY ConstantsAssumption, InitHolds
<1>2. SessionInv /\ SessionsHold /\ [Next]_session => SessionInv' /\ SessionsHold'
  BY ConstantsAssumption, NextHolds
<1> QED
  BY <1>1, <1>2, PTL DEF Spec

-----------------------------------------------------------------------------
(* Arrays: what the loops of package slices do to the elements a header shows *)

\* The first n elements of an array.
Shown(a, n) == [i \in 1..n |-> a[i]]

LEMMA ShownSeq ==
  ASSUME NEW a \in Seq(Int), NEW n \in Nat, n <= Len(a)
  PROVE  Shown(a, n) \in Seq(Int) /\ Len(Shown(a, n)) = n /\ \A i \in 1..n : Shown(a, n)[i] = a[i]
BY DEF Shown

LEMMA NothingShown ==
  ASSUME NEW a
  PROVE  Shown(a, 0) = <<>>
BY DEF Shown

\* Two sequences that show the same are the same.
LEMMA SameSeq ==
  ASSUME NEW s \in Seq(Int), NEW r \in Seq(Int), Len(s) = Len(r), \A i \in 1..Len(s) : s[i] = r[i]
  PROVE  s = r
BY SeqEqual

LEMMA Assigned ==
  ASSUME NEW a \in Seq(Int), NEW n \in Nat, n <= Len(a), NEW i \in 1..Len(a), NEW v \in Int
  PROVE  /\ [a EXCEPT ![i] = v] \in Seq(Int) /\ Len([a EXCEPT ![i] = v]) = Len(a)
         /\ i <= n => Shown([a EXCEPT ![i] = v], n) = ReplaceAt(Shown(a, n), i, v)
         /\ i > n => Shown([a EXCEPT ![i] = v], n) = Shown(a, n)
<1> DEFINE b == [a EXCEPT ![i] = v]
<1>1. b \in Seq(Int) /\ Len(b) = Len(a) /\ \A j \in 1..Len(a) : b[j] = IF j = i THEN v ELSE a[j]
  BY ExceptSeq
<1> HIDE DEF b
<1>2. Shown(b, n) \in Seq(Int) /\ Len(Shown(b, n)) = n /\ \A j \in 1..n : Shown(b, n)[j] = b[j]
  BY <1>1, ShownSeq
<1>3. Shown(a, n) \in Seq(Int) /\ Len(Shown(a, n)) = n /\ \A j \in 1..n : Shown(a, n)[j] = a[j]
  BY ShownSeq
<1>4. ASSUME i <= n PROVE Shown(b, n) = ReplaceAt(Shown(a, n), i, v)
  <2> DEFINE s == Shown(a, n)
             r == [s EXCEPT ![i] = v]
  <2>1. r \in Seq(Int) /\ Len(r) = n /\ \A j \in 1..n : r[j] = IF j = i THEN v ELSE s[j]
    BY <1>3, <1>4, ExceptSeq
  <2> HIDE DEF r, s
  <2>2. \A j \in 1..n : Shown(b, n)[j] = r[j]
    <3> TAKE j \in 1..n
    <3>1. j \in 1..Len(a)
      OBVIOUS
    <3>2. Shown(b, n)[j] = b[j] /\ r[j] = (IF j = i THEN v ELSE s[j]) /\ s[j] = a[j]
      BY <1>2, <1>3, <2>1 DEF s
    <3>3. b[j] = IF j = i THEN v ELSE a[j]
      BY <1>1, <3>1
    <3> QED
      BY <3>2, <3>3
  <2>3. Shown(b, n) = r
    BY <1>2, <2>1, <2>2, SameSeq
  <2> QED
    BY <2>3 DEF ReplaceAt, r, s
<1>5. ASSUME i > n PROVE Shown(b, n) = Shown(a, n)
  <2>1. \A j \in 1..n : Shown(b, n)[j] = Shown(a, n)[j]
    <3> TAKE j \in 1..n
    <3>1. j \in 1..Len(a) /\ j # i
      BY <1>5
    <3>2. Shown(b, n)[j] = b[j] /\ Shown(a, n)[j] = a[j]
      BY <1>2, <1>3
    <3> QED
      BY <1>1, <3>1, <3>2
  <2> QED
    BY <1>2, <1>3, <2>1, SameSeq
<1> QED
  BY <1>1, <1>4, <1>5 DEF b

\* Delete: the elements after the one that goes have moved up by one.
LEMMA ShiftedArray ==
  ASSUME NEW a \in Seq(Int), NEW n \in Nat, n <= Len(a), NEW k \in Nat, k < n
  PROVE  /\ Shifted(a, k, n) \in Seq(Int) /\ Len(Shifted(a, k, n)) = Len(a)
         /\ \A i \in 1..(n - 1) : Shifted(a, k, n)[i] = IF i <= k THEN a[i] ELSE a[i + 1]
<1>1. Shifted(a, k, n) = [i \in 1..Len(a) |-> IF i > k /\ i < n THEN a[i + 1] ELSE a[i]]
  BY DEF Shifted
<1>2. \A i \in 1..Len(a) : (IF i > k /\ i < n THEN a[i + 1] ELSE a[i]) \in Int
  BY ElementOfSeq
<1> QED
  BY <1>1, <1>2

LEMMA OneFurther ==
  ASSUME NEW n \in Nat, NEW k \in Nat, NEW p \in Int, p = k + 2, NEW i \in 1..(n - k - 1)
  PROVE  i \in 1..(n - p + 1) /\ p + i - 1 = k + 1 + i
OBVIOUS

LEMMA Removed ==
  ASSUME NEW b \in Seq(Int), NEW s \in Seq(Int), NEW n \in Nat, n <= Len(b), Len(s) = n, NEW k \in Nat, k < n,
         \A i \in 1..(n - 1) : b[i] = IF i <= k THEN s[i] ELSE s[i + 1]
  PROVE  Shown(b, n - 1) = RemoveAt(s, k + 1)
<1> DEFINE f == SubSeq(s, 1, k)
           g == SubSeq(s, k + 2, n)
<1>1. f \in Seq(Int) /\ Len(f) = k /\ \A i \in 1..k : f[i] = s[i]
  BY SubSeqProperties, ElementOfSeq
<1>2. g \in Seq(Int) /\ Len(g) = n - k - 1 /\ \A i \in 1..(n - k - 1) : g[i] = s[k + 1 + i]
  <2>1. PICK p \in 1..(n + 1) : p = k + 2
    OBVIOUS
  <2>2. /\ SubSeq(s, p, n) \in Seq(Int) /\ Len(SubSeq(s, p, n)) = IF p <= n THEN n - p + 1 ELSE 0
        /\ \A i \in 1..(n - p + 1) : SubSeq(s, p, n)[i] = s[p + i - 1]
    <3>1. \A i \in p..n : s[i] \in Int
      BY ElementOfSeq
    <3> QED
      BY <3>1, SubSeqProperties
  <2>3. g = SubSeq(s, p, n)
    BY <2>1
  <2> HIDE DEF f, g
  <2>4. g \in Seq(Int) /\ Len(g) = (IF p <= n THEN n - p + 1 ELSE 0) /\ \A i \in 1..(n - p + 1) : g[i] = s[p + i - 1]
    BY <2>2, <2>3, Zenon
  <2>5. Len(g) = n - k - 1
    BY <2>1, <2>4
  <2>6. ASSUME NEW i \in 1..(n - k - 1) PROVE g[i] = s[k + 1 + i]
    <3>0. p \in Int
      BY <2>1
    <3>1. i \in 1..(n - p + 1) /\ p + i - 1 = k + 1 + i
      BY <2>1, <3>0, OneFurther
    <3>2. g[i] = s[p + i - 1]
      BY <2>4, <3>1, Zenon
    <3> QED
      BY <3>1, <3>2
  <2> QED
    BY <2>4, <2>5, <2>6, Zenon
<1>3. RemoveAt(s, k + 1) = f \o g
  <2>1. (k + 1) - 1 = k /\ (k + 1) + 1 = k + 2
    OBVIOUS
  <2> QED
    BY <2>1, Zenon DEF RemoveAt
<1> HIDE DEF f, g
<1>n. n - 1 \in Nat /\ n - 1 <= Len(b) /\ n - k - 1 \in Nat
  OBVIOUS
<1>4. f \o g \in Seq(Int) /\ Len(f \o g) = n - 1 /\ \A i \in 1..(n - 1) : (f \o g)[i] = IF i <= k THEN f[i] ELSE g[i - k]
  <2>1. f \o g \in Seq(Int) /\ Len(f \o g) = Len(f) + Len(g)
        /\ \A i \in 1..(Len(f) + Len(g)) : (f \o g)[i] = IF i <= Len(f) THEN f[i] ELSE g[i - Len(f)]
    <3>1. f \in Seq(Int) /\ g \in Seq(Int)
      BY <1>1, <1>2, Zenon
    <3> QED
      BY <3>1, ConcatProperties
  <2>2. Len(f) = k /\ Len(g) = n - k - 1
    BY <1>1, <1>2, Zenon
  <2>3. Len(f) + Len(g) = n - 1
    BY <2>2
  <2> QED
    BY <2>1, <2>2, <2>3, Zenon
<1>5. \A i \in 1..(n - 1) : (f \o g)[i] = b[i]
  <2> TAKE i \in 1..(n - 1)
  <2>0. (f \o g)[i] = (IF i <= k THEN f[i] ELSE g[i - k]) /\ b[i] = (IF i <= k THEN s[i] ELSE s[i + 1])
    BY <1>4, Zenon
  <2>1. CASE i <= k
    <3>1. f[i] = s[i]
      BY <1>1, <2>1
    <3> QED
      BY <2>0, <2>1, <3>1, Zenon
  <2>2. CASE ~(i <= k)
    <3>1. i - k \in 1..(n - k - 1) /\ k + 1 + (i - k) = i + 1
      BY <2>2
    <3>2. g[i - k] = s[k + 1 + (i - k)]
      BY <1>2, <3>1, Zenon
    <3> QED
      BY <2>0, <2>2, <3>1, <3>2, Zenon
  <2> QED
    BY <2>1, <2>2
<1>6. Shown(b, n - 1) \in Seq(Int) /\ Len(Shown(b, n - 1)) = n - 1 /\ \A i \in 1..(n - 1) : Shown(b, n - 1)[i] = b[i]
  BY <1>n, ShownSeq
<1>7. Len(f \o g) = Len(Shown(b, n - 1)) /\ \A i \in 1..Len(f \o g) : (f \o g)[i] = Shown(b, n - 1)[i]
  BY <1>4, <1>5, <1>6, Zenon
<1> QED
  BY <1>3, <1>4, <1>6, <1>7, SameSeq, Zenon

\* append: the element follows what was shown.
LEMMA Appended ==
  ASSUME NEW b \in Seq(Int), NEW s \in Seq(Int), NEW v \in Int, Len(b) > Len(s),
         \A i \in 1..Len(s) : b[i] = s[i], b[Len(s) + 1] = v
  PROVE  Shown(b, Len(s) + 1) = Append(s, v)
<1>1. Append(s, v) \in Seq(Int) /\ Len(Append(s, v)) = Len(s) + 1
      /\ (\A i \in 1..Len(s) : Append(s, v)[i] = s[i]) /\ Append(s, v)[Len(s) + 1] = v
  BY AppendProperties
<1>2. /\ Shown(b, Len(s) + 1) \in Seq(Int) /\ Len(Shown(b, Len(s) + 1)) = Len(s) + 1
      /\ \A i \in 1..(Len(s) + 1) : Shown(b, Len(s) + 1)[i] = b[i]
  BY ShownSeq
<1>3. \A i \in 1..(Len(s) + 1) : Shown(b, Len(s) + 1)[i] = Append(s, v)[i]
  BY <1>1, <1>2
<1> QED
  BY <1>1, <1>2, <1>3, SameSeq

\* The larger array: the elements, the new one, and room.
Larger(s, v) == s \o <<v>> \o [i \in 1..Len(s) |-> zero]

LEMMA GrownArray ==
  ASSUME NEW s \in Seq(Int), NEW v \in Int, NEW b, b = Larger(s, v)
  PROVE  b \in Seq(Int) /\ Len(b) > Len(s) /\ (\A i \in 1..Len(s) : b[i] = s[i]) /\ b[Len(s) + 1] = v
<1> DEFINE z == [i \in 1..Len(s) |-> zero]
           w == <<v>>
           m == s \o w
<1>1. z \in Seq(Int) /\ Len(z) = Len(s)
  BY DEF zero
<1>2. w \in Seq(Int) /\ Len(w) = 1 /\ w[1] = v
  OBVIOUS
<1>3. m \in Seq(Int) /\ Len(m) = Len(s) + 1 /\ \A i \in 1..(Len(s) + 1) : m[i] = IF i <= Len(s) THEN s[i] ELSE w[i - Len(s)]
  BY <1>2, ConcatProperties
<1> HIDE DEF z, m, w
<1>4. b = m \o z
  BY DEF m, z, w, Larger
<1>5. m \o z \in Seq(Int) /\ Len(m \o z) = Len(m) + Len(z)
      /\ \A i \in 1..(Len(m) + Len(z)) : (m \o z)[i] = IF i <= Len(m) THEN m[i] ELSE z[i - Len(m)]
  <2>1. m \in Seq(Int) /\ z \in Seq(Int)
    BY <1>1, <1>3, Zenon
  <2> QED
    BY <2>1, ConcatProperties
<1>l. Len(m) = Len(s) + 1 /\ Len(z) = Len(s) /\ Len(s) \in Nat
  BY <1>1, <1>3, Zenon, LenProperties
<1>6. \A i \in 1..(Len(s) + 1) : b[i] = m[i]
  <2> TAKE i \in 1..(Len(s) + 1)
  <2>1. i \in 1..(Len(m) + Len(z)) /\ i <= Len(m)
    BY <1>l
  <2> QED
    BY <1>4, <1>5, <2>1, Zenon
<1>7. \A i \in 1..Len(s) : b[i] = s[i]
  <2> TAKE i \in 1..Len(s)
  <2>1. i \in 1..(Len(s) + 1) /\ i <= Len(s)
    BY <1>l
  <2> QED
    BY <1>3, <1>6, <2>1, Zenon
<1>8. b[Len(s) + 1] = v
  <2>1. PICK j \in 1..(Len(s) + 1) : j = Len(s) + 1
    BY <1>l
  <2>2. m[j] = IF j <= Len(s) THEN s[j] ELSE w[j - Len(s)]
    BY <1>3, Zenon
  <2>3. ~(j <= Len(s)) /\ j - Len(s) = 1
    BY <1>l, <2>1
  <2>4. b[j] = m[j]
    BY <1>6
  <2> QED
    BY <1>2, <2>1, <2>2, <2>3, <2>4
<1>9. Len(b) > Len(s)
  <2>1. Len(b) = Len(m) + Len(z)
    BY <1>4, <1>5, Zenon
  <2> QED
    BY <1>l, <2>1
<1> QED
  BY <1>4, <1>5, <1>7, <1>8, <1>9, Zenon

LEMMA ReversedArray ==
  ASSUME NEW a \in Seq(Int), NEW n \in Nat, n <= Len(a)
  PROVE  /\ Reversed(a, n) \in Seq(Int) /\ Len(Reversed(a, n)) = Len(a)
         /\ Shown(Reversed(a, n), n) = Reverse(Shown(a, n))
<1>1. Reversed(a, n) = [i \in 1..Len(a) |-> IF i <= n THEN a[n + 1 - i] ELSE a[i]]
  BY DEF Reversed
<1>2. \A i \in 1..Len(a) : (IF i <= n THEN a[n + 1 - i] ELSE a[i]) \in Int
  BY ElementOfSeq
<1>3. /\ Reversed(a, n) \in Seq(Int) /\ Len(Reversed(a, n)) = Len(a)
      /\ \A i \in 1..Len(a) : Reversed(a, n)[i] = IF i <= n THEN a[n + 1 - i] ELSE a[i]
  BY <1>1, <1>2
<1>4. Shown(a, n) \in Seq(Int) /\ Len(Shown(a, n)) = n /\ \A i \in 1..n : Shown(a, n)[i] = a[i]
  BY ShownSeq
<1>5. Reverse(Shown(a, n)) = [i \in 1..n |-> Shown(a, n)[(n - i) + 1]]
  BY <1>4 DEF Reverse
<1>6. Shown(Reversed(a, n), n) = [i \in 1..n |-> Reversed(a, n)[i]]
  BY DEF Shown
<1>7. \A i \in 1..n : Reversed(a, n)[i] = Shown(a, n)[(n - i) + 1]
  BY <1>3, <1>4
<1> QED
  BY <1>3, <1>5, <1>6, <1>7

-----------------------------------------------------------------------------
(* The inductive invariant *)

\* What a header shows of the arrays, and a header that points at one of them.
View(h) == Shown(heap[h.arr], h.len)
Points(h) ==
  /\ h \in [arr : Nat, len : Nat]
  /\ h.arr = 0 => h.len = 0
  /\ h.arr # 0 => h.arr \in 1..Len(heap) /\ h.len <= Len(heap[h.arr])

Places == {"idle", "first", "second", "unlock", "miss", "store", "count"}

SharedTypes ==
  /\ shared \in {"slice", "map", "memo", "fields"}
  /\ pc \in [Threads -> Places]
  /\ DOMAIN doing = Threads /\ DOMAIN arg = Threads /\ DOMAIN at = Threads
  /\ DOMAIN got = Threads /\ DOMAIN hold = Threads /\ DOMAIN left = Threads

\* A goroutine under way has the lock, a writer alone.
LockInv ==
  /\ writer \in Threads \cup {Nobody} /\ readers \subseteq Threads
  /\ writer # Nobody => readers = {}
  /\ \A t \in Threads : pc[t] # "idle" <=> t = writer \/ t \in readers
  /\ \A t \in Threads : t = writer => doing[t] \in Writers
  /\ \A t \in Threads : t \in readers => doing[t] \in Readers \cup {"Invert"}
  /\ answers = {}

\* Where a goroutine's operation on the slice stands: before its first step, between its two,
\* and after the last.
SliceBegun(t) == pc[t] = "first" => View(header) = at[t] /\ arg[t] \in Int
SliceRead(t) == pc[t] = "second" /\ doing[t] \in Readers =>
  /\ hold[t] = header /\ View(header) = at[t]
  /\ doing[t] \in {"Get", "GetOK"} => arg[t] \in 0..(header.len - 1)
SliceCut(t) == pc[t] = "second" /\ doing[t] = "Delete" =>
  /\ arg[t] \in 0..(header.len - 1)
  /\ at[t] \in Seq(Int) /\ Len(at[t]) = header.len
  /\ \A i \in 1..(header.len - 1) : heap[header.arr][i] = IF i <= arg[t] THEN at[t][i] ELSE at[t][i + 1]
SliceGrown(t) == pc[t] = "second" /\ doing[t] = "Append" =>
  /\ Points(hold[t]) /\ hold[t].arr # 0
  /\ \A s \in shots : s.ref.arr # hold[t].arr
  /\ View(hold[t]) = Append(at[t], t)
SliceDone(t) == pc[t] = "unlock" =>
  /\ View(header) = SliceEffect(doing[t], arg[t], at[t], t)
  /\ got[t] \in SliceResults(doing[t], arg[t], at[t])
SliceThread(t) ==
  /\ pc[t] \in {"idle", "first", "second", "unlock"}
  /\ pc[t] = "second" => doing[t] \in Readers \cup {"Delete", "Append"}
  /\ pc[t] # "idle" => doing[t] # "Invert"
  /\ SliceBegun(t) /\ SliceRead(t) /\ SliceCut(t) /\ SliceGrown(t) /\ SliceDone(t)

\* A snapshot has an array of its own.
ShotsKept == \A s \in shots :
  /\ Points(s.ref) /\ s.ref.arr # 0 /\ s.ref.arr # header.arr
  /\ View(s.ref) = s.val

SliceInv ==
  /\ heap \in Seq(Seq(Int)) /\ Points(header)
  /\ ShotsKept
  /\ \A t \in Threads : SliceThread(t)

MapThread(t) ==
  /\ pc[t] \in {"idle", "first", "unlock"}
  /\ pc[t] = "first" => heap[1] = at[t]
  /\ pc[t] # "idle" /\ doing[t] \in Writers => doing[t] \in MapWrites
  /\ pc[t] = "unlock" =>
       /\ heap[1] = MapEffect(doing[t], arg[t], at[t], t)
       /\ got[t] \in MapResults(doing[t], arg[t], at[t])

MapInv ==
  /\ heap \in Seq(Range(heap)) /\ Len(heap) > 0
  /\ header = [arr |-> 1, len |-> 0]
  /\ \A s \in shots : s.ref.arr \in 2..Len(heap) /\ heap[s.ref.arr] = s.val
  /\ made \in BOOLEAN /\ guarded \in BOOLEAN
  /\ made = FALSE => heap[1] = nilMap
  /\ \A t \in Threads : MapThread(t)

\* The goroutines that are about to store, and those that have stored and not counted.
Storing == {t \in Threads : pc[t] = "store"}
Counting == {t \in Threads : pc[t] = "count"}

CacheInv ==
  /\ IsFiniteSet(DOMAIN data)
  /\ \A k \in DOMAIN data : data[k] = Truth(k)
  /\ \A a \in answers : a[2] = Truth(a[1])
  /\ \A t \in Threads : pc[t] \in {"idle", "miss", "store", "count"}
  /\ shared = "memo" => Cardinality(DOMAIN data) <= Ceiling
  /\ shared = "fields" =>
       /\ count = Cardinality(DOMAIN data) - Cardinality(Counting)
       /\ Cardinality(DOMAIN data) + Cardinality(Storing) <= Ceiling + Cardinality(Threads) - 1

SharedInv ==
  /\ SharedTypes
  /\ shared \in {"slice", "map"} => LockInv
  /\ shared = "slice" => SliceInv
  /\ shared = "map" => MapInv
  /\ shared \in {"memo", "fields"} => CacheInv

-----------------------------------------------------------------------------
(* What an operation of a sequential program leaves and gives *)

LEMMA EffectOfRead ==
  ASSUME NEW o \in Readers, NEW k, NEW s, NEW t
  PROVE  SliceEffect(o, k, s, t) = s
BY DEF SliceEffect, Readers

LEMMA ResultOfRead ==
  ASSUME NEW o \in Readers, NEW k, NEW s, o \in {"Get", "GetOK"} => 0 <= k /\ k < Len(s)
  PROVE  SliceResults(o, k, s) = {Read(o, k, s)}
BY DEF SliceResults, Readers

LEMMA ResultOfSnapshot ==
  ASSUME NEW k, NEW s
  PROVE  Read("Snapshot", k, s) = s
BY DEF Read

LEMMA EffectOutside ==
  ASSUME NEW o \in {"Get", "GetOK", "Set", "SetOK", "Delete"}, NEW k, NEW s, NEW t, ~(0 <= k /\ k < Len(s))
  PROVE  /\ SliceEffect(o, k, s, t) = s
         /\ o \in {"Get", "Set"} => <<"panic">> \in SliceResults(o, k, s)
         /\ o \notin {"Get", "Set"} => <<FALSE>> \in SliceResults(o, k, s)
<1>1. SliceEffect(o, k, s, t) = s
  BY DEF SliceEffect
<1>2. CASE o \in {"Get", "Set"}
  <2>1. SliceResults(o, k, s) = {<<"panic">>}
    BY <1>2 DEF SliceResults, Readers
  <2> QED
    BY <1>1, <1>2, <2>1
<1>3. CASE o \notin {"Get", "Set"}
  <2>1. SliceResults(o, k, s) = {<<FALSE>>}
    BY <1>3 DEF SliceResults, Readers
  <2> QED
    BY <1>1, <1>3, <2>1
<1> QED
  BY <1>2, <1>3

LEMMA EffectOfSet ==
  ASSUME NEW o \in {"Set", "SetOK"}, NEW k, NEW s, NEW t, 0 <= k /\ k < Len(s)
  PROVE  SliceEffect(o, k, s, t) = ReplaceAt(s, k + 1, t) /\ <<TRUE>> \in SliceResults(o, k, s)
BY DEF SliceEffect, SliceResults, Readers

LEMMA EffectOfDelete ==
  ASSUME NEW k, NEW s, NEW t, 0 <= k /\ k < Len(s)
  PROVE  SliceEffect("Delete", k, s, t) = RemoveAt(s, k + 1) /\ <<TRUE>> \in SliceResults("Delete", k, s)
BY DEF SliceEffect, SliceResults, Readers

LEMMA EffectOfAppend ==
  ASSUME NEW k, NEW s, NEW t
  PROVE  SliceEffect("Append", k, s, t) = Append(s, t) /\ <<>> \in SliceResults("Append", k, s)
BY DEF SliceEffect, SliceResults, Readers

LEMMA EffectOfDo ==
  ASSUME NEW k, NEW s, NEW t
  PROVE  SliceEffect("Do", k, s, t) = Reverse(s) /\ <<TRUE>> \in SliceResults("Do", k, s)
BY DEF SliceEffect, SliceResults, Readers

-----------------------------------------------------------------------------
(* Headers and views *)

LEMMA ViewSeq ==
  ASSUME heap \in Seq(Seq(Int)), NEW h, Points(h)
  PROVE  View(h) \in Seq(Int) /\ Len(View(h)) = h.len
<1>1. CASE h.arr = 0
  <2>1. h.len = 0
    BY <1>1 DEF Points
  <2>2. View(h) = <<>>
    BY <2>1, NothingShown DEF View
  <2> QED
    BY <2>1, <2>2
<1>2. CASE h.arr # 0
  <2>1. heap[h.arr] \in Seq(Int) /\ h.len \in Nat /\ h.len <= Len(heap[h.arr])
    BY <1>2, ElementOfSeq DEF Points
  <2> QED
    BY <2>1, ShownSeq DEF View
<1> QED
  BY <1>1, <1>2

\* Contents is what the header shows.
LEMMA ContentsOfSlice ==
  ASSUME shared = "slice", NEW h
  PROVE  Contents(h) = View(h)
BY DEF Contents, View, Shown

-----------------------------------------------------------------------------
(* Who has the lock, and whom a step leaves alone *)

LEMMA WriterAlone ==
  ASSUME SharedTypes, LockInv, NEW t \in Threads, pc[t] # "idle", doing[t] \in Writers
  PROVE  t = writer /\ \A u \in Threads : u # t => pc[u] = "idle"
<1>1. doing[t] \notin Readers \cup {"Invert"}
  BY DEF Readers, Writers
<1>2. t = writer
  BY <1>1 DEF LockInv
<1>3. writer # Nobody
  BY <1>2, SharedAssumption
<1> QED
  BY <1>2, <1>3 DEF LockInv

LEMMA ReadersTogether ==
  ASSUME SharedTypes, LockInv, NEW t \in Threads, pc[t] # "idle", doing[t] \in Readers \cup {"Invert"}
  PROVE  \A u \in Threads : pc[u] # "idle" => doing[u] \in Readers \cup {"Invert"}
<1>1. doing[t] \notin Writers
  BY DEF Readers, Writers
<1>2. t \in readers
  BY <1>1 DEF LockInv
<1>3. writer = Nobody
  BY <1>2 DEF LockInv
<1>4. \A u \in Threads : u # writer
  BY <1>3, SharedAssumption
<1> QED
  BY <1>4 DEF LockInv

\* A step of one under way.
LEMMA LockKept ==
  ASSUME SharedTypes, LockInv, NEW t \in Threads, pc[t] \in {"first", "second"}, NEW w \in {"second", "unlock"},
         pc' = [pc EXCEPT ![t] = w], UNCHANGED <<shared, lockVars, opVars, answers>>,
         DOMAIN got' = Threads, DOMAIN hold' = Threads
  PROVE  SharedTypes' /\ LockInv'
<1>1. SharedTypes'
  BY DEF SharedTypes, opVars, Places
<1>2. \A u \in Threads : pc'[u] # "idle" <=> pc[u] # "idle"
  BY DEF SharedTypes
<1>3. LockInv'
  BY <1>2 DEF LockInv, lockVars, opVars
<1> QED
  BY <1>1, <1>3

\* Those at rest, and those whose slice and state stay as they are.
LEMMA AtRest ==
  ASSUME NEW u \in Threads, pc'[u] = "idle"
  PROVE  SliceThread(u)'
BY DEF SliceThread, SliceBegun, SliceRead, SliceCut, SliceGrown, SliceDone

LEMMA LeftAlone ==
  ASSUME NEW u \in Threads, SliceThread(u), UNCHANGED <<heap, header, shots>>,
         pc'[u] = pc[u], doing'[u] = doing[u], arg'[u] = arg[u], at'[u] = at[u], got'[u] = got[u], hold'[u] = hold[u]
  PROVE  SliceThread(u)'
BY DEF SliceThread, SliceBegun, SliceRead, SliceCut, SliceGrown, SliceDone, View, Points

\* A writer's step.
LEMMA Alone ==
  ASSUME SharedInv, shared = "slice", NEW t \in Threads, pc[t] \in {"first", "second"}, doing[t] \in Writers,
         NEW w \in {"second", "unlock"}, pc' = [pc EXCEPT ![t] = w], UNCHANGED <<shared, lockVars, opVars, answers>>,
         DOMAIN got' = Threads, DOMAIN hold' = Threads,
         heap' \in Seq(Seq(Int)), Points(header)', ShotsKept', SliceThread(t)'
  PROVE  SharedInv'
<1>1. SharedTypes /\ LockInv
  BY DEF SharedInv
<1>2. SharedTypes' /\ LockInv'
  BY <1>1, LockKept
<1>3. \A u \in Threads : u # t => pc'[u] = "idle"
  BY <1>1, WriterAlone DEF SharedTypes
<1>4. \A u \in Threads : SliceThread(u)'
  BY <1>3, AtRest
<1> QED
  BY <1>2, <1>4 DEF SharedInv, SliceInv

\* A step that leaves the slice.
LEMMA Together ==
  ASSUME SharedInv, shared = "slice", NEW t \in Threads, pc[t] \in {"first", "second"},
         NEW w \in {"second", "unlock"}, pc' = [pc EXCEPT ![t] = w], UNCHANGED <<shared, lockVars, opVars, answers>>,
         UNCHANGED <<heap, header, shots>>, DOMAIN got' = Threads, DOMAIN hold' = Threads,
         \A u \in Threads : u # t => got'[u] = got[u] /\ hold'[u] = hold[u], SliceThread(t)'
  PROVE  SharedInv'
<1>1. SharedTypes /\ LockInv /\ SliceInv
  BY DEF SharedInv
<1>2. SharedTypes' /\ LockInv'
  BY <1>1, LockKept
<1>3. \A u \in Threads : u # t => SliceThread(u)'
  <2> SUFFICES ASSUME NEW u \in Threads, u # t PROVE SliceThread(u)'
    OBVIOUS
  <2>1. pc'[u] = pc[u] /\ doing'[u] = doing[u] /\ arg'[u] = arg[u] /\ at'[u] = at[u] /\ got'[u] = got[u] /\ hold'[u] = hold[u]
    BY <1>1 DEF SharedTypes, opVars
  <2>2. SliceThread(u)
    BY <1>1 DEF SliceInv
  <2> QED
    BY <2>1, <2>2, LeftAlone
<1>4. (heap \in Seq(Seq(Int)))' /\ Points(header)' /\ ShotsKept'
  BY <1>1 DEF SliceInv, Points, ShotsKept, View
<1> QED
  BY <1>2, <1>3, <1>4 DEF SharedInv, SliceInv

LEMMA ThreadDone ==
  ASSUME NEW t \in Threads, pc'[t] = "unlock", doing'[t] # "Invert",
         View(header)' = SliceEffect(doing'[t], arg'[t], at'[t], t),
         got'[t] \in SliceResults(doing'[t], arg'[t], at'[t])
  PROVE  SliceThread(t)'
<1>1. SliceDone(t)'
  BY DEF SliceDone
<1> QED
  BY <1>1 DEF SliceThread, SliceBegun, SliceRead, SliceCut, SliceGrown

\* What is known of one that is at its first step.
LEMMA Beginning ==
  ASSUME SharedInv, shared = "slice", NEW t \in Threads, pc[t] = "first"
  PROVE  /\ SharedTypes /\ LockInv /\ heap \in Seq(Seq(Int)) /\ Points(header) /\ ShotsKept
         /\ View(header) = at[t] /\ at[t] \in Seq(Int) /\ Len(at[t]) = header.len
         /\ arg[t] \in Int /\ header.len \in Nat /\ doing[t] # "Invert"
<1>1. SharedTypes /\ LockInv /\ SliceInv
  BY DEF SharedInv
<1>2. heap \in Seq(Seq(Int)) /\ Points(header) /\ ShotsKept /\ SliceThread(t)
  BY <1>1 DEF SliceInv
<1>3. View(header) = at[t] /\ arg[t] \in Int /\ doing[t] # "Invert"
  BY <1>2 DEF SliceThread, SliceBegun
<1>4. at[t] \in Seq(Int) /\ Len(at[t]) = header.len
  BY <1>2, <1>3, ViewSeq
<1>5. header.len \in Nat
  BY <1>2 DEF Points
<1> QED
  BY <1>1, <1>2, <1>3, <1>4, <1>5

\* The steps that end an operation, and those that go on, in the shape of the lemmas above.
LEMMA EndsStep ==
  ASSUME SharedTypes, NEW t \in Threads, NEW r, Ends(t, r)
  PROVE  /\ pc' = [pc EXCEPT ![t] = "unlock"] /\ UNCHANGED <<shared, lockVars, opVars, answers>>
         /\ DOMAIN got' = Threads /\ DOMAIN hold' = Threads
         /\ \A u \in Threads : u # t => got'[u] = got[u] /\ hold'[u] = hold[u]
         /\ pc'[t] = "unlock" /\ got'[t] = r /\ doing' = doing /\ arg' = arg /\ at' = at
<1>1. pc' = [pc EXCEPT ![t] = "unlock"] /\ got' = [got EXCEPT ![t] = r] /\ hold' = hold
      /\ UNCHANGED <<shared, lockVars, opVars, answers>>
  BY DEF Ends, cacheVars
<1>2. doing' = doing /\ arg' = arg /\ at' = at
  BY <1>1 DEF opVars
<1>3. \A u \in Threads : u # t => got'[u] = got[u] /\ hold'[u] = hold[u]
  BY <1>1 DEF SharedTypes
<1>4. DOMAIN got' = Threads /\ DOMAIN hold' = Threads /\ pc'[t] = "unlock" /\ got'[t] = r
  BY <1>1 DEF SharedTypes
<1> QED
  BY <1>1, <1>2, <1>3, <1>4

LEMMA GoesStep ==
  ASSUME SharedTypes, NEW t \in Threads, NEW h, Goes(t, h)
  PROVE  /\ pc' = [pc EXCEPT ![t] = "second"] /\ UNCHANGED <<shared, lockVars, opVars, answers>>
         /\ DOMAIN got' = Threads /\ DOMAIN hold' = Threads
         /\ \A u \in Threads : u # t => got'[u] = got[u] /\ hold'[u] = hold[u]
         /\ pc'[t] = "second" /\ hold'[t] = h /\ doing' = doing /\ arg' = arg /\ at' = at
<1>1. pc' = [pc EXCEPT ![t] = "second"] /\ hold' = [hold EXCEPT ![t] = h] /\ got' = got
      /\ UNCHANGED <<shared, lockVars, opVars, answers>>
  BY DEF Goes, cacheVars
<1>2. doing' = doing /\ arg' = arg /\ at' = at
  BY <1>1 DEF opVars
<1>3. \A u \in Threads : u # t => got'[u] = got[u] /\ hold'[u] = hold[u]
  BY <1>1 DEF SharedTypes
<1>4. DOMAIN got' = Threads /\ DOMAIN hold' = Threads /\ pc'[t] = "second" /\ hold'[t] = h
  BY <1>1 DEF SharedTypes
<1> QED
  BY <1>1, <1>2, <1>3, <1>4

-----------------------------------------------------------------------------
(* The steps of the slice *)

LEMMA RefuseStep ==
  ASSUME SharedInv, shared = "slice", NEW t \in Threads, Refuse(t)
  PROVE  SharedInv'
<1>1. pc[t] = "first" /\ doing[t] \in {"Get", "GetOK", "Set", "SetOK", "Delete"} /\ ~InRange(arg[t])
      /\ Ends(t, IF doing[t] \in {"Get", "Set"} THEN <<"panic">> ELSE <<FALSE>>) /\ UNCHANGED <<heap, header, shots>>
  BY DEF Refuse, Holds, valueVars
<1>2. PICK r : r = IF doing[t] \in {"Get", "Set"} THEN <<"panic">> ELSE <<FALSE>>
  OBVIOUS
<1>3. SharedTypes /\ View(header) = at[t] /\ Len(at[t]) = header.len /\ doing[t] # "Invert"
  BY <1>1, Beginning
<1>4. Ends(t, r)
  BY <1>1, <1>2
<1>5. /\ pc' = [pc EXCEPT ![t] = "unlock"] /\ UNCHANGED <<shared, lockVars, opVars, answers>>
      /\ DOMAIN got' = Threads /\ DOMAIN hold' = Threads
      /\ (\A u \in Threads : u # t => got'[u] = got[u] /\ hold'[u] = hold[u])
      /\ pc'[t] = "unlock" /\ got'[t] = r /\ doing' = doing /\ arg' = arg /\ at' = at
  BY <1>3, <1>4, EndsStep
<1>6. ~(0 <= arg[t] /\ arg[t] < Len(at[t]))
  BY <1>1, <1>3 DEF InRange
<1>7. SliceEffect(doing[t], arg[t], at[t], t) = at[t] /\ r \in SliceResults(doing[t], arg[t], at[t])
  <2>1. /\ SliceEffect(doing[t], arg[t], at[t], t) = at[t]
        /\ doing[t] \in {"Get", "Set"} => <<"panic">> \in SliceResults(doing[t], arg[t], at[t])
        /\ doing[t] \notin {"Get", "Set"} => <<FALSE>> \in SliceResults(doing[t], arg[t], at[t])
    <3>1. doing[t] \in {"Get", "GetOK", "Set", "SetOK", "Delete"}
      BY <1>1
    <3> QED
      BY <3>1, <1>6, EffectOutside, SMTT(40)
  <2> QED
    BY <1>2, <2>1
<1>8. View(header)' = View(header)
  BY <1>1 DEF View
<1>9. SliceThread(t)'
  BY <1>3, <1>5, <1>7, <1>8, ThreadDone
<1> QED
  BY <1>1, <1>5, <1>9, Together

LEMMA TakeHeaderStep ==
  ASSUME SharedInv, shared = "slice", NEW t \in Threads, TakeHeader(t)
  PROVE  SharedInv'
<1>1. pc[t] = "first" /\ doing[t] \in Readers /\ (doing[t] \in {"Get", "GetOK"} => InRange(arg[t]))
      /\ Goes(t, header) /\ UNCHANGED <<heap, header, shots>>
  BY DEF TakeHeader, Holds, valueVars
<1>2. SharedTypes /\ View(header) = at[t] /\ doing[t] # "Invert" /\ arg[t] \in Int /\ header.len \in Nat
  BY <1>1, Beginning
<1>3. /\ pc' = [pc EXCEPT ![t] = "second"] /\ UNCHANGED <<shared, lockVars, opVars, answers>>
      /\ DOMAIN got' = Threads /\ DOMAIN hold' = Threads
      /\ (\A u \in Threads : u # t => got'[u] = got[u] /\ hold'[u] = hold[u])
      /\ pc'[t] = "second" /\ hold'[t] = header /\ doing' = doing /\ arg' = arg /\ at' = at
  BY <1>1, <1>2, GoesStep
<1>4. doing[t] \in {"Get", "GetOK"} => arg[t] \in 0..(header.len - 1)
  BY <1>1, <1>2 DEF InRange
<1>5. SliceRead(t)'
  BY <1>1, <1>2, <1>3, <1>4 DEF SliceRead, View
<1>6. SliceThread(t)'
  BY <1>1, <1>2, <1>3, <1>5 DEF SliceThread, SliceBegun, SliceCut, SliceGrown, SliceDone, Readers
<1> QED
  BY <1>1, <1>3, <1>6, Together

LEMMA LookStep ==
  ASSUME SharedInv, shared = "slice", NEW t \in Threads, Look(t)
  PROVE  SharedInv'
<1>1. pc[t] = "second" /\ doing[t] \in Readers /\ UNCHANGED <<heap, header, shots>>
      /\ Ends(t, Read(doing[t], arg[t], Contents(hold[t])))
  BY DEF Look, Holds, valueVars
<1>2. SharedTypes /\ SliceInv
  BY DEF SharedInv
<1>3. SliceThread(t) /\ heap \in Seq(Seq(Int)) /\ Points(header)
  BY <1>2 DEF SliceInv
<1>4. hold[t] = header /\ View(header) = at[t] /\ (doing[t] \in {"Get", "GetOK"} => arg[t] \in 0..(header.len - 1))
  BY <1>1, <1>3 DEF SliceThread, SliceRead
<1>5. Len(at[t]) = header.len /\ header.len \in Nat
  BY <1>3, <1>4, ViewSeq DEF Points
<1>6. Contents(hold[t]) = at[t]
  BY <1>4, ContentsOfSlice
<1>7. PICK r : r = Read(doing[t], arg[t], at[t])
  OBVIOUS
<1>8. Ends(t, r)
  BY <1>1, <1>6, <1>7
<1>9. /\ pc' = [pc EXCEPT ![t] = "unlock"] /\ UNCHANGED <<shared, lockVars, opVars, answers>>
      /\ DOMAIN got' = Threads /\ DOMAIN hold' = Threads
      /\ (\A u \in Threads : u # t => got'[u] = got[u] /\ hold'[u] = hold[u])
      /\ pc'[t] = "unlock" /\ got'[t] = r /\ doing' = doing /\ arg' = arg /\ at' = at
  BY <1>2, <1>8, EndsStep
<1>10. doing[t] \in {"Get", "GetOK"} => 0 <= arg[t] /\ arg[t] < Len(at[t])
  BY <1>4, <1>5
<1>11. SliceEffect(doing[t], arg[t], at[t], t) = at[t] /\ r \in SliceResults(doing[t], arg[t], at[t])
  BY <1>1, <1>7, <1>10, EffectOfRead, ResultOfRead
<1>12. View(header)' = View(header) /\ doing[t] # "Invert"
  BY <1>1 DEF View, Readers
<1>13. SliceThread(t)'
  BY <1>4, <1>9, <1>11, <1>12, ThreadDone
<1> QED
  BY <1>1, <1>9, <1>13, Together

\* A write in the slice's own array.
LEMMA ArrayWritten ==
  ASSUME heap \in Seq(Seq(Int)), Points(header), header.arr # 0, ShotsKept, NEW b \in Seq(Int),
         heap' = [heap EXCEPT ![header.arr] = b], Len(b) = Len(heap[header.arr]),
         header' \in [arr : Nat, len : Nat], header'.arr = header.arr, header'.len <= Len(b), shots' = shots
  PROVE  heap' \in Seq(Seq(Int)) /\ heap'[header.arr] = b /\ Points(header)' /\ ShotsKept'
<1>1. header.arr \in 1..Len(heap)
  BY DEF Points
<1>2. heap' \in Seq(Seq(Int)) /\ Len(heap') = Len(heap) /\ heap'[header.arr] = b
      /\ \A i \in 1..Len(heap) : i # header.arr => heap'[i] = heap[i]
  BY <1>1, ExceptSeq
<1>3. Points(header)'
  BY <1>1, <1>2 DEF Points
<1>4. ShotsKept'
  <2> SUFFICES ASSUME NEW s \in shots
               PROVE  Points(s.ref)' /\ s.ref.arr # 0 /\ s.ref.arr # header'.arr /\ View(s.ref)' = s.val
    BY DEF ShotsKept
  <2>1. Points(s.ref) /\ s.ref.arr # 0 /\ s.ref.arr # header.arr /\ View(s.ref) = s.val
    BY DEF ShotsKept
  <2>2. s.ref.arr \in 1..Len(heap)
    BY <2>1 DEF Points
  <2>3. heap'[s.ref.arr] = heap[s.ref.arr]
    BY <1>2, <2>1, <2>2
  <2> QED
    BY <1>2, <2>1, <2>3 DEF Points, View
<1> QED
  BY <1>2, <1>3, <1>4

LEMMA AssignStep ==
  ASSUME SharedInv, shared = "slice", NEW t \in Threads, Assign(t)
  PROVE  SharedInv'
<1>1. pc[t] = "first" /\ doing[t] \in {"Set", "SetOK"} /\ InRange(arg[t])
      /\ heap' = [heap EXCEPT ![header.arr] = [heap[header.arr] EXCEPT ![arg[t] + 1] = t]]
      /\ Ends(t, <<TRUE>>) /\ header' = header /\ shots' = shots
  BY DEF Assign, Holds
<1>2. /\ SharedTypes /\ LockInv /\ heap \in Seq(Seq(Int)) /\ Points(header) /\ ShotsKept
      /\ View(header) = at[t] /\ at[t] \in Seq(Int) /\ Len(at[t]) = header.len
      /\ arg[t] \in Int /\ header.len \in Nat /\ doing[t] # "Invert"
  BY <1>1, Beginning
<1>3. 0 <= arg[t] /\ arg[t] < header.len
  BY <1>1 DEF InRange
<1>4. header.arr # 0 /\ header.arr \in 1..Len(heap) /\ header.len <= Len(heap[header.arr]) /\ header \in [arr : Nat, len : Nat]
  BY <1>2, <1>3 DEF Points
<1>5. PICK a \in Seq(Int) : a = heap[header.arr]
  BY <1>2, <1>4, ElementOfSeq
<1>6. PICK b : b = [a EXCEPT ![arg[t] + 1] = t]
  OBVIOUS
<1>7. arg[t] + 1 \in 1..Len(a) /\ header.len <= Len(a) /\ t \in Int /\ arg[t] + 1 <= header.len
  <2>1. t \in Int
    BY SharedAssumption
  <2>2. header.len <= Len(a) /\ Len(a) \in Nat
    BY <1>4, <1>5
  <2>3. arg[t] \in Int /\ header.len \in Nat
    BY <1>2
  <2> QED
    BY <1>3, <2>1, <2>2, <2>3
<1>8. b \in Seq(Int) /\ Len(b) = Len(a) /\ Shown(b, header.len) = ReplaceAt(Shown(a, header.len), arg[t] + 1, t)
  BY <1>2, <1>6, <1>7, Assigned
<1>9. heap' = [heap EXCEPT ![header.arr] = b]
  BY <1>1, <1>5, <1>6
<1>10. heap' \in Seq(Seq(Int)) /\ heap'[header.arr] = b /\ Points(header)' /\ ShotsKept'
  BY <1>1, <1>2, <1>4, <1>5, <1>7, <1>8, <1>9, ArrayWritten
<1>11. /\ pc' = [pc EXCEPT ![t] = "unlock"] /\ UNCHANGED <<shared, lockVars, opVars, answers>>
       /\ DOMAIN got' = Threads /\ DOMAIN hold' = Threads
       /\ pc'[t] = "unlock" /\ got'[t] = <<TRUE>> /\ doing' = doing /\ arg' = arg /\ at' = at
  BY <1>1, <1>2, EndsStep
<1>12. View(header)' = ReplaceAt(at[t], arg[t] + 1, t)
  BY <1>1, <1>2, <1>5, <1>8, <1>10 DEF View
<1>13. SliceEffect(doing[t], arg[t], at[t], t) = ReplaceAt(at[t], arg[t] + 1, t)
       /\ <<TRUE>> \in SliceResults(doing[t], arg[t], at[t])
  <2>1. 0 <= arg[t] /\ arg[t] < Len(at[t])
    BY <1>2, <1>3
  <2> QED
    BY <1>1, <2>1, EffectOfSet
<1>14. SliceThread(t)'
  BY <1>2, <1>11, <1>12, <1>13, ThreadDone
<1>15. doing[t] \in Writers
  BY <1>1 DEF Writers
<1> QED
  BY <1>1, <1>10, <1>11, <1>14, <1>15, Alone

LEMMA ShiftStep ==
  ASSUME SharedInv, shared = "slice", NEW t \in Threads, Shift(t)
  PROVE  SharedInv'
<1>1. pc[t] = "first" /\ doing[t] = "Delete" /\ InRange(arg[t])
      /\ heap' = [heap EXCEPT ![header.arr] = Shifted(heap[header.arr], arg[t], header.len)]
      /\ Goes(t, header) /\ header' = header /\ shots' = shots
  BY DEF Shift, Holds
<1>2. /\ SharedTypes /\ LockInv /\ heap \in Seq(Seq(Int)) /\ Points(header) /\ ShotsKept
      /\ View(header) = at[t] /\ at[t] \in Seq(Int) /\ Len(at[t]) = header.len
      /\ arg[t] \in Int /\ header.len \in Nat
  BY <1>1, Beginning
<1>3. arg[t] \in Nat /\ arg[t] < header.len
  BY <1>1, <1>2 DEF InRange
<1>4. header.arr # 0 /\ header.arr \in 1..Len(heap) /\ header.len <= Len(heap[header.arr]) /\ header \in [arr : Nat, len : Nat]
  BY <1>2, <1>3 DEF Points
<1>5. PICK a \in Seq(Int) : a = heap[header.arr]
  BY <1>2, <1>4, ElementOfSeq
<1>6. PICK b : b = Shifted(a, arg[t], header.len)
  OBVIOUS
<1>7. header.len <= Len(a) /\ Len(a) \in Nat
  BY <1>4, <1>5
<1>8. /\ b \in Seq(Int) /\ Len(b) = Len(a)
      /\ \A i \in 1..(header.len - 1) : b[i] = IF i <= arg[t] THEN a[i] ELSE a[i + 1]
  <2>1. header.len \in Nat /\ header.len <= Len(a) /\ arg[t] \in Nat /\ arg[t] < header.len
    BY <1>2, <1>3, <1>7
  <2>2. PICK k \in Nat, n \in Nat : k = arg[t] /\ n = header.len
    BY <2>1
  <2>3. n <= Len(a) /\ k < n
    BY <2>1, <2>2
  <2>4. /\ Shifted(a, k, n) \in Seq(Int) /\ Len(Shifted(a, k, n)) = Len(a)
        /\ \A i \in 1..(n - 1) : Shifted(a, k, n)[i] = IF i <= k THEN a[i] ELSE a[i + 1]
    BY <2>3, ShiftedArray
  <2> QED
    BY <1>6, <2>2, <2>4, Zenon
<1>9. heap' = [heap EXCEPT ![header.arr] = b]
  BY <1>1, <1>5, <1>6
<1>10. heap' \in Seq(Seq(Int)) /\ heap'[header.arr] = b /\ Points(header)' /\ ShotsKept'
  BY <1>1, <1>2, <1>4, <1>5, <1>7, <1>8, <1>9, ArrayWritten
<1>11. /\ pc' = [pc EXCEPT ![t] = "second"] /\ UNCHANGED <<shared, lockVars, opVars, answers>>
       /\ DOMAIN got' = Threads /\ DOMAIN hold' = Threads
       /\ pc'[t] = "second" /\ doing' = doing /\ arg' = arg /\ at' = at
  BY <1>1, <1>2, GoesStep
<1>12. \A i \in 1..header.len : at[t][i] = a[i]
  <2>1. at[t] = Shown(a, header.len) /\ header.len \in Nat
    BY <1>2, <1>5 DEF View
  <2> QED
    BY <1>7, <2>1, ShownSeq
<1>13. \A i \in 1..(header.len - 1) : heap'[header.arr][i] = IF i <= arg[t] THEN at[t][i] ELSE at[t][i + 1]
  <2> TAKE i \in 1..(header.len - 1)
  <2>1. i \in 1..header.len /\ i + 1 \in 1..header.len
    BY <1>2
  <2>2. at[t][i] = a[i] /\ at[t][i + 1] = a[i + 1]
    BY <1>12, <2>1
  <2>3. heap'[header.arr][i] = IF i <= arg[t] THEN a[i] ELSE a[i + 1]
    BY <1>8, <1>10, Zenon
  <2> QED
    BY <2>2, <2>3, Zenon
<1>14. arg[t] \in 0..(header.len - 1)
  BY <1>2, <1>3
<1>15. SliceCut(t)'
  BY <1>1, <1>2, <1>11, <1>13, <1>14 DEF SliceCut
<1>16. SliceThread(t)'
  BY <1>1, <1>11, <1>15 DEF SliceThread, SliceBegun, SliceRead, SliceGrown, SliceDone, Readers
<1>17. doing[t] \in Writers
  BY <1>1 DEF Writers
<1> QED
  BY <1>1, <1>10, <1>11, <1>16, <1>17, Alone

LEMMA ShortenStep ==
  ASSUME SharedInv, shared = "slice", NEW t \in Threads, Shorten(t)
  PROVE  SharedInv'
<1>1. pc[t] = "second" /\ doing[t] = "Delete"
      /\ heap' = [heap EXCEPT ![header.arr] = [heap[header.arr] EXCEPT ![header.len] = 0]]
      /\ header' = [header EXCEPT !.len = header.len - 1]
      /\ Ends(t, <<TRUE>>) /\ shots' = shots
  BY DEF Shorten, Holds, zero
<1>2. SharedTypes /\ LockInv /\ SliceInv
  BY DEF SharedInv
<1>3. SliceThread(t) /\ heap \in Seq(Seq(Int)) /\ Points(header) /\ ShotsKept
  BY <1>2 DEF SliceInv
<1>4. /\ arg[t] \in 0..(header.len - 1) /\ at[t] \in Seq(Int) /\ Len(at[t]) = header.len
      /\ \A i \in 1..(header.len - 1) : heap[header.arr][i] = IF i <= arg[t] THEN at[t][i] ELSE at[t][i + 1]
  BY <1>1, <1>3 DEF SliceThread, SliceCut
<1>5. header \in [arr : Nat, len : Nat] /\ header.len \in Nat
  BY <1>3 DEF Points
<1>6. PICK k \in Nat, n \in Nat : k = arg[t] /\ n = header.len
  BY <1>4, <1>5
<1>7. k < n /\ n - 1 \in Nat
  BY <1>4, <1>6
<1>8. header.arr # 0 /\ header.arr \in 1..Len(heap) /\ n <= Len(heap[header.arr])
  BY <1>3, <1>6, <1>7 DEF Points
<1>9. PICK a \in Seq(Int) : a = heap[header.arr]
  BY <1>3, <1>8, ElementOfSeq
<1>10. PICK b : b = [a EXCEPT ![n] = 0]
  OBVIOUS
<1>11. n <= Len(a) /\ Len(a) \in Nat
  BY <1>8, <1>9
<1>12. n \in 1..Len(a) /\ n - 1 <= Len(a) /\ n > n - 1
  BY <1>7, <1>11
<1>13. b \in Seq(Int) /\ Len(b) = Len(a) /\ Shown(b, n - 1) = Shown(a, n - 1)
  <2>1. PICK m \in Nat : m = n - 1
    BY <1>7
  <2>2. m <= Len(a) /\ n > m /\ 0 \in Int
    BY <1>12, <2>1
  <2>3. /\ [a EXCEPT ![n] = 0] \in Seq(Int) /\ Len([a EXCEPT ![n] = 0]) = Len(a)
        /\ n > m => Shown([a EXCEPT ![n] = 0], m) = Shown(a, m)
    BY <1>12, <2>2, Assigned, Zenon
  <2> QED
    BY <1>10, <2>1, <2>2, <2>3, Zenon
<1>14. \A i \in 1..(n - 1) : a[i] = IF i <= k THEN at[t][i] ELSE at[t][i + 1]
  BY <1>4, <1>6, <1>9, Zenon
<1>15. Shown(a, n - 1) = RemoveAt(at[t], k + 1)
  <2>1. at[t] \in Seq(Int) /\ Len(at[t]) = n
    BY <1>4, <1>6
  <2>2. PICK s \in Seq(Int) : s = at[t]
    BY <2>1
  <2>3. Len(s) = n /\ n <= Len(a) /\ k < n /\ \A i \in 1..(n - 1) : a[i] = IF i <= k THEN s[i] ELSE s[i + 1]
    BY <1>7, <1>11, <1>14, <2>1, <2>2, Zenon
  <2>4. Shown(a, n - 1) = RemoveAt(s, k + 1)
    BY <2>3, Removed, ZenonT(40)
  <2> QED
    BY <2>2, <2>4, Zenon
<1>16. header' \in [arr : Nat, len : Nat] /\ header'.arr = header.arr /\ header'.len = n - 1
  BY <1>1, <1>5, <1>6, <1>7
<1>17. heap' = [heap EXCEPT ![header.arr] = b]
  BY <1>1, <1>6, <1>9, <1>10
<1>18. heap' \in Seq(Seq(Int)) /\ heap'[header.arr] = b /\ Points(header)' /\ ShotsKept'
  <2>1. header'.len <= Len(b) /\ Len(b) = Len(heap[header.arr])
    BY <1>9, <1>12, <1>13, <1>16
  <2> QED
    BY <1>1, <1>3, <1>8, <1>13, <1>16, <1>17, <2>1, ArrayWritten
<1>19. /\ pc' = [pc EXCEPT ![t] = "unlock"] /\ UNCHANGED <<shared, lockVars, opVars, answers>>
       /\ DOMAIN got' = Threads /\ DOMAIN hold' = Threads
       /\ pc'[t] = "unlock" /\ got'[t] = <<TRUE>> /\ doing' = doing /\ arg' = arg /\ at' = at
  BY <1>1, <1>2, EndsStep
<1>20. View(header)' = RemoveAt(at[t], arg[t] + 1)
  BY <1>6, <1>13, <1>15, <1>16, <1>18 DEF View
<1>21. SliceEffect("Delete", arg[t], at[t], t) = RemoveAt(at[t], arg[t] + 1)
       /\ <<TRUE>> \in SliceResults("Delete", arg[t], at[t])
  <2>1. 0 <= arg[t] /\ arg[t] < Len(at[t])
    BY <1>4, <1>6, <1>7
  <2> QED
    BY <2>1, EffectOfDelete
<1>22. SliceThread(t)'
  BY <1>1, <1>19, <1>20, <1>21, ThreadDone
<1>23. doing[t] \in Writers
  BY <1>1 DEF Writers
<1> QED
  BY <1>1, <1>18, <1>19, <1>22, <1>23, Alone

LEMMA ReplaceStep ==
  ASSUME SharedInv, shared = "slice", NEW t \in Threads, Replace(t)
  PROVE  SharedInv'
<1>1. pc[t] = "second" /\ doing[t] = "Append" /\ heap' = heap /\ header' = hold[t]
      /\ Ends(t, <<>>) /\ shots' = shots
  BY DEF Replace, Holds
<1>2. SharedTypes /\ LockInv /\ SliceInv
  BY DEF SharedInv
<1>3. SliceThread(t) /\ heap \in Seq(Seq(Int)) /\ ShotsKept
  BY <1>2 DEF SliceInv
<1>4. /\ Points(hold[t]) /\ View(hold[t]) = Append(at[t], t)
      /\ \A s \in shots : s.ref.arr # hold[t].arr
  BY <1>1, <1>3 DEF SliceThread, SliceGrown
<1>5. Points(header)' /\ View(header)' = Append(at[t], t)
  BY <1>1, <1>4 DEF Points, View
<1>6. ShotsKept'
  BY <1>1, <1>3, <1>4 DEF ShotsKept, Points, View
<1>7. /\ pc' = [pc EXCEPT ![t] = "unlock"] /\ UNCHANGED <<shared, lockVars, opVars, answers>>
      /\ DOMAIN got' = Threads /\ DOMAIN hold' = Threads
      /\ pc'[t] = "unlock" /\ got'[t] = <<>> /\ doing' = doing /\ arg' = arg /\ at' = at
  BY <1>1, <1>2, EndsStep
<1>8. SliceEffect("Append", arg[t], at[t], t) = Append(at[t], t) /\ <<>> \in SliceResults("Append", arg[t], at[t])
  BY EffectOfAppend
<1>9. SliceThread(t)'
  BY <1>1, <1>5, <1>7, <1>8, ThreadDone
<1>10. doing[t] \in Writers
  BY <1>1 DEF Writers
<1> QED
  BY <1>1, <1>3, <1>5, <1>6, <1>7, <1>9, <1>10, Alone

LEMMA RearrangeStep ==
  ASSUME SharedInv, shared = "slice", NEW t \in Threads, Rearrange(t)
  PROVE  SharedInv'
<1>1. pc[t] = "first" /\ doing[t] = "Do" /\ header' = header /\ shots' = shots /\ Ends(t, <<TRUE>>)
      /\ heap' = IF header.arr = 0 THEN heap ELSE [heap EXCEPT ![header.arr] = Reversed(heap[header.arr], header.len)]
  BY DEF Rearrange, Holds
<1>2. /\ SharedTypes /\ LockInv /\ heap \in Seq(Seq(Int)) /\ Points(header) /\ ShotsKept
      /\ View(header) = at[t] /\ at[t] \in Seq(Int) /\ Len(at[t]) = header.len /\ header.len \in Nat
  BY <1>1, Beginning
<1>3. heap' \in Seq(Seq(Int)) /\ Points(header)' /\ ShotsKept' /\ View(header)' = Reverse(at[t])
  <2>1. CASE header.arr = 0
    <3>1. heap' = heap /\ header.len = 0
      BY <1>1, <1>2, <2>1 DEF Points
    <3>2. Points(header)' /\ ShotsKept' /\ View(header)' = at[t]
      BY <1>1, <1>2, <3>1 DEF Points, ShotsKept, View
    <3>3. at[t] = <<>>
      BY <1>2, <3>1
    <3>4. Reverse(at[t]) = <<>>
      BY <3>3 DEF Reverse
    <3> QED
      BY <1>2, <3>1, <3>2, <3>3, <3>4
  <2>2. CASE header.arr # 0
    <3>1. header.arr \in 1..Len(heap) /\ header.len <= Len(heap[header.arr]) /\ header \in [arr : Nat, len : Nat]
      BY <1>2, <2>2 DEF Points
    <3>2. PICK a \in Seq(Int) : a = heap[header.arr]
      BY <1>2, <3>1, ElementOfSeq
    <3>3. PICK b : b = Reversed(a, header.len)
      OBVIOUS
    <3>4. header.len <= Len(a) /\ header.len \in Nat /\ at[t] = Shown(a, header.len)
      BY <1>2, <3>1, <3>2 DEF View
    <3>5. b \in Seq(Int) /\ Len(b) = Len(a) /\ Shown(b, header.len) = Reverse(at[t])
      BY <3>3, <3>4, ReversedArray
    <3>6. heap' = [heap EXCEPT ![header.arr] = b]
      BY <1>1, <2>2, <3>2, <3>3
    <3>7. heap' \in Seq(Seq(Int)) /\ heap'[header.arr] = b /\ Points(header)' /\ ShotsKept'
      BY <1>1, <1>2, <2>2, <3>1, <3>2, <3>4, <3>5, <3>6, ArrayWritten
    <3> QED
      BY <1>1, <3>5, <3>7 DEF View
  <2> QED
    BY <2>1, <2>2
<1>4. /\ pc' = [pc EXCEPT ![t] = "unlock"] /\ UNCHANGED <<shared, lockVars, opVars, answers>>
      /\ DOMAIN got' = Threads /\ DOMAIN hold' = Threads
      /\ pc'[t] = "unlock" /\ got'[t] = <<TRUE>> /\ doing' = doing /\ arg' = arg /\ at' = at
  BY <1>1, <1>2, EndsStep
<1>5. SliceEffect("Do", arg[t], at[t], t) = Reverse(at[t]) /\ <<TRUE>> \in SliceResults("Do", arg[t], at[t])
  BY EffectOfDo
<1>6. SliceThread(t)'
  BY <1>1, <1>3, <1>4, <1>5, ThreadDone
<1>7. doing[t] \in Writers
  BY <1>1 DEF Writers
<1> QED
  BY <1>1, <1>3, <1>4, <1>6, <1>7, Alone

\* A new array leaves the others.
LEMMA ArrayAdded ==
  ASSUME heap \in Seq(Seq(Int)), NEW b \in Seq(Int), heap' = Append(heap, b)
  PROVE  /\ heap' \in Seq(Seq(Int)) /\ Len(heap') = Len(heap) + 1 /\ heap'[Len(heap) + 1] = b /\ Len(heap) \in Nat
         /\ \A h : Points(h) => Points(h)' /\ View(h)' = View(h) /\ h.arr # Len(heap) + 1
<1>1. /\ heap' \in Seq(Seq(Int)) /\ Len(heap') = Len(heap) + 1 /\ heap'[Len(heap) + 1] = b /\ Len(heap) \in Nat
      /\ \A i \in 1..Len(heap) : heap'[i] = heap[i]
  BY AppendProperties, LenProperties
<1>2. ASSUME NEW h, Points(h) PROVE Points(h)' /\ View(h)' = View(h) /\ h.arr # Len(heap) + 1
  <2>1. CASE h.arr = 0
    <3>1. h.len = 0 /\ h \in [arr : Nat, len : Nat]
      BY <1>2, <2>1 DEF Points
    <3>2. View(h) = <<>> /\ View(h)' = <<>>
      BY <3>1, NothingShown DEF View
    <3>3. Points(h)'
      BY <2>1, <3>1 DEF Points
    <3> QED
      BY <1>1, <2>1, <3>2, <3>3
  <2>2. CASE h.arr # 0
    <3>1. h.arr \in 1..Len(heap) /\ h.len <= Len(heap[h.arr]) /\ h \in [arr : Nat, len : Nat]
      BY <1>2, <2>2 DEF Points
    <3>2. heap'[h.arr] = heap[h.arr] /\ h.arr \in 1..Len(heap') /\ h.arr # Len(heap) + 1
      BY <1>1, <3>1
    <3> QED
      BY <2>2, <3>1, <3>2 DEF Points, View
  <2> QED
    BY <2>1, <2>2
<1> QED
  BY <1>1, <1>2

LEMMA ExtendStep ==
  ASSUME SharedInv, shared = "slice", NEW t \in Threads, Extend(t)
  PROVE  SharedInv'
<1>n. PICK n : n = header.len
  OBVIOUS
<1>h. PICK h : h = [arr |-> IF Fits THEN header.arr ELSE Len(heap) + 1, len |-> n + 1]
  OBVIOUS
<1>1. pc[t] = "first" /\ doing[t] = "Append" /\ header' = header /\ shots' = shots /\ Goes(t, h)
      /\ heap' = IF Fits THEN [heap EXCEPT ![header.arr] = [heap[header.arr] EXCEPT ![n + 1] = t]] ELSE Append(heap, Grown(t))
  BY <1>n, <1>h DEF Extend, Holds
<1>2. /\ SharedTypes /\ LockInv /\ heap \in Seq(Seq(Int)) /\ Points(header) /\ ShotsKept
      /\ View(header) = at[t] /\ at[t] \in Seq(Int) /\ Len(at[t]) = n /\ n \in Nat
  BY <1>1, <1>n, Beginning
<1>t. t \in Int
  BY SharedAssumption
<1>3. heap' \in Seq(Seq(Int)) /\ Points(header)' /\ ShotsKept' /\ Points(h)' /\ h.arr # 0
      /\ (\A s \in shots : s.ref.arr # h.arr) /\ View(h)' = Append(at[t], t)
  <2>1. CASE Fits
    <3>1. header.arr # 0 /\ header.arr \in 1..Len(heap) /\ n < Len(heap[header.arr]) /\ header \in [arr : Nat, len : Nat]
      BY <1>2, <1>n, <2>1 DEF Points, Fits
    <3>2. PICK a \in Seq(Int) : a = heap[header.arr]
      BY <1>2, <3>1, ElementOfSeq
    <3>3. PICK b : b = [a EXCEPT ![n + 1] = t]
      OBVIOUS
    <3>4. n + 1 \in 1..Len(a) /\ n <= Len(a) /\ n < Len(a) /\ Len(a) \in Nat
      BY <1>2, <3>1, <3>2
    <3>5. b \in Seq(Int) /\ Len(b) = Len(a) /\ \A i \in 1..Len(a) : b[i] = IF i = n + 1 THEN t ELSE a[i]
      BY <1>t, <3>3, <3>4, ExceptSeq
    <3>6. heap' = [heap EXCEPT ![header.arr] = b]
      BY <1>1, <2>1, <3>2, <3>3
    <3>7. heap' \in Seq(Seq(Int)) /\ heap'[header.arr] = b /\ Points(header)' /\ ShotsKept'
      BY <1>1, <1>2, <1>n, <3>1, <3>2, <3>4, <3>5, <3>6, ArrayWritten
    <3>8. h = [arr |-> header.arr, len |-> n + 1]
      BY <1>h, <2>1
    <3>9. at[t] = Shown(a, n)
      BY <1>2, <1>n, <3>2 DEF View
    <3>10. Shown(b, n + 1) = Append(at[t], t)
      <4>1. \A i \in 1..n : at[t][i] = a[i]
        BY <1>2, <3>4, <3>9, ShownSeq, ZenonT(40)
      <4>2. \A i \in 1..n : b[i] = at[t][i]
        <5> TAKE i \in 1..n
        <5>1. i \in 1..Len(a) /\ i # n + 1
          BY <1>2, <3>4
        <5> QED
          BY <3>5, <4>1, <5>1
      <4>3. b[n + 1] = t
        BY <3>4, <3>5
      <4>4. PICK s \in Seq(Int) : s = at[t]
        BY <1>2
      <4>5. Len(s) = n /\ Len(b) > Len(s)
        BY <1>2, <3>4, <3>5, <4>4
      <4>6. Shown(b, Len(s) + 1) = Append(s, t)
        <5>1. (\A i \in 1..Len(s) : b[i] = s[i]) /\ b[Len(s) + 1] = t
          BY <4>2, <4>3, <4>4, <4>5
        <5> QED
          BY <1>t, <3>5, <4>5, <5>1, Appended
      <4> QED
        BY <4>4, <4>5, <4>6
    <3>11. \A s \in shots : s.ref.arr # header.arr
      BY <1>2 DEF ShotsKept
    <3>12. Points(h)' /\ View(h)' = Append(at[t], t) /\ h.arr # 0
      <4>1. h.arr = header.arr /\ h.len = n + 1 /\ h \in [arr : Nat, len : Nat] /\ n + 1 <= Len(b)
        BY <1>2, <3>1, <3>4, <3>5, <3>8
      <4>2. header.arr \in 1..Len(heap')
        BY <1>1, <3>1, <3>7 DEF Points
      <4> QED
        BY <3>1, <3>7, <3>10, <4>1, <4>2 DEF Points, View
    <3> QED
      BY <3>7, <3>8, <3>11, <3>12
  <2>2. CASE ~Fits
    <3>1. Contents(header) = at[t]
      BY <1>2, ContentsOfSlice
    <3>2. PICK s \in Seq(Int) : s = at[t]
      BY <1>2
    <3>3. PICK b : b = Larger(s, t)
      OBVIOUS
    <3>4. b \in Seq(Int) /\ Len(b) > Len(s) /\ (\A i \in 1..Len(s) : b[i] = s[i]) /\ b[Len(s) + 1] = t
      BY <1>t, <3>2, <3>3, GrownArray
    <3>5. heap' = Append(heap, b)
      BY <1>1, <1>2, <2>2, <3>1, <1>n, <3>2, <3>3 DEF Grown, Larger
    <3>6. /\ heap' \in Seq(Seq(Int)) /\ Len(heap') = Len(heap) + 1 /\ heap'[Len(heap) + 1] = b /\ Len(heap) \in Nat
          /\ \A x : Points(x) => Points(x)' /\ View(x)' = View(x) /\ x.arr # Len(heap) + 1
      BY <1>2, <3>4, <3>5, ArrayAdded
    <3>7. h = [arr |-> Len(heap) + 1, len |-> n + 1]
      BY <1>h, <2>2
    <3>8. Points(header)'
      BY <1>1, <1>2, <3>6 DEF Points
    <3>9. ShotsKept' /\ \A x \in shots : x.ref.arr # Len(heap) + 1
      BY <1>1, <1>2, <3>6 DEF ShotsKept
    <3>10. Shown(b, Len(s) + 1) = Append(s, t)
      BY <1>t, <3>4, Appended
    <3>11. Points(h)' /\ View(h)' = Append(at[t], t) /\ h.arr # 0
      <4>1. h.arr = Len(heap) + 1 /\ h.len = n + 1 /\ h \in [arr : Nat, len : Nat] /\ Len(s) = n /\ n + 1 <= Len(b)
        BY <1>2, <3>2, <3>4, <3>6, <3>7
      <4>2. h.arr \in 1..Len(heap') /\ h.arr # 0
        BY <3>6, <4>1
      <4> QED
        BY <3>2, <3>6, <3>10, <4>1, <4>2 DEF Points, View
    <3> QED
      BY <3>6, <3>7, <3>8, <3>9, <3>11
  <2> QED
    BY <2>1, <2>2
<1>4. /\ pc' = [pc EXCEPT ![t] = "second"] /\ UNCHANGED <<shared, lockVars, opVars, answers>>
      /\ DOMAIN got' = Threads /\ DOMAIN hold' = Threads
      /\ pc'[t] = "second" /\ hold'[t] = h /\ doing' = doing /\ arg' = arg /\ at' = at
  BY <1>1, <1>2, GoesStep
<1>5. SliceGrown(t)'
  BY <1>1, <1>3, <1>4 DEF SliceGrown, Points, View
<1>6. SliceThread(t)'
  BY <1>1, <1>4, <1>5 DEF SliceThread, SliceBegun, SliceRead, SliceCut, SliceDone, Readers
<1>7. doing[t] \in Writers
  BY <1>1 DEF Writers
<1> QED
  BY <1>1, <1>3, <1>4, <1>6, <1>7, Alone

LEMMA ShownAll ==
  ASSUME NEW s \in Seq(Int)
  PROVE  Shown(s, Len(s)) = s
<1>1. Len(s) \in Nat
  BY LenProperties
<1>2. Shown(s, Len(s)) \in Seq(Int) /\ Len(Shown(s, Len(s))) = Len(s) /\ \A i \in 1..Len(s) : Shown(s, Len(s))[i] = s[i]
  BY <1>1, ShownSeq
<1> QED
  BY <1>2, SameSeq

LEMMA SnapshotStep ==
  ASSUME SharedInv, shared = "slice", NEW t \in Threads, Snapshot(t)
  PROVE  SharedInv'
<1>1. pc[t] = "second" /\ doing[t] = "Snapshot" /\ header' = header /\ Ends(t, Contents(hold[t]))
      /\ heap' = Append(heap, Contents(hold[t]))
      /\ shots' = shots \cup {[ref |-> [arr |-> Len(heap) + 1, len |-> hold[t].len], val |-> Contents(hold[t])]}
  BY DEF Snapshot, Holds, Clone
<1>2. SharedTypes /\ LockInv /\ SliceInv
  BY DEF SharedInv
<1>3. (\A u \in Threads : SliceThread(u)) /\ heap \in Seq(Seq(Int)) /\ Points(header) /\ ShotsKept
  BY <1>2 DEF SliceInv
<1>4. hold[t] = header /\ View(header) = at[t]
  BY <1>1, <1>3 DEF SliceThread, SliceRead, Readers
<1>5. PICK s \in Seq(Int) : s = at[t] /\ Len(s) = header.len
  BY <1>3, <1>4, ViewSeq
<1>6. Contents(hold[t]) = s
  BY <1>4, <1>5, ContentsOfSlice
<1>7. PICK r : r = [arr |-> Len(heap) + 1, len |-> header.len]
  OBVIOUS
<1>8. heap' = Append(heap, s) /\ shots' = shots \cup {[ref |-> r, val |-> s]} /\ Ends(t, s)
  BY <1>1, <1>4, <1>6, <1>7
<1>9. /\ heap' \in Seq(Seq(Int)) /\ Len(heap') = Len(heap) + 1 /\ heap'[Len(heap) + 1] = s /\ Len(heap) \in Nat
      /\ \A x : Points(x) => Points(x)' /\ View(x)' = View(x) /\ x.arr # Len(heap) + 1
  BY <1>3, <1>8, ArrayAdded
<1>10. Points(header)' /\ View(header)' = View(header) /\ header.arr # Len(heap) + 1
  <2>1. PICK x : x = header
    OBVIOUS
  <2>2. Points(x)' /\ View(x)' = View(x) /\ x.arr # Len(heap) + 1
    BY <1>3, <1>9, <2>1
  <2> QED
    BY <1>1, <2>1, <2>2 DEF Points, View
<1>11. r.arr = Len(heap) + 1 /\ r.len = header.len /\ r \in [arr : Nat, len : Nat] /\ Len(s) \in Nat
  BY <1>3, <1>7, <1>9, LenProperties DEF Points
<1>12. Points(r)' /\ View(r)' = s /\ r.arr # 0 /\ r.arr # header'.arr
  <2>1. r.arr \in 1..Len(heap') /\ r.len <= Len(heap'[r.arr]) /\ r.arr # 0
    BY <1>5, <1>9, <1>11
  <2>2. Shown(heap'[r.arr], r.len) = s
    BY <1>5, <1>9, <1>11, ShownAll
  <2> QED
    BY <1>1, <1>10, <1>11, <2>1, <2>2 DEF Points, View
<1>13. ShotsKept'
  <2> SUFFICES ASSUME NEW x \in shots'
               PROVE  Points(x.ref)' /\ x.ref.arr # 0 /\ x.ref.arr # header'.arr /\ View(x.ref)' = x.val
    BY DEF ShotsKept
  <2>1. CASE x \in shots
    <3>1. Points(x.ref) /\ x.ref.arr # 0 /\ x.ref.arr # header.arr /\ View(x.ref) = x.val
      BY <1>3, <2>1 DEF ShotsKept
    <3> QED
      BY <1>1, <1>9, <3>1
  <2>2. CASE x = [ref |-> r, val |-> s]
    <3>1. x.ref = r /\ x.val = s
      BY <2>2
    <3> QED
      BY <1>12, <3>1
  <2> QED
    BY <1>8, <2>1, <2>2
<1>14. /\ pc' = [pc EXCEPT ![t] = "unlock"] /\ UNCHANGED <<shared, lockVars, opVars, answers>>
       /\ DOMAIN got' = Threads /\ DOMAIN hold' = Threads
       /\ (\A u \in Threads : u # t => got'[u] = got[u] /\ hold'[u] = hold[u])
       /\ pc'[t] = "unlock" /\ got'[t] = s /\ doing' = doing /\ arg' = arg /\ at' = at
  BY <1>2, <1>8, EndsStep
<1>15. SharedTypes' /\ LockInv'
  BY <1>1, <1>2, <1>14, LockKept
<1>16. SliceThread(t)'
  <2>1. SliceEffect("Snapshot", arg[t], at[t], t) = at[t] /\ SliceResults("Snapshot", arg[t], at[t]) = {Read("Snapshot", arg[t], at[t])}
    BY EffectOfRead, ResultOfRead DEF Readers
  <2>2. Read("Snapshot", arg[t], at[t]) = at[t]
    BY ResultOfSnapshot
  <2> QED
    BY <1>1, <1>4, <1>5, <1>10, <1>14, <2>1, <2>2, ThreadDone
<1>17. ASSUME NEW u \in Threads, u # t PROVE SliceThread(u)'
  <2>1. pc'[u] = pc[u] /\ doing'[u] = doing[u] /\ arg'[u] = arg[u] /\ at'[u] = at[u] /\ got'[u] = got[u] /\ hold'[u] = hold[u]
    BY <1>2, <1>14, <1>17 DEF SharedTypes
  <2>2. SliceThread(u)
    BY <1>3
  <2>3. pc[u] # "idle" => doing[u] \in Readers
    <3>1. pc[u] # "idle" => doing[u] \in Readers \cup {"Invert"}
      BY <1>1, <1>2, ReadersTogether DEF Readers
    <3> QED
      BY <2>2, <3>1 DEF SliceThread
  <2>4. pc[u] # "idle" => doing'[u] \notin {"Delete", "Append"}
    BY <2>1, <2>3 DEF Readers
  <2> QED
    BY <1>1, <1>10, <2>1, <2>2, <2>3, <2>4 DEF SliceThread, SliceBegun, SliceRead, SliceCut, SliceGrown, SliceDone
<1> QED
  BY <1>9, <1>10, <1>13, <1>14, <1>15, <1>16, <1>17 DEF SharedInv, SliceInv

-----------------------------------------------------------------------------
(* The lock *)

\* RLock and Lock.
LEMMA LockTaken ==
  ASSUME SharedTypes, LockInv, NEW t \in Threads, NEW o \in Readers \cup {"Invert"} \cup Writers,
         pc[t] = "idle", writer = Nobody, TakesWriteLock(o) => readers = {},
         writer' = IF TakesWriteLock(o) THEN t ELSE writer,
         readers' = IF TakesWriteLock(o) THEN readers ELSE readers \cup {t},
         pc' = [pc EXCEPT ![t] = "first"], doing' = [doing EXCEPT ![t] = o], answers' = answers
  PROVE  LockInv'
<1>1. \A u \in Threads : u # Nobody
  BY SharedAssumption
<1>2. \A u \in Threads : (pc'[u] # "idle" <=> u = t \/ pc[u] # "idle") /\ doing'[u] = IF u = t THEN o ELSE doing[u]
  BY DEF SharedTypes
<1>3. CASE TakesWriteLock(o)
  <2>1. writer' = t /\ readers' = {} /\ readers = {} /\ o \in Writers
    BY <1>3 DEF TakesWriteLock
  <2> QED
    BY <1>1, <1>2, <2>1 DEF LockInv
<1>4. CASE ~TakesWriteLock(o)
  <2>1. writer' = Nobody /\ readers' = readers \cup {t} /\ o \in Readers \cup {"Invert"}
    BY <1>4 DEF TakesWriteLock
  <2> QED
    BY <1>1, <1>2, <2>1 DEF LockInv
<1> QED
  BY <1>3, <1>4

\* The deferred unlock.
LEMMA LockGiven ==
  ASSUME SharedTypes, LockInv, NEW t \in Threads, pc[t] = "unlock",
         writer' = IF writer = t THEN Nobody ELSE writer, readers' = readers \ {t},
         pc' = [pc EXCEPT ![t] = "idle"], doing' = [doing EXCEPT ![t] = "none"], answers' = answers
  PROVE  LockInv'
<1>1. \A u \in Threads : u # Nobody
  BY SharedAssumption
<1>2. \A u \in Threads : (pc'[u] # "idle" <=> u # t /\ pc[u] # "idle") /\ (u # t => doing'[u] = doing[u])
  BY DEF SharedTypes
<1>3. writer' \in Threads \cup {Nobody} /\ readers' \subseteq Threads /\ (writer' # Nobody => readers' = {}) /\ writer' # t
  BY <1>1 DEF LockInv
<1>4. \A u \in Threads : u # t => (u = writer' <=> u = writer) /\ (u \in readers' <=> u \in readers)
  BY <1>1
<1> QED
  BY <1>2, <1>3, <1>4 DEF LockInv

LEMMA MapQuiet ==
  ASSUME NEW u \in Threads, MapThread(u), heap'[1] = heap[1], UNCHANGED <<made, guarded>>,
         pc'[u] = pc[u], doing'[u] = doing[u], arg'[u] = arg[u], at'[u] = at[u], got'[u] = got[u]
  PROVE  MapThread(u)'
BY DEF MapThread, MapEffect, MapResults, Panics

LEMMA MapAtRest ==
  ASSUME NEW u \in Threads, pc'[u] = "idle"
  PROVE  MapThread(u)'
BY DEF MapThread

\* The slice and the map are what they were.
LEMMA ValueKept ==
  ASSUME UNCHANGED <<heap, header, made, guarded, shots>>
  PROVE  /\ SliceInv => heap' \in Seq(Seq(Int)) /\ Points(header)' /\ ShotsKept'
         /\ MapInv => /\ (heap \in Seq(Range(heap)))' /\ (Len(heap) > 0)' /\ (header = [arr |-> 1, len |-> 0])'
                      /\ (\A s \in shots : s.ref.arr \in 2..Len(heap) /\ heap[s.ref.arr] = s.val)'
                      /\ (made \in BOOLEAN /\ guarded \in BOOLEAN)' /\ (made = FALSE => heap[1] = nilMap)'
<1>1. SliceInv => heap' \in Seq(Seq(Int)) /\ Points(header)' /\ ShotsKept'
  BY DEF SliceInv, Points, ShotsKept, View
<1>2. MapInv => /\ (heap \in Seq(Range(heap)))' /\ (Len(heap) > 0)' /\ (header = [arr |-> 1, len |-> 0])'
                /\ (\A s \in shots : s.ref.arr \in 2..Len(heap) /\ heap[s.ref.arr] = s.val)'
                /\ (made \in BOOLEAN /\ guarded \in BOOLEAN)' /\ (made = FALSE => heap[1] = nilMap)'
  BY DEF MapInv
<1> QED
  BY <1>1, <1>2

LEMMA LockStep ==
  ASSUME SharedInv, Lock
  PROVE  SharedInv'
<1>1. PICK t \in Threads, o \in Operations : \E k \in Arguments(o) :
        /\ shared \in {"slice", "map"} /\ pc[t] = "idle" /\ left[t] > 0
        /\ o = "Append" => header.len < MaxLen
        /\ writer = Nobody
        /\ TakesWriteLock(o) => readers = {}
        /\ writer' = IF TakesWriteLock(o) THEN t ELSE writer
        /\ readers' = IF TakesWriteLock(o) THEN readers ELSE readers \cup {t}
        /\ pc' = [pc EXCEPT ![t] = "first"]
        /\ doing' = [doing EXCEPT ![t] = o] /\ arg' = [arg EXCEPT ![t] = k]
        /\ at' = [at EXCEPT ![t] = Contents(header)]
        /\ left' = [left EXCEPT ![t] = @ - 1]
        /\ UNCHANGED <<shared, guarded, valueVars, cacheVars, resultVars>>
  BY Zenon DEF Lock
<1>2. PICK k \in Arguments(o) :
        /\ shared \in {"slice", "map"} /\ pc[t] = "idle" /\ left[t] > 0
        /\ o = "Append" => header.len < MaxLen
        /\ writer = Nobody
        /\ TakesWriteLock(o) => readers = {}
        /\ writer' = IF TakesWriteLock(o) THEN t ELSE writer
        /\ readers' = IF TakesWriteLock(o) THEN readers ELSE readers \cup {t}
        /\ pc' = [pc EXCEPT ![t] = "first"]
        /\ doing' = [doing EXCEPT ![t] = o] /\ arg' = [arg EXCEPT ![t] = k]
        /\ at' = [at EXCEPT ![t] = Contents(header)]
        /\ left' = [left EXCEPT ![t] = @ - 1]
        /\ UNCHANGED <<shared, guarded, valueVars, cacheVars, resultVars>>
  BY <1>1, Zenon
<1>3. SharedTypes /\ LockInv
  BY <1>2 DEF SharedInv
<1>4. UNCHANGED <<heap, header, made, guarded, shots>> /\ UNCHANGED <<shared, got, hold>> /\ answers' = answers
  BY <1>2 DEF valueVars, cacheVars, resultVars
<1>5. SharedTypes'
  <2>1. DOMAIN doing' = Threads /\ DOMAIN arg' = Threads /\ DOMAIN at' = Threads /\ DOMAIN left' = Threads
        /\ DOMAIN got' = Threads /\ DOMAIN hold' = Threads
    BY <1>2, <1>3, <1>4 DEF SharedTypes
  <2>2. pc' \in [Threads -> Places] /\ shared' \in {"slice", "map", "memo", "fields"}
    BY <1>2, <1>3, <1>4 DEF SharedTypes, Places
  <2> QED
    BY <2>1, <2>2 DEF SharedTypes
<1>6. o \in Readers \cup {"Invert"} \cup Writers /\ (shared = "slice" => o # "Invert")
      /\ (shared = "map" => (o \in Writers => o \in MapWrites))
  BY <1>2 DEF Operations, Readers, Writers, MapWrites
<1>7. LockInv'
  BY <1>2, <1>3, <1>4, <1>6, LockTaken
<1>8. /\ pc'[t] = "first" /\ doing'[t] = o /\ arg'[t] = k /\ at'[t] = Contents(header)
      /\ \A u \in Threads : u # t => pc'[u] = pc[u] /\ doing'[u] = doing[u] /\ arg'[u] = arg[u] /\ at'[u] = at[u]
                                     /\ got'[u] = got[u] /\ hold'[u] = hold[u]
  BY <1>2, <1>3, <1>4 DEF SharedTypes
<1>9. CASE shared = "slice"
  <2>1. SliceInv /\ View(header) = Contents(header)
    BY <1>9, ContentsOfSlice DEF SharedInv
  <2>2. k \in Int
    BY <1>2, <1>9, SharedAssumption DEF Arguments
  <2>3. SliceThread(t)'
    <3>1. SliceBegun(t)'
      BY <1>4, <1>8, <2>1, <2>2 DEF SliceBegun, View
    <3> QED
      BY <1>6, <1>8, <1>9, <3>1 DEF SliceThread, SliceRead, SliceCut, SliceGrown, SliceDone
  <2>4. \A u \in Threads : u # t => SliceThread(u)'
    BY <1>4, <1>8, <2>1, LeftAlone DEF SliceInv
  <2>5. SliceInv'
    BY <1>4, <2>1, <2>3, <2>4, ValueKept DEF SliceInv
  <2> QED
    BY <1>4, <1>5, <1>7, <1>9, <2>5 DEF SharedInv
<1>10. CASE shared = "map"
  <2>1. MapInv
    BY <1>10 DEF SharedInv
  <2>2. Contents(header) = heap[1]
    BY <1>10, <2>1 DEF Contents, MapInv
  <2>3. MapThread(t)'
    BY <1>4, <1>6, <1>8, <1>10, <2>2 DEF MapThread
  <2>4. \A u \in Threads : u # t => MapThread(u)'
    BY <1>4, <1>8, <2>1, MapQuiet DEF MapInv
  <2>5. MapInv'
    BY <1>4, <2>1, <2>3, <2>4, ValueKept DEF MapInv
  <2> QED
    BY <1>4, <1>5, <1>7, <1>10, <2>5 DEF SharedInv
<1> QED
  BY <1>2, <1>9, <1>10

LEMMA UnlockStep ==
  ASSUME SharedInv, Unlock
  PROVE  SharedInv'
<1>1. PICK t \in Threads :
        /\ pc[t] = "unlock"
        /\ writer' = IF writer = t THEN Nobody ELSE writer
        /\ readers' = readers \ {t}
        /\ pc' = [pc EXCEPT ![t] = "idle"]
        /\ doing' = [doing EXCEPT ![t] = "none"] /\ arg' = [arg EXCEPT ![t] = 0] /\ at' = [at EXCEPT ![t] = <<>>]
        /\ got' = [got EXCEPT ![t] = <<>>] /\ hold' = [hold EXCEPT ![t] = NoHeader]
        /\ UNCHANGED <<shared, guarded, valueVars, cacheVars, left>>
  BY Zenon DEF Unlock
<1>2. SharedTypes
  BY DEF SharedInv
<1>3. shared \in {"slice", "map"}
  BY <1>1, <1>2 DEF SharedInv, SharedTypes, CacheInv
<1>4. LockInv
  BY <1>3 DEF SharedInv
<1>5. UNCHANGED <<heap, header, made, guarded, shots>> /\ UNCHANGED <<shared, left>> /\ answers' = answers
  BY <1>1 DEF valueVars, cacheVars
<1>6. SharedTypes'
  <2>1. DOMAIN doing' = Threads /\ DOMAIN arg' = Threads /\ DOMAIN at' = Threads /\ DOMAIN left' = Threads
        /\ DOMAIN got' = Threads /\ DOMAIN hold' = Threads
    BY <1>1, <1>2, <1>5 DEF SharedTypes
  <2>2. pc' \in [Threads -> Places] /\ shared' \in {"slice", "map", "memo", "fields"}
    BY <1>1, <1>2, <1>5 DEF SharedTypes, Places
  <2> QED
    BY <2>1, <2>2 DEF SharedTypes
<1>7. LockInv'
  BY <1>1, <1>2, <1>4, <1>5, LockGiven
<1>8. /\ pc'[t] = "idle"
      /\ \A u \in Threads : u # t => pc'[u] = pc[u] /\ doing'[u] = doing[u] /\ arg'[u] = arg[u] /\ at'[u] = at[u]
                                     /\ got'[u] = got[u] /\ hold'[u] = hold[u]
  BY <1>1, <1>2 DEF SharedTypes
<1>9. CASE shared = "slice"
  <2>1. SliceInv
    BY <1>9 DEF SharedInv
  <2>2. SliceThread(t)'
    BY <1>8, AtRest
  <2>3. \A u \in Threads : u # t => SliceThread(u)'
    BY <1>5, <1>8, <2>1, LeftAlone DEF SliceInv
  <2>4. SliceInv'
    BY <1>5, <2>1, <2>2, <2>3, ValueKept DEF SliceInv
  <2> QED
    BY <1>5, <1>6, <1>7, <1>9, <2>4 DEF SharedInv
<1>10. CASE shared = "map"
  <2>1. MapInv
    BY <1>10 DEF SharedInv
  <2>2. MapThread(t)'
    BY <1>8, MapAtRest
  <2>3. \A u \in Threads : u # t => MapThread(u)'
    BY <1>5, <1>8, <2>1, MapQuiet DEF MapInv
  <2>4. MapInv'
    BY <1>5, <2>1, <2>2, <2>3, ValueKept DEF MapInv
  <2> QED
    BY <1>5, <1>6, <1>7, <1>10, <2>4 DEF SharedInv
<1> QED
  BY <1>3, <1>9, <1>10

-----------------------------------------------------------------------------
(* The steps of the map *)

LEMMA FirstWritten ==
  ASSUME NEW S, NEW s \in Seq(S), Len(s) > 0, NEW m, NEW r, r = [s EXCEPT ![1] = m]
  PROVE  /\ r \in Seq(S \cup {m}) /\ Len(r) = Len(s) /\ r[1] = m
         /\ \A i \in 2..Len(s) : r[i] = s[i]
<1>1. s \in Seq(S \cup {m}) /\ Len(s) \in Nat /\ 1 \in 1..Len(s)
  BY LenProperties
<1>2. r \in Seq(S \cup {m}) /\ Len(r) = Len(s) /\ \A i \in 1..Len(s) : r[i] = IF i = 1 THEN m ELSE s[i]
  BY <1>1, ExceptSeq
<1> QED
  BY <1>1, <1>2

LEMMA LastAdded ==
  ASSUME NEW S, NEW s \in Seq(S), NEW m, NEW r, r = Append(s, m)
  PROVE  /\ r \in Seq(S \cup {m}) /\ Len(r) = Len(s) + 1 /\ r[Len(s) + 1] = m /\ Len(s) \in Nat
         /\ \A i \in 1..Len(s) : r[i] = s[i]
<1>1. s \in Seq(S \cup {m}) /\ Len(s) \in Nat
  BY LenProperties
<1> QED
  BY <1>1, AppendProperties

LEMMA WrittenNil ==
  ASSUME NEW o \in {"Delete", "Do"}, NEW k, NEW v
  PROVE  Written(nilMap, o, k, v) = nilMap
BY DEF Written, nilMap

\* What is known of a goroutine that has the map's lock.
LEMMA MapBeginning ==
  ASSUME SharedInv, shared = "map", NEW t \in Threads, pc[t] = "first"
  PROVE  /\ SharedTypes /\ LockInv /\ MapInv /\ at[t] = heap[1] /\ header.arr = 1 /\ Contents(header) = heap[1]
<1>1. SharedTypes /\ LockInv /\ MapInv
  BY DEF SharedInv
<1>2. at[t] = heap[1] /\ header.arr = 1
  BY <1>1 DEF MapInv, MapThread
<1> QED
  BY <1>1, <1>2 DEF Contents

LEMMA WriteMapStep ==
  ASSUME SharedInv, shared = "map", NEW t \in Threads, WriteMap(t)
  PROVE  SharedInv'
<1>1. /\ pc[t] = "first" /\ doing[t] \in MapWrites /\ header' = header /\ shots' = shots
      /\ heap' = IF Panics(doing[t]) THEN heap ELSE [heap EXCEPT ![header.arr] = Written(heap[header.arr], doing[t], arg[t], t)]
      /\ made' = (made \/ (guarded /\ doing[t] # "Delete"))
      /\ Ends(t, IF Panics(doing[t]) THEN <<"panic">> ELSE <<>>)
  BY DEF WriteMap, Holds
<1>2. SharedTypes /\ LockInv /\ MapInv /\ at[t] = heap[1] /\ header.arr = 1
  BY <1>1, MapBeginning
<1>3. PICK r : r = IF Panics(doing[t]) THEN <<"panic">> ELSE <<>>
  OBVIOUS
<1>4. Ends(t, r)
  BY <1>1, <1>3
<1>5. /\ pc' = [pc EXCEPT ![t] = "unlock"] /\ UNCHANGED <<shared, lockVars, opVars, answers>>
      /\ DOMAIN got' = Threads /\ DOMAIN hold' = Threads
      /\ pc'[t] = "unlock" /\ got'[t] = r /\ doing' = doing /\ arg' = arg /\ at' = at
  BY <1>2, <1>4, EndsStep
<1>6. SharedTypes' /\ LockInv' /\ guarded' = guarded
  BY <1>1, <1>2, <1>4, <1>5, LockKept DEF Ends
<1>7. doing[t] \in Writers
  BY <1>1 DEF MapWrites, Writers
<1>8. \A u \in Threads : u # t => pc'[u] = "idle"
  BY <1>1, <1>2, <1>5, <1>7, WriterAlone DEF SharedTypes
<1>9. PICK m : m = IF Panics(doing[t]) THEN heap[1] ELSE Written(heap[1], doing[t], arg[t], t)
  OBVIOUS
<1>10. heap \in Seq(Range(heap)) /\ Len(heap) > 0
  BY <1>2 DEF MapInv
<1>11. heap' = [heap EXCEPT ![1] = m]
  <2>1. CASE Panics(doing[t])
    <3>1. heap' = heap /\ m = heap[1]
      BY <1>1, <1>9, <2>1
    <3>2. heap \in [1..Len(heap) -> Range(heap)]
      BY <1>10, LenProperties
    <3> QED
      BY <3>1, <3>2
  <2>2. CASE ~Panics(doing[t])
    BY <1>1, <1>2, <1>9, <2>2
  <2> QED
    BY <2>1, <2>2
<1>12. /\ heap' \in Seq(Range(heap')) /\ Len(heap') = Len(heap) /\ heap'[1] = m
       /\ \A i \in 2..Len(heap) : heap'[i] = heap[i]
  <2>1. PICK S, q : S = Range(heap) /\ q = heap'
    OBVIOUS
  <2>2. heap \in Seq(S) /\ Len(heap) > 0 /\ q = [heap EXCEPT ![1] = m]
    BY <1>10, <1>11, <2>1
  <2>3. q \in Seq(S \cup {m}) /\ Len(q) = Len(heap) /\ q[1] = m /\ \A i \in 2..Len(heap) : q[i] = heap[i]
    BY <2>2, FirstWritten
  <2>4. q \in Seq(Range(q))
    BY <2>3, SeqOfRange
  <2> QED
    BY <2>1, <2>3, <2>4
<1>14. (Panics(doing[t]))' <=> Panics(doing[t])
  BY <1>1, <1>5, <1>6 DEF Panics
<1>15. MapThread(t)'
  <2>1. m = MapEffect(doing[t], arg[t], at[t], t)'
    BY <1>1, <1>2, <1>5, <1>9, <1>14 DEF MapEffect
  <2>2. r \in MapResults(doing[t], arg[t], at[t])'
    BY <1>1, <1>3, <1>5, <1>14 DEF MapResults
  <2> QED
    BY <1>1, <1>5, <1>12, <2>1, <2>2 DEF MapThread
<1>16. made' \in BOOLEAN /\ guarded' \in BOOLEAN
  BY <1>1, <1>2, <1>6 DEF MapInv
<1>17. made' = FALSE => heap'[1] = nilMap
  <2> SUFFICES ASSUME made' = FALSE PROVE m = nilMap
    BY <1>12
  <2>1. made = FALSE /\ heap[1] = nilMap /\ (guarded = FALSE \/ doing[t] = "Delete")
    BY <1>1, <1>2 DEF MapInv
  <2>2. CASE doing[t] = "Set"
    BY <1>9, <2>1, <2>2 DEF Panics
  <2>3. CASE doing[t] \in {"Delete", "Do"}
    BY <1>9, <2>1, <2>3, WrittenNil DEF Panics
  <2> QED
    BY <1>1, <2>2, <2>3 DEF MapWrites
<1>18. \A s \in shots' : s.ref.arr \in 2..Len(heap') /\ heap'[s.ref.arr] = s.val
  BY <1>1, <1>2, <1>12 DEF MapInv
<1>19. \A u \in Threads : MapThread(u)'
  BY <1>8, <1>15, MapAtRest
<1>20. MapInv'
  BY <1>1, <1>2, <1>10, <1>12, <1>16, <1>17, <1>18, <1>19 DEF MapInv
<1> QED
  BY <1>5, <1>6, <1>20 DEF SharedInv

LEMMA LookUpStep ==
  ASSUME SharedInv, shared = "map", NEW t \in Threads, LookUp(t)
  PROVE  SharedInv'
<1>1. PICK r \in ReadMap(heap[header.arr], doing[t], arg[t]) :
        pc[t] = "first" /\ doing[t] \in (Readers \ {"Snapshot"}) \cup {"Invert"} /\ Ends(t, r)
        /\ UNCHANGED <<heap, header, made, shots>>
  BY DEF LookUp, Holds, valueVars
<1>2. SharedTypes /\ LockInv /\ MapInv /\ at[t] = heap[1] /\ header.arr = 1
  BY <1>1, MapBeginning
<1>3. /\ pc' = [pc EXCEPT ![t] = "unlock"] /\ UNCHANGED <<shared, lockVars, opVars, answers>>
      /\ DOMAIN got' = Threads /\ DOMAIN hold' = Threads
      /\ (\A u \in Threads : u # t => got'[u] = got[u] /\ hold'[u] = hold[u])
      /\ pc'[t] = "unlock" /\ got'[t] = r /\ doing' = doing /\ arg' = arg /\ at' = at
  BY <1>1, <1>2, EndsStep
<1>4. SharedTypes' /\ LockInv' /\ guarded' = guarded
  BY <1>1, <1>2, <1>3, LockKept DEF Ends
<1>5. doing[t] \notin MapWrites /\ doing[t] \notin Writers /\ doing[t] # "Set"
  BY <1>1 DEF Readers, MapWrites, Writers
<1>6. MapThread(t)'
  BY <1>1, <1>2, <1>3, <1>5 DEF MapThread, MapEffect, MapResults, Panics
<1>7. ASSUME NEW u \in Threads, u # t PROVE MapThread(u)'
  <2>1. pc'[u] = pc[u] /\ doing'[u] = doing[u] /\ arg'[u] = arg[u] /\ at'[u] = at[u] /\ got'[u] = got[u]
    BY <1>2, <1>3, <1>7 DEF SharedTypes
  <2> QED
    BY <1>1, <1>2, <1>4, <2>1, MapQuiet DEF MapInv
<1>8. MapInv'
  BY <1>1, <1>2, <1>4, <1>6, <1>7, ValueKept DEF MapInv
<1> QED
  BY <1>3, <1>4, <1>8 DEF SharedInv

LEMMA CloneMapStep ==
  ASSUME SharedInv, shared = "map", NEW t \in Threads, CloneMap(t)
  PROVE  SharedInv'
<1>1. /\ pc[t] = "first" /\ doing[t] = "Snapshot" /\ Ends(t, heap[header.arr]) /\ UNCHANGED <<header, made>>
      /\ heap' = Append(heap, Contents(header))
      /\ shots' = shots \cup {[ref |-> [arr |-> Len(heap) + 1, len |-> header.len], val |-> Contents(header)]}
  BY DEF CloneMap, Holds, Clone
<1>2. SharedTypes /\ LockInv /\ MapInv /\ at[t] = heap[1] /\ header.arr = 1 /\ Contents(header) = heap[1]
  BY <1>1, MapBeginning
<1>3. PICK m : m = heap[1]
  OBVIOUS
<1>4. /\ pc' = [pc EXCEPT ![t] = "unlock"] /\ UNCHANGED <<shared, lockVars, opVars, answers>>
      /\ DOMAIN got' = Threads /\ DOMAIN hold' = Threads
      /\ (\A u \in Threads : u # t => got'[u] = got[u] /\ hold'[u] = hold[u])
      /\ pc'[t] = "unlock" /\ got'[t] = m /\ doing' = doing /\ arg' = arg /\ at' = at
  <2>1. Ends(t, m)
    BY <1>1, <1>2, <1>3
  <2> QED
    BY <1>2, <2>1, EndsStep
<1>5. SharedTypes' /\ LockInv' /\ guarded' = guarded
  BY <1>1, <1>2, <1>4, LockKept DEF Ends
<1>6. heap \in Seq(Range(heap)) /\ Len(heap) > 0 /\ heap' = Append(heap, m)
  BY <1>1, <1>2, <1>3 DEF MapInv
<1>7. /\ heap' \in Seq(Range(heap')) /\ Len(heap') = Len(heap) + 1 /\ heap'[Len(heap) + 1] = m /\ Len(heap) \in Nat
      /\ \A i \in 1..Len(heap) : heap'[i] = heap[i]
  <2>1. PICK S, r : S = Range(heap) /\ r = heap'
    OBVIOUS
  <2>2. heap \in Seq(S) /\ r = Append(heap, m)
    BY <1>6, <2>1
  <2>3. r \in Seq(S \cup {m}) /\ Len(r) = Len(heap) + 1 /\ r[Len(heap) + 1] = m /\ Len(heap) \in Nat
        /\ \A i \in 1..Len(heap) : r[i] = heap[i]
    BY <2>2, LastAdded
  <2>4. r \in Seq(Range(r))
    BY <2>3, SeqOfRange
  <2> QED
    BY <2>1, <2>3, <2>4
<1>8. heap'[1] = heap[1] /\ Len(heap') > 0
  BY <1>6, <1>7
<1>9. \A s \in shots' : s.ref.arr \in 2..Len(heap') /\ heap'[s.ref.arr] = s.val
  <2> SUFFICES ASSUME NEW s \in shots' PROVE s.ref.arr \in 2..Len(heap') /\ heap'[s.ref.arr] = s.val
    OBVIOUS
  <2>1. CASE s \in shots
    <3>1. s.ref.arr \in 2..Len(heap) /\ heap[s.ref.arr] = s.val
      BY <1>2, <2>1 DEF MapInv
    <3> QED
      BY <1>7, <3>1
  <2>2. CASE s = [ref |-> [arr |-> Len(heap) + 1, len |-> header.len], val |-> Contents(header)]
    <3>1. s.ref.arr = Len(heap) + 1 /\ s.val = m
      BY <1>2, <1>3, <2>2
    <3> QED
      BY <1>6, <1>7, <3>1
  <2> QED
    BY <1>1, <2>1, <2>2
<1>10. MapThread(t)'
  <2>1. MapEffect(doing[t], arg[t], at[t], t)' = m /\ MapResults(doing[t], arg[t], at[t])' = {ReadOne(m, "Snapshot", arg[t])}
    BY <1>1, <1>2, <1>3, <1>4 DEF MapEffect, MapResults, Panics, MapWrites, ReadMap
  <2>2. ReadOne(m, "Snapshot", arg[t]) = m
    BY DEF ReadOne
  <2> QED
    BY <1>1, <1>3, <1>4, <1>8, <2>1, <2>2 DEF MapThread, Writers
<1>11. ASSUME NEW u \in Threads, u # t PROVE MapThread(u)'
  <2>1. pc'[u] = pc[u] /\ doing'[u] = doing[u] /\ arg'[u] = arg[u] /\ at'[u] = at[u] /\ got'[u] = got[u]
    BY <1>2, <1>4, <1>11 DEF SharedTypes
  <2> QED
    BY <1>1, <1>2, <1>5, <1>8, <2>1, MapQuiet DEF MapInv
<1>12. MapInv'
  BY <1>1, <1>2, <1>5, <1>7, <1>8, <1>9, <1>10, <1>11 DEF MapInv
<1> QED
  BY <1>4, <1>5, <1>12 DEF SharedInv

-----------------------------------------------------------------------------
(* The steps of the caches *)

LEMMA StoredEntry ==
  ASSUME NEW d, NEW k
  PROVE  /\ DOMAIN Stored(d, k) = DOMAIN d \cup {k}
         /\ \A x \in DOMAIN d \cup {k} : Stored(d, k)[x] = IF x = k THEN Truth(k) ELSE d[x]
BY DEF Stored

\* The memo: an entry that is added at the limit has had one at least removed for it.
LEMMA MemoRoom ==
  ASSUME NEW D, IsFiniteSet(D), Cardinality(D) <= Ceiling, NEW gone \in SUBSET D, NEW k,
         Cardinality(D) < Ceiling \/ gone = D \/ Cardinality(gone) > 0
  PROVE  IsFiniteSet((D \ gone) \cup {k}) /\ Cardinality((D \ gone) \cup {k}) <= Ceiling
<1>1. PICK R : R = D \ gone
  OBVIOUS
<1>2. IsFiniteSet(R) /\ Cardinality(R) = Cardinality(D) - Cardinality(gone) /\ IsFiniteSet(gone)
  <2>1. D \cap gone = gone
    OBVIOUS
  <2>2. IsFiniteSet(gone)
    BY FS_Subset
  <2> QED
    BY <1>1, <2>1, <2>2, FS_Difference
<1>3. Cardinality(R) \in Nat /\ Cardinality(D) \in Nat /\ Cardinality(gone) \in Nat /\ Ceiling \in Nat /\ Ceiling > 0
  BY <1>2, FS_CardinalityType, SharedAssumption
<1>4. IsFiniteSet(R \cup {k}) /\ Cardinality(R \cup {k}) <= Cardinality(R) + 1
  BY <1>2, <1>3, FS_AddElement
<1>5. Cardinality(R) < Ceiling
  <2>1. CASE gone = D
    BY <1>2, <1>3, <2>1
  <2>2. CASE gone # D
    BY <1>2, <1>3, <2>2
  <2> QED
    BY <2>1, <2>2
<1>6. Cardinality(R \cup {k}) \in Nat
  BY <1>4, FS_CardinalityType
<1> QED
  BY <1>1, <1>3, <1>4, <1>5, <1>6

\* The fields: one who reads the counter below the limit is neither storing nor counting yet.
LEMMA FieldsRoom ==
  ASSUME NEW S \in SUBSET Threads, NEW C \in SUBSET Threads, S \cap C = {}, NEW t \in Threads, t \notin S, t \notin C
  PROVE  Cardinality(S) + Cardinality(C) <= Cardinality(Threads) - 1
         /\ Cardinality(S) \in Nat /\ Cardinality(C) \in Nat /\ Cardinality(Threads) \in Nat
<1>0. IsFiniteSet(Threads) /\ IsFiniteSet(S) /\ IsFiniteSet(C)
  BY FS_Subset, SharedAssumption
<1>1. IsFiniteSet(S \cup C) /\ Cardinality(S \cup C) = Cardinality(S) + Cardinality(C) - Cardinality({})
  BY <1>0, FS_Union
<1>2. IsFiniteSet(Threads \ {t}) /\ Cardinality(Threads \ {t}) = Cardinality(Threads) - 1
  BY <1>0, FS_RemoveElement
<1>3. Cardinality(S \cup C) <= Cardinality(Threads \ {t})
  <2>1. S \cup C \in SUBSET (Threads \ {t})
    OBVIOUS
  <2> QED
    BY <1>2, <2>1, FS_Subset
<1>4. Cardinality(S) \in Nat /\ Cardinality(C) \in Nat /\ Cardinality(Threads) \in Nat /\ Cardinality({}) = 0
  BY <1>0, FS_CardinalityType, FS_EmptySet
<1> QED
  BY <1>1, <1>2, <1>3, <1>4

\* The cache's part of the invariant, told by what a step makes of it.
LEMMA CacheKept ==
  ASSUME SharedInv, shared \in {"memo", "fields"}, NEW t \in Threads, NEW w \in {"idle", "miss", "store", "count"},
         Moves(t, w), DOMAIN arg' = Threads, DOMAIN left' = Threads, CacheInv'
  PROVE  SharedInv'
<1>1. SharedTypes
  BY DEF SharedInv
<1>2. pc' = [pc EXCEPT ![t] = w] /\ shared' = shared /\ doing' = doing /\ at' = at /\ got' = got /\ hold' = hold
  BY DEF Moves, resultVars
<1>3. pc' \in [Threads -> Places] /\ shared' \in {"slice", "map", "memo", "fields"}
  BY <1>1, <1>2 DEF SharedTypes, Places
<1>4. SharedTypes'
  BY <1>1, <1>2, <1>3 DEF SharedTypes
<1> QED
  BY <1>2, <1>4 DEF SharedInv

LEMMA CacheBeginning ==
  ASSUME SharedInv, shared \in {"memo", "fields"}
  PROVE  /\ SharedTypes /\ CacheInv
         /\ IsFiniteSet(Storing) /\ IsFiniteSet(Counting) /\ IsFiniteSet(DOMAIN data) /\ Ceiling \in Nat /\ Ceiling > 0
         /\ Cardinality(Storing) \in Nat /\ Cardinality(Counting) \in Nat /\ Cardinality(DOMAIN data) \in Nat
         /\ Cardinality(Threads) \in Nat
<1>1. SharedTypes /\ CacheInv
  BY DEF SharedInv
<1>2. Storing \in SUBSET Threads /\ Counting \in SUBSET Threads /\ IsFiniteSet(Threads)
  BY SharedAssumption DEF Storing, Counting
<1>3. IsFiniteSet(Storing) /\ IsFiniteSet(Counting) /\ IsFiniteSet(DOMAIN data)
  BY <1>1, <1>2, FS_Subset DEF CacheInv
<1> QED
  BY <1>1, <1>2, <1>3, FS_CardinalityType, SharedAssumption

\* Where a step's goroutine was and where it goes.
LEMMA Moved ==
  ASSUME SharedTypes, NEW t \in Threads, NEW w, pc' = [pc EXCEPT ![t] = w]
  PROVE  /\ Storing' = IF w = "store" THEN Storing \cup {t} ELSE Storing \ {t}
         /\ Counting' = IF w = "count" THEN Counting \cup {t} ELSE Counting \ {t}
         /\ \A u \in Threads : pc'[u] = IF u = t THEN w ELSE pc[u]
<1>1. \A u \in Threads : pc'[u] = IF u = t THEN w ELSE pc[u]
  BY DEF SharedTypes
<1>2. Storing' = IF w = "store" THEN Storing \cup {t} ELSE Storing \ {t}
  BY <1>1 DEF Storing
<1>3. Counting' = IF w = "count" THEN Counting \cup {t} ELSE Counting \ {t}
  BY <1>1 DEF Counting
<1> QED
  BY <1>1, <1>2, <1>3

LEMMA AskStep ==
  ASSUME SharedInv, shared \in {"memo", "fields"}, NEW t \in Threads, Ask(t)
  PROVE  SharedInv'
<1>1. PICK k \in SharedKeys :
        /\ pc[t] = "idle" /\ left[t] > 0
        /\ left' = [left EXCEPT ![t] = @ - 1]
        /\ Moves(t, IF k \in DOMAIN data THEN "idle" ELSE "miss")
        /\ arg' = [arg EXCEPT ![t] = IF k \in DOMAIN data THEN 0 ELSE k]
        /\ answers' = IF k \in DOMAIN data THEN answers \cup {<<k, data[k]>>} ELSE answers
        /\ UNCHANGED <<data, count>>
  BY Zenon DEF Ask
<1>2. SharedTypes /\ CacheInv
  BY CacheBeginning
<1>3. PICK w \in {"idle", "miss"} : w = IF k \in DOMAIN data THEN "idle" ELSE "miss"
  OBVIOUS
<1>4. Moves(t, w) /\ pc' = [pc EXCEPT ![t] = w] /\ shared' = shared /\ data' = data /\ count' = count
  BY <1>1, <1>3 DEF Moves
<1>5. DOMAIN arg' = Threads /\ DOMAIN left' = Threads
  BY <1>1, <1>2 DEF SharedTypes
<1>6. Storing' = Storing /\ Counting' = Counting /\ \A u \in Threads : pc'[u] = IF u = t THEN w ELSE pc[u]
  <2>1. t \notin Storing /\ t \notin Counting /\ w # "store" /\ w # "count"
    BY <1>1, <1>3 DEF Storing, Counting
  <2>2. /\ Storing' = IF w = "store" THEN Storing \cup {t} ELSE Storing \ {t}
        /\ Counting' = IF w = "count" THEN Counting \cup {t} ELSE Counting \ {t}
        /\ \A u \in Threads : pc'[u] = IF u = t THEN w ELSE pc[u]
    BY <1>2, <1>4, Moved
  <2> QED
    BY <2>1, <2>2
<1>7. \A a \in answers' : a[2] = Truth(a[1])
  <2> SUFFICES ASSUME NEW a \in answers' PROVE a[2] = Truth(a[1])
    OBVIOUS
  <2>1. CASE a \in answers
    BY <1>2, <2>1 DEF CacheInv
  <2>2. CASE a \notin answers
    <3>1. k \in DOMAIN data /\ a = <<k, data[k]>>
      BY <1>1, <2>2
    <3>2. a[1] = k /\ a[2] = data[k]
      BY <3>1
    <3> QED
      BY <1>2, <3>1, <3>2 DEF CacheInv
  <2> QED
    BY <2>1, <2>2
<1>8. CacheInv'
  <2>1. \A u \in Threads : pc'[u] \in {"idle", "miss", "store", "count"}
    BY <1>2, <1>6 DEF CacheInv
  <2> QED
    BY <1>2, <1>4, <1>6, <1>7, <2>1 DEF CacheInv
<1> QED
  BY <1>3, <1>4, <1>5, <1>8, CacheKept

LEMMA SetMemoStep ==
  ASSUME SharedInv, shared \in {"memo", "fields"}, NEW t \in Threads, SetMemo(t)
  PROVE  SharedInv'
<1>1. PICK gone \in Evicted(data) :
        /\ shared = "memo" /\ pc[t] = "miss"
        /\ data' = Stored([x \in DOMAIN data \ gone |-> data[x]], arg[t])
        /\ Moves(t, "idle")
        /\ UNCHANGED <<count, answers, arg, left>>
  BY Zenon DEF SetMemo
<1>2. SharedTypes /\ CacheInv /\ IsFiniteSet(DOMAIN data) /\ Cardinality(DOMAIN data) \in Nat /\ Ceiling \in Nat
  BY CacheBeginning
<1>3. PICK D, k, d : D = DOMAIN data /\ k = arg[t] /\ d = [x \in D \ gone |-> data[x]]
  OBVIOUS
<1>4. gone \in SUBSET D /\ (Cardinality(D) < Ceiling \/ gone = D \/ Cardinality(gone) > 0)
  <2>1. CASE ~Full(data)
    <3>1. gone = {}
      BY <2>1 DEF Evicted
    <3>2. Cardinality(D) < Ceiling
      BY <1>2, <1>3, <2>1 DEF Full
    <3> QED
      BY <3>1, <3>2
  <2>2. CASE Full(data)
    <3>1. gone \in SUBSET DOMAIN data /\ (Cardinality(gone) = Batch \/ gone = DOMAIN data)
      BY <2>2 DEF Evicted
    <3>2. Batch > 0
      BY SharedAssumption
    <3> QED
      BY <1>3, <3>1, <3>2
  <2> QED
    BY <2>1, <2>2
<1>5. data' = Stored(d, k) /\ DOMAIN d = D \ gone /\ \A x \in D \ gone : d[x] = data[x]
  BY <1>1, <1>3
<1>6. DOMAIN data' = (D \ gone) \cup {k} /\ \A x \in DOMAIN data' : data'[x] = IF x = k THEN Truth(k) ELSE d[x]
  <2>1. /\ DOMAIN Stored(d, k) = DOMAIN d \cup {k}
        /\ \A x \in DOMAIN d \cup {k} : Stored(d, k)[x] = IF x = k THEN Truth(k) ELSE d[x]
    BY StoredEntry, Zenon
  <2> QED
    BY <1>5, <2>1, Zenon
<1>7. IsFiniteSet(DOMAIN data') /\ Cardinality(DOMAIN data') <= Ceiling
  <2>1. IsFiniteSet(D) /\ Cardinality(D) <= Ceiling
    BY <1>1, <1>2, <1>3 DEF CacheInv
  <2>2. IsFiniteSet((D \ gone) \cup {k}) /\ Cardinality((D \ gone) \cup {k}) <= Ceiling
    BY <1>4, <2>1, MemoRoom, Zenon
  <2> QED
    BY <1>6, <2>2, Zenon
<1>8. \A x \in DOMAIN data' : data'[x] = Truth(x)
  <2> SUFFICES ASSUME NEW x \in DOMAIN data' PROVE data'[x] = Truth(x)
    OBVIOUS
  <2>1. CASE x = k
    BY <1>6, <2>1
  <2>2. CASE x # k
    <3>1. x \in D \ gone /\ data'[x] = d[x]
      BY <1>6, <2>2
    <3>2. data'[x] = data[x]
      BY <1>5, <3>1
    <3> QED
      BY <1>2, <1>3, <3>1, <3>2 DEF CacheInv
  <2> QED
    BY <2>1, <2>2
<1>9. pc' = [pc EXCEPT ![t] = "idle"] /\ shared' = shared /\ shared' # "fields" /\ answers' = answers
  BY <1>1 DEF Moves
<1>10. \A u \in Threads : pc'[u] \in {"idle", "miss", "store", "count"}
  BY <1>2, <1>9, Moved DEF CacheInv
<1>11. CacheInv'
  BY <1>2, <1>7, <1>8, <1>9, <1>10 DEF CacheInv
<1>12. DOMAIN arg' = Threads /\ DOMAIN left' = Threads
  BY <1>1, <1>2 DEF SharedTypes
<1> QED
  BY <1>1, <1>11, <1>12, CacheKept

LEMMA CheckCountStep ==
  ASSUME SharedInv, shared \in {"memo", "fields"}, NEW t \in Threads, CheckCount(t)
  PROVE  SharedInv'
<1>1. shared = "fields" /\ pc[t] = "miss" /\ Moves(t, IF count >= Ceiling THEN "idle" ELSE "store")
      /\ UNCHANGED <<data, count, answers, arg, left>>
  BY DEF CheckCount, cacheVars
<1>2. /\ SharedTypes /\ CacheInv /\ IsFiniteSet(Storing) /\ Cardinality(Storing) \in Nat /\ Cardinality(Counting) \in Nat
      /\ Cardinality(DOMAIN data) \in Nat /\ Ceiling \in Nat
  BY CacheBeginning
<1>3. PICK w \in {"idle", "store"} : w = IF count >= Ceiling THEN "idle" ELSE "store"
  OBVIOUS
<1>4. Moves(t, w) /\ pc' = [pc EXCEPT ![t] = w] /\ shared' = shared
  BY <1>1, <1>3 DEF Moves
<1>5. t \notin Storing /\ t \notin Counting /\ Storing \cap Counting = {} /\ Storing \in SUBSET Threads /\ Counting \in SUBSET Threads
  BY <1>1 DEF Storing, Counting
<1>6. Counting' = Counting /\ (w = "idle" => Storing' = Storing) /\ (w = "store" => Storing' = Storing \cup {t})
      /\ \A u \in Threads : pc'[u] = IF u = t THEN w ELSE pc[u]
  <2>1. /\ Storing' = IF w = "store" THEN Storing \cup {t} ELSE Storing \ {t}
        /\ Counting' = IF w = "count" THEN Counting \cup {t} ELSE Counting \ {t}
        /\ \A u \in Threads : pc'[u] = IF u = t THEN w ELSE pc[u]
    BY <1>2, <1>4, Moved
  <2> QED
    BY <1>5, <2>1
<1>7. \A u \in Threads : pc'[u] \in {"idle", "miss", "store", "count"}
  BY <1>2, <1>6 DEF CacheInv
<1>8. Cardinality(DOMAIN data) + Cardinality(Storing') <= Ceiling + Cardinality(Threads) - 1
  <2>1. CASE w = "idle"
    BY <1>1, <1>2, <1>6, <2>1 DEF CacheInv
  <2>2. CASE w = "store"
    <3>1. count = Cardinality(DOMAIN data) - Cardinality(Counting) /\ count < Ceiling
      BY <1>1, <1>2, <1>3, <2>2 DEF CacheInv
    <3>2. Cardinality(Storing) + Cardinality(Counting) <= Cardinality(Threads) - 1 /\ Cardinality(Threads) \in Nat
      BY <1>5, FieldsRoom
    <3>3. Cardinality(Storing') = Cardinality(Storing) + 1
      BY <1>2, <1>5, <1>6, <2>2, FS_AddElement
    <3> QED
      BY <1>2, <3>1, <3>2, <3>3
  <2> QED
    BY <2>1, <2>2
<1>9. CacheInv'
  BY <1>1, <1>2, <1>4, <1>6, <1>7, <1>8 DEF CacheInv
<1>10. DOMAIN arg' = Threads /\ DOMAIN left' = Threads
  BY <1>1, <1>2 DEF SharedTypes
<1> QED
  BY <1>3, <1>4, <1>9, <1>10, CacheKept

LEMMA LoadOrStoreStep ==
  ASSUME SharedInv, shared \in {"memo", "fields"}, NEW t \in Threads, LoadOrStore(t)
  PROVE  SharedInv'
<1>1. shared = "fields" /\ pc[t] = "store" /\ UNCHANGED <<count, answers, arg, left>> /\ Moves(t, AfterStore(arg[t]))
      /\ data' = IF arg[t] \in DOMAIN data THEN data ELSE Stored(data, arg[t])
  BY DEF LoadOrStore
<1>2. /\ SharedTypes /\ CacheInv /\ IsFiniteSet(Storing) /\ Cardinality(Storing) \in Nat /\ Cardinality(Counting) \in Nat
      /\ IsFiniteSet(Counting) /\ IsFiniteSet(DOMAIN data) /\ Cardinality(DOMAIN data) \in Nat /\ Ceiling \in Nat
      /\ Cardinality(Threads) \in Nat
  BY CacheBeginning
<1>3. PICK k, D : k = arg[t] /\ D = DOMAIN data
  OBVIOUS
<1>4. PICK w \in {"idle", "count"} : w = IF k \in D THEN "idle" ELSE "count"
  OBVIOUS
<1>5. Moves(t, w) /\ pc' = [pc EXCEPT ![t] = w] /\ shared' = shared
  BY <1>1, <1>3, <1>4 DEF Moves, AfterStore
<1>6. t \in Storing /\ t \notin Counting
  BY <1>1 DEF Storing, Counting
<1>7. Storing' = Storing \ {t} /\ (w = "idle" => Counting' = Counting) /\ (w = "count" => Counting' = Counting \cup {t})
      /\ \A u \in Threads : pc'[u] = IF u = t THEN w ELSE pc[u]
  <2>1. /\ Storing' = IF w = "store" THEN Storing \cup {t} ELSE Storing \ {t}
        /\ Counting' = IF w = "count" THEN Counting \cup {t} ELSE Counting \ {t}
        /\ \A u \in Threads : pc'[u] = IF u = t THEN w ELSE pc[u]
    BY <1>2, <1>5, Moved
  <2> QED
    BY <1>6, <2>1
<1>8. \A u \in Threads : pc'[u] \in {"idle", "miss", "store", "count"}
  BY <1>2, <1>7 DEF CacheInv
<1>9. Cardinality(Storing') = Cardinality(Storing) - 1
  BY <1>2, <1>6, <1>7, FS_RemoveElement
<1>10. count = Cardinality(D) - Cardinality(Counting)
       /\ Cardinality(D) + Cardinality(Storing) <= Ceiling + Cardinality(Threads) - 1
       /\ (\A x \in D : data[x] = Truth(x)) /\ \A a \in answers : a[2] = Truth(a[1])
  BY <1>1, <1>2, <1>3 DEF CacheInv
<1>11. /\ IsFiniteSet(DOMAIN data') /\ (\A x \in DOMAIN data' : data'[x] = Truth(x))
       /\ count = Cardinality(DOMAIN data') - Cardinality(Counting')
       /\ Cardinality(DOMAIN data') + Cardinality(Storing') <= Ceiling + Cardinality(Threads) - 1
  <2>1. CASE k \in D
    <3>1. data' = data /\ Counting' = Counting /\ DOMAIN data' = D
      BY <1>1, <1>3, <1>4, <1>7, <2>1
    <3> QED
      BY <1>2, <1>3, <1>9, <1>10, <3>1
  <2>2. CASE k \notin D
    <3>1. data' = Stored(data, k) /\ Counting' = Counting \cup {t}
      BY <1>1, <1>3, <1>4, <1>7, <2>2
    <3>2. DOMAIN data' = D \cup {k} /\ \A x \in D \cup {k} : data'[x] = IF x = k THEN Truth(k) ELSE data[x]
      <4>1. /\ DOMAIN Stored(data, k) = DOMAIN data \cup {k}
            /\ \A x \in DOMAIN data \cup {k} : Stored(data, k)[x] = IF x = k THEN Truth(k) ELSE data[x]
        BY StoredEntry, Zenon
      <4> QED
        BY <1>3, <3>1, <4>1, Zenon
    <3>3. IsFiniteSet(D \cup {k}) /\ Cardinality(D \cup {k}) = Cardinality(D) + 1
      BY <1>2, <1>3, <2>2, FS_AddElement
    <3>4. Cardinality(Counting') = Cardinality(Counting) + 1
      BY <1>2, <1>6, <3>1, FS_AddElement
    <3>5. \A x \in DOMAIN data' : data'[x] = Truth(x)
      BY <1>10, <3>2
    <3>6. Cardinality(D) \in Nat
      BY <1>2, <1>3
    <3>7. count = Cardinality(DOMAIN data') - Cardinality(Counting')
          /\ Cardinality(DOMAIN data') + Cardinality(Storing') <= Ceiling + Cardinality(Threads) - 1
      <4>1. count = Cardinality(D) - Cardinality(Counting) /\ Cardinality(D) + Cardinality(Storing) <= Ceiling + Cardinality(Threads) - 1
        BY <1>10
      <4>2. Cardinality(DOMAIN data') = Cardinality(D) + 1
        BY <3>2, <3>3
      <4> QED
        BY <1>2, <1>9, <3>4, <3>6, <4>1, <4>2
    <3> QED
      BY <3>2, <3>3, <3>5, <3>7
  <2> QED
    BY <2>1, <2>2
<1>12. CacheInv'
  BY <1>1, <1>5, <1>8, <1>10, <1>11 DEF CacheInv
<1>13. DOMAIN arg' = Threads /\ DOMAIN left' = Threads
  BY <1>1, <1>2 DEF SharedTypes
<1> QED
  BY <1>4, <1>5, <1>12, <1>13, CacheKept

LEMMA CountStep ==
  ASSUME SharedInv, shared \in {"memo", "fields"}, NEW t \in Threads, Count(t)
  PROVE  SharedInv'
<1>1. shared = "fields" /\ pc[t] = "count" /\ count' = count + 1 /\ Moves(t, "idle") /\ UNCHANGED <<data, answers, arg, left>>
  BY DEF Count
<1>2. /\ SharedTypes /\ CacheInv /\ Cardinality(Counting) \in Nat /\ IsFiniteSet(Counting)
      /\ Cardinality(DOMAIN data) \in Nat
  BY CacheBeginning
<1>3. pc' = [pc EXCEPT ![t] = "idle"] /\ shared' = shared
  BY <1>1 DEF Moves
<1>4. t \notin Storing /\ t \in Counting
  BY <1>1 DEF Storing, Counting
<1>5. Storing' = Storing /\ Counting' = Counting \ {t} /\ \A u \in Threads : pc'[u] = IF u = t THEN "idle" ELSE pc[u]
  <2>1. /\ Storing' = Storing \ {t} /\ Counting' = Counting \ {t}
        /\ \A u \in Threads : pc'[u] = IF u = t THEN "idle" ELSE pc[u]
    BY <1>2, <1>3, Moved, ZenonT(40)
  <2> QED
    BY <1>4, <2>1
<1>6. \A u \in Threads : pc'[u] \in {"idle", "miss", "store", "count"}
  BY <1>2, <1>5 DEF CacheInv
<1>7. Cardinality(Counting') = Cardinality(Counting) - 1
  BY <1>2, <1>4, <1>5, FS_RemoveElement
<1>8. count' = Cardinality(DOMAIN data) - Cardinality(Counting')
  BY <1>1, <1>2, <1>7 DEF CacheInv
<1>9. CacheInv'
  BY <1>1, <1>2, <1>3, <1>5, <1>6, <1>8 DEF CacheInv
<1>10. DOMAIN arg' = Threads /\ DOMAIN left' = Threads
  BY <1>1, <1>2 DEF SharedTypes
<1> QED
  BY <1>1, <1>9, <1>10, CacheKept

-----------------------------------------------------------------------------
(* The specification *)

LEMMA SharedStart ==
  ASSUME SharedInit
  PROVE  SharedInv
<1>1. Untouched
  BY DEF SharedInit
<1>2. shared \in {"slice", "map", "memo", "fields"}
  BY DEF SharedInit
<1>3. \A t \in Threads : pc[t] = "idle"
  BY <1>1 DEF Untouched
<1>4. SharedTypes
  <2>1. pc \in [Threads -> Places]
    BY <1>1 DEF Untouched, Places
  <2>2. DOMAIN doing = Threads /\ DOMAIN arg = Threads /\ DOMAIN at = Threads
        /\ DOMAIN got = Threads /\ DOMAIN hold = Threads /\ DOMAIN left = Threads
    BY <1>1 DEF Untouched
  <2> QED
    BY <1>2, <2>1, <2>2 DEF SharedTypes
<1>5. LockInv
  <2>1. writer = Nobody /\ readers = {} /\ answers = {}
    BY <1>1 DEF Untouched
  <2>2. \A t \in Threads : t # Nobody
    BY SharedAssumption
  <2> QED
    BY <1>3, <2>1, <2>2 DEF LockInv
<1>6. ASSUME shared = "slice" PROVE SliceInv
  <2>1. PICK s \in Slices : /\ heap = IF s = <<>> THEN <<>> ELSE <<s>>
                            /\ header = IF s = <<>> THEN NoHeader ELSE [arr |-> 1, len |-> Len(s)]
    BY <1>6 DEF SharedInit
  <2>2. s \in Seq(Int) /\ Len(s) \in Nat
    BY SharedAssumption, LenProperties
  <2>3. heap \in Seq(Seq(Int)) /\ Points(header)
    <3>1. CASE s = <<>>
      BY <2>1, <3>1 DEF Points, NoHeader
    <3>2. CASE s # <<>>
      <4>1. heap = <<s>> /\ header = [arr |-> 1, len |-> Len(s)]
        BY <2>1, <3>2
      <4>2. heap \in Seq(Seq(Int)) /\ Len(heap) = 1 /\ heap[1] = s
        BY <2>2, <4>1
      <4>3. header.arr = 1 /\ header.len = Len(s) /\ header \in [arr : Nat, len : Nat]
        BY <2>2, <4>1
      <4> QED
        BY <2>2, <4>2, <4>3 DEF Points
    <3> QED
      BY <3>1, <3>2
  <2>4. ShotsKept
    BY <1>1 DEF Untouched, ShotsKept
  <2>5. \A t \in Threads : SliceThread(t)
    BY <1>3 DEF SliceThread, SliceBegun, SliceRead, SliceCut, SliceGrown, SliceDone
  <2> QED
    BY <2>3, <2>4, <2>5 DEF SliceInv
<1>7. ASSUME shared = "map" PROVE MapInv
  <2>1. PICK m \in Maps : heap = <<m>> /\ header = [arr |-> 1, len |-> 0] /\ made = (m # nilMap) /\ guarded \in BOOLEAN
    BY <1>7 DEF SharedInit
  <2>2. Len(heap) = 1 /\ heap[1] = m /\ heap \in Seq({m})
    BY <2>1
  <2>3. heap \in Seq(Range(heap))
    BY <2>2, SeqOfRange
  <2>4. made \in BOOLEAN /\ (made = FALSE => heap[1] = nilMap)
    BY <2>1, <2>2
  <2>5. \A t \in Threads : MapThread(t)
    BY <1>3 DEF MapThread
  <2>6. shots = {}
    BY <1>1 DEF Untouched
  <2> QED
    BY <2>1, <2>2, <2>3, <2>4, <2>5, <2>6 DEF MapInv
<1>8. ASSUME shared \in {"memo", "fields"} PROVE CacheInv
  <2>1. data = nilMap /\ count = 0 /\ answers = {}
    BY <1>1 DEF Untouched
  <2>2. DOMAIN data = {} /\ Storing = {} /\ Counting = {}
    BY <1>3, <2>1 DEF nilMap, Storing, Counting
  <2>3. IsFiniteSet({}) /\ Cardinality({}) = 0 /\ Cardinality(Threads) \in Nat /\ Ceiling \in Nat /\ Ceiling > 0
    BY FS_EmptySet, FS_CardinalityType, SharedAssumption
  <2> QED
    BY <1>3, <2>1, <2>2, <2>3 DEF CacheInv
<1> QED
  BY <1>4, <1>5, <1>6, <1>7, <1>8 DEF SharedInv

LEMMA SharedStutter ==
  ASSUME SharedInv, UNCHANGED sharedVars
  PROVE  SharedInv'
<1>1. UNCHANGED <<shared, guarded, heap, header, made, shots, writer, readers, data, count, answers>>
      /\ UNCHANGED <<pc, doing, arg, at, left, got, hold>>
  BY DEF sharedVars, valueVars, lockVars, cacheVars, opVars, resultVars
<1>2. SharedTypes'
  BY <1>1 DEF SharedInv, SharedTypes
<1>3. ASSUME shared \in {"slice", "map"} PROVE LockInv'
  BY <1>1, <1>3 DEF SharedInv, LockInv
<1>4. ASSUME shared = "slice" PROVE SliceInv'
  <2>1. SliceInv
    BY <1>4 DEF SharedInv
  <2>2. \A u \in Threads : SliceThread(u)'
    BY <1>1, <2>1, LeftAlone DEF SliceInv
  <2> QED
    BY <1>1, <2>1, <2>2, ValueKept DEF SliceInv
<1>5. ASSUME shared = "map" PROVE MapInv'
  <2>1. MapInv
    BY <1>5 DEF SharedInv
  <2>2. \A u \in Threads : MapThread(u)'
    BY <1>1, <2>1, MapQuiet DEF MapInv
  <2> QED
    BY <1>1, <2>1, <2>2, ValueKept DEF MapInv
<1>6. ASSUME shared \in {"memo", "fields"} PROVE CacheInv'
  BY <1>1, <1>6 DEF SharedInv, CacheInv, Storing, Counting
<1> QED
  BY <1>1, <1>2, <1>3, <1>4, <1>5, <1>6 DEF SharedInv

LEMMA SharedSteps ==
  ASSUME SharedInv, [SharedNext]_sharedVars
  PROVE  SharedInv'
<1>1. CASE Lock
  BY <1>1, LockStep
<1>2. CASE Unlock
  BY <1>2, UnlockStep
<1>3. CASE SliceStep
  <2>1. PICK t \in Threads : /\ shared = "slice"
                             /\ \/ Refuse(t) \/ Assign(t) \/ Shift(t) \/ Shorten(t) \/ Extend(t) \/ Replace(t)
                                \/ Rearrange(t) \/ TakeHeader(t) \/ Look(t) \/ Snapshot(t)
    BY <1>3, Zenon DEF SliceStep
  <2> QED
    BY <2>1, RefuseStep, AssignStep, ShiftStep, ShortenStep, ExtendStep, ReplaceStep, RearrangeStep,
       TakeHeaderStep, LookStep, SnapshotStep
<1>4. CASE MapStep
  <2>1. PICK t \in Threads : shared = "map" /\ (WriteMap(t) \/ LookUp(t) \/ CloneMap(t))
    BY <1>4, Zenon DEF MapStep
  <2> QED
    BY <2>1, WriteMapStep, LookUpStep, CloneMapStep
<1>5. CASE CacheStep
  <2>1. PICK t \in Threads : shared \in {"memo", "fields"}
                             /\ (Ask(t) \/ SetMemo(t) \/ CheckCount(t) \/ LoadOrStore(t) \/ Count(t))
    BY <1>5, Zenon DEF CacheStep
  <2> QED
    BY <2>1, AskStep, SetMemoStep, CheckCountStep, LoadOrStoreStep, CountStep
<1>6. CASE UNCHANGED sharedVars
  BY <1>6, SharedStutter
<1> QED
  BY <1>1, <1>2, <1>3, <1>4, <1>5, <1>6 DEF SharedNext

LEMMA SharedHolds ==
  ASSUME SharedInv
  PROVE  SharedStateHolds
<1>1. SharedTypes
  BY DEF SharedInv
<1>2. OperationsLookAtomic
  <2>1. ASSUME shared = "slice"
        PROVE  /\ \A t \in Threads : pc[t] = "unlock" =>
                    /\ Contents(header) = SliceEffect(doing[t], arg[t], at[t], t)
                    /\ got[t] \in SliceResults(doing[t], arg[t], at[t])
               /\ \A s \in shots : Contents(s.ref) = s.val
    <3>1. SliceInv /\ \A h : Contents(h) = View(h)
      BY <2>1, ContentsOfSlice DEF SharedInv
    <3> QED
      BY <3>1 DEF SliceInv, SliceThread, SliceDone, ShotsKept
  <2>2. ASSUME shared = "map"
        PROVE  /\ \A t \in Threads : pc[t] = "unlock" =>
                    /\ Contents(header) = MapEffect(doing[t], arg[t], at[t], t)
                    /\ got[t] \in MapResults(doing[t], arg[t], at[t])
               /\ ~made => Contents(header) = nilMap
               /\ \A s \in shots : Contents(s.ref) = s.val
    <3>1. MapInv /\ \A h : Contents(h) = heap[h.arr]
      BY <2>2 DEF SharedInv, Contents
    <3>2. Contents(header) = heap[1]
      BY <3>1 DEF MapInv
    <3> QED
      BY <3>1, <3>2 DEF MapInv, MapThread
  <2>3. ASSUME shared \in {"slice", "map"}
        PROVE  {t \in Threads : pc[t] # "idle"} = readers \cup ({writer} \ {Nobody})
    <3>1. LockInv
      BY <2>3 DEF SharedInv
    <3>2. \A t \in Threads : t # Nobody
      BY SharedAssumption
    <3> QED
      BY <3>1, <3>2 DEF LockInv
  <2> QED
    BY <2>1, <2>2, <2>3 DEF OperationsLookAtomic
<1>3. CachesStayBounded
  <2>1. CASE shared \in {"slice", "map"}
    <3>1. answers = {}
      BY <2>1 DEF SharedInv, LockInv
    <3> QED
      BY <2>1, <3>1 DEF CachesStayBounded
  <2>2. CASE shared \in {"memo", "fields"}
    <3>1. /\ CacheInv /\ Cardinality(Storing) \in Nat /\ Cardinality(DOMAIN data) \in Nat /\ Ceiling \in Nat
          /\ Cardinality(Threads) \in Nat
      BY <2>2, CacheBeginning
    <3>2. shared = "fields" => Cardinality(DOMAIN data) <= Ceiling + Cardinality(Threads) - 1
      BY <3>1 DEF CacheInv
    <3> QED
      BY <3>1, <3>2 DEF CachesStayBounded, CacheInv, Counting
  <2> QED
    BY <1>1, <2>1, <2>2 DEF SharedTypes
<1> QED
  BY <1>2, <1>3 DEF SharedStateHolds

\* The invariant holds of every state of the shared slice, the shared map and the two caches.
THEOREM SharedInvHolds == SharedSpec => []SharedInv
<1>1. SharedInit => SharedInv
  BY SharedStart
<1>2. SharedInv /\ [SharedNext]_sharedVars => SharedInv'
  BY SharedSteps
<1> QED
  BY <1>1, <1>2, PTL DEF SharedSpec

\* SharedStateHolds: an operation on a shared slice or map sees and leaves it as if it ran alone,
\* for any number of goroutines, operations and elements; snapshots keep; no cache passes its limit.
THEOREM SharedOperationsAreSound == SharedSpec => []SharedStateHolds
<1>1. SharedInv => SharedStateHolds
  BY SharedHolds
<1> QED
  BY <1>1, SharedInvHolds, PTL

-----------------------------------------------------------------------------
(* Subscriptions (PubSub): types and the inductive invariant *)

ReceiverPlaces == {"idle", "waiting", "message", "terminated", "ErrNoSubscription", "ErrSubscriptionClosed", "lost", "cancelled"}

FlowTypes == feed \in Seq(Nat) /\ published \in Nat /\ offered \in Nat /\ received \in Seq(Nat) /\ dropped \subseteq Nat

Increasing(s) == \A i, j \in DOMAIN s : i < j => s[i] < s[j]

\* The messages that were received, the one that is offered and those that are fed are, in this
\* order, in the order they were published in.
OrderInv ==
  /\ Increasing(received) /\ Increasing(feed)
  /\ \A i \in DOMAIN received : received[i] \in 1..published
  /\ \A j \in DOMAIN feed : feed[j] \in 1..published
  /\ offered \in 0..published
  /\ \A i \in DOMAIN received, j \in DOMAIN feed : received[i] < feed[j]
  /\ offered # 0 => /\ \A i \in DOMAIN received : received[i] < offered
                    /\ \A j \in DOMAIN feed : offered < feed[j]
  /\ Redis => offered = 0

\* A message that was dropped was not received, and is before every one that may still be.
DropInv ==
  /\ dropped # {} => subctx = "done"
  /\ \A d \in dropped : /\ d <= published
                        /\ \A i \in DOMAIN received : received[i] # d
                        /\ \A j \in DOMAIN feed : d < feed[j]
                        /\ offered # 0 => d < offered

\* None is missing while the subscription lasts.
WholeInv ==
  ~Redis /\ subctx = "live" =>
    \A m \in 1..published : \/ \E i \in DOMAIN received : received[i] = m
                            \/ \E j \in DOMAIN feed : feed[j] = m
                            \/ offered = m

FlowInv == FlowTypes /\ OrderInv /\ DropInv /\ WholeInv

\* The reason a subscription ended for is there before its channel is closed, and is the
\* client's own doing only after Close began.
EndInv ==
  /\ recv \in [Receivers -> ReceiverPlaces]
  /\ subctx \in {"live", "done"}
  /\ suberr \in {"unset", "cancelled", "lost"}
  /\ ~Redis /\ msgch = "closed" => suberr # "unset"
  /\ closing \in {"cancel", "client"} => closeFlag = TRUE
  /\ subctx = "done" => closeFlag = TRUE
  /\ suberr = "cancelled" => closeFlag = TRUE
  /\ reason # "raced"
  /\ \A r \in Receivers : recv[r] # "cancelled"

KeyInv ==
  /\ asked \in Int
  /\ asked > 0 /\ stored # "none" => ttl # NoExpiry /\ (ttl <= asked \/ ttl = Millisecond)
  /\ found = "undecodable" => stored = "undecodable"
  /\ asked = 0 => found # "undecodable"

CloseInv ==
  /\ closes = IF closing = "done" THEN 1 ELSE 0
  /\ closeResults \subseteq {closeErr}
  /\ closing # "done" => closeResults = {}

SubInv == FlowInv /\ EndInv /\ KeyInv /\ CloseInv

-----------------------------------------------------------------------------
(* Expiries *)

LEMMA Quotient ==
  ASSUME NEW x \in Int, NEW m \in Nat \ {0}, x >= m
  PROVE  (x \div m) * m <= x /\ (x \div m) * m # 0 /\ (x \div m) * m \in Int
<1>1. PICK q \in Int : q = x \div m
  OBVIOUS
<1>2. x = m * q + (x % m) /\ x % m \in 0..(m - 1)
  BY <1>1
<1>3. q >= 1
  <2>1. SUFFICES ASSUME q <= 0 PROVE FALSE
    BY <1>1
  <2>2. m * q <= 0
    BY <2>1, <1>1
  <2> QED BY <1>2, <2>2
<1>4. q * m <= x
  BY <1>1, <1>2
<1>5. q * m >= m
  BY <1>1, <1>3
<1> QED BY <1>1, <1>4, <1>5

LEMMA ExpiryIsKept ==
  ASSUME NEW e \in Int, e > 0
  PROVE  /\ RedisSet(e) # NoExpiry /\ (RedisSet(e) <= e \/ RedisSet(e) = Millisecond)
         /\ ValkeySet(e) # NoExpiry /\ (ValkeySet(e) <= e \/ ValkeySet(e) = Millisecond)
<1>1. Millisecond \in Nat \ {0} /\ Second \in Nat \ {0}
  BY ExpiryAssumption
<1>2. CASE e < Millisecond
  BY <1>1, <1>2 DEF RedisSet, ValkeySet, NoExpiry
<1>3. CASE e >= Millisecond
  <2>1. (e \div Millisecond) * Millisecond <= e /\ (e \div Millisecond) * Millisecond # 0 /\ (e \div Millisecond) * Millisecond \in Int
    BY <1>1, <1>3, Quotient
  <2>2. PICK p \in Int : p = (e \div Millisecond) * Millisecond
    BY <2>1
  <2>3. p <= e /\ p # 0
    BY <2>1, <2>2
  <2>4. RedisSet(e) = p
    BY <1>1, <1>3, <2>2 DEF RedisSet
  <2>5. CASE e % Second = 0
    <3>1. e >= Second
      BY <1>1, <2>5
    <3>2. (e \div Second) * Second <= e /\ (e \div Second) * Second # 0 /\ (e \div Second) * Second \in Int
      BY <1>1, <3>1, Quotient
    <3>3. PICK q \in Int : q = (e \div Second) * Second
      BY <3>2
    <3>4. q <= e /\ q # 0
      BY <3>2, <3>3
    <3>5. ValkeySet(e) = q
      BY <1>1, <1>3, <2>5, <3>3 DEF ValkeySet
    <3> QED BY <2>3, <2>4, <3>4, <3>5 DEF NoExpiry
  <2>6. CASE e % Second # 0
    <3>1. ValkeySet(e) = p
      BY <1>1, <1>3, <2>2, <2>6 DEF ValkeySet
    <3> QED BY <2>3, <2>4, <3>1 DEF NoExpiry
  <2> QED BY <2>5, <2>6
<1> QED BY <1>1, <1>2, <1>3

LEMMA KeysStep == KeyInv /\ [SubNext]_subVars => KeyInv'
<1> SUFFICES ASSUME KeyInv, [SubNext]_subVars PROVE KeyInv'
  OBVIOUS
<1>1. CASE SetData
  <2>1. PICK exp \in Expiries, good \in BOOLEAN :
          /\ asked = 0 /\ exp # 0 /\ asked' = exp /\ found' = found
          /\ stored' = IF good THEN "value" ELSE "undecodable"
          /\ ttl' = IF Redis THEN RedisSet(exp) ELSE ValkeySet(exp)
    BY <1>1, Zenon DEF SetData
  <2>2. exp \in Int
    BY <2>1, ExpiryAssumption
  <2>3. exp > 0 => ttl' # NoExpiry /\ (ttl' <= exp \/ ttl' = Millisecond)
    BY <2>1, <2>2, ExpiryIsKept
  <2>4. found' # "undecodable"
    BY <2>1 DEF KeyInv
  <2>5. asked' \in Int /\ asked' = exp
    BY <2>1, <2>2
  <2> QED BY <2>3, <2>4, <2>5 DEF KeyInv, NoExpiry
<1>2. CASE GetData
  BY <1>2 DEF KeyInv, GetData, keyVars
<1>3. CASE Del
  BY <1>3 DEF KeyInv, Del
<1>4. CASE UNCHANGED keyVars
  BY <1>4 DEF KeyInv, keyVars
<1>5. SetData \/ GetData \/ Del \/ UNCHANGED keyVars
  BY DEF SubNext, subVars, Publish, Break, Callback, Drop, subscribe, Receive, ReceiveDone, ReceiveMessage, ReceiveClosed, Again,
         CancelReceive, ValkeyClose, RedisClose, RecvMoves
<1> QED BY <1>1, <1>2, <1>3, <1>4, <1>5

LEMMA CloseStep == CloseInv /\ [SubNext]_subVars => CloseInv'
<1> SUFFICES ASSUME CloseInv, [SubNext]_subVars PROVE CloseInv'
  OBVIOUS
<1>1. CASE ValkeyClose
  BY <1>1 DEF CloseInv, ValkeyClose
<1>2. CASE RedisClose
  <2>1. CASE closing = "no"
    <3>1. closes = 0 /\ closeResults = {}
      BY <2>1 DEF CloseInv
    <3>2. closing' = "done" /\ closes' = closes + 1 /\ closeResults' = closeResults
      BY <1>2, <2>1 DEF RedisClose
    <3> QED BY <3>1, <3>2 DEF CloseInv
  <2>2. CASE closing # "no"
    BY <1>2, <2>2 DEF CloseInv, RedisClose
  <2> QED BY <2>1, <2>2
<1>3. CASE UNCHANGED closeVars
  BY <1>3 DEF CloseInv, closeVars
<1>4. ValkeyClose \/ RedisClose \/ UNCHANGED closeVars
  BY DEF SubNext, subVars, SetData, GetData, Del, Publish, Break, Callback, Drop, subscribe, Receive, ReceiveDone, ReceiveMessage,
         ReceiveClosed, Again, CancelReceive, RecvMoves
<1> QED BY <1>1, <1>2, <1>3, <1>4

LEMMA EndStep == EndInv /\ [SubNext]_subVars => EndInv'
<1> SUFFICES ASSUME EndInv, [SubNext]_subVars PROVE EndInv'
  OBVIOUS
<1>1. CASE subscribe
  BY <1>1 DEF EndInv, subscribe, recvVars, closeVars, flowVars, Redis
<1>2. CASE Receive
  BY <1>2 DEF EndInv, Receive, RecvMoves, endVars, closeVars, Redis, ReceiverPlaces
<1>3. CASE ReceiveDone
  BY <1>3 DEF EndInv, ReceiveDone, RecvMoves, endVars, closeVars, Redis, ReceiverPlaces
<1>4. CASE ReceiveMessage
  BY <1>4 DEF EndInv, ReceiveMessage, RecvMoves, endVars, closeVars, Redis, ReceiverPlaces
<1>5. CASE ReceiveClosed
  BY <1>5 DEF EndInv, ReceiveClosed, RecvMoves, endVars, closeVars, Redis, ReceiverPlaces
<1>6. CASE Again
  BY <1>6 DEF EndInv, Again, RecvMoves, endVars, closeVars, Redis, ReceiverPlaces
<1>7. CASE ValkeyClose
  BY <1>7 DEF EndInv, ValkeyClose, recvVars, Redis
<1>8. CASE RedisClose
  BY <1>8 DEF EndInv, RedisClose, recvVars, Redis
<1>9. CASE UNCHANGED <<backend, endVars, closeVars, recv, reason>>
  BY <1>9 DEF EndInv, endVars, closeVars, Redis
<1>10. CASE SetData \/ GetData \/ Del \/ Publish \/ Break \/ Callback \/ Drop \/ CancelReceive \/ UNCHANGED subVars
  <2>1. UNCHANGED <<backend, endVars, closeVars, recv, reason>>
    BY <1>10 DEF subVars, SetData, GetData, Del, Publish, Break, Callback, Drop, CancelReceive, recvVars
  <2> QED BY <2>1, <1>9
<1> QED BY <1>1, <1>2, <1>3, <1>4, <1>5, <1>6, <1>7, <1>8, <1>10 DEF SubNext

LEMMA Fed ==
  ASSUME FlowTypes, feed # <<>>
  PROVE  /\ Head(feed) = feed[1] /\ 1 \in DOMAIN feed /\ Tail(feed) \in Seq(Nat)
         /\ \A j \in DOMAIN Tail(feed) : j + 1 \in DOMAIN feed /\ Tail(feed)[j] = feed[j + 1] /\ j >= 1
         /\ \A j \in DOMAIN feed : j = 1 \/ (j - 1 \in DOMAIN Tail(feed) /\ Tail(feed)[j - 1] = feed[j])
<1>1. feed \in Seq(Nat) /\ Len(feed) \in Nat /\ Len(feed) >= 1 /\ DOMAIN feed = 1..Len(feed)
  BY DEF FlowTypes
<1>2. Tail(feed) \in Seq(Nat) /\ Len(Tail(feed)) = Len(feed) - 1 /\ DOMAIN Tail(feed) = 1..(Len(feed) - 1)
  BY <1>1, HeadTailProperties
<1>3. \A j \in 1..(Len(feed) - 1) : Tail(feed)[j] = feed[j + 1]
  BY <1>1, HeadTailProperties
<1> QED BY <1>1, <1>2, <1>3

LEMMA FlowStep == FlowInv /\ [SubNext]_subVars => FlowInv'
<1> SUFFICES ASSUME FlowInv, [SubNext]_subVars PROVE FlowInv'
  OBVIOUS
<1>0. FlowTypes /\ OrderInv /\ DropInv /\ WholeInv
  BY DEF FlowInv
<1>1. CASE Publish
  <2>1. /\ feed' = Append(feed, published + 1) /\ published' = published + 1
        /\ UNCHANGED <<offered, received, dropped, subctx, backend>>
    BY <1>1 DEF Publish, endVars, recvVars
  <2>2. /\ DOMAIN feed' = 1..(Len(feed) + 1) /\ DOMAIN feed = 1..Len(feed) /\ Len(feed) \in Nat
        /\ feed'[Len(feed) + 1] = published + 1 /\ \A j \in DOMAIN feed : feed'[j] = feed[j]
    BY <1>0, <2>1, AppendProperties DEF FlowTypes
  <2>3. FlowTypes'
    BY <1>0, <2>1 DEF FlowTypes
  <2>4. Increasing(feed') /\ \A j \in DOMAIN feed' : feed'[j] \in 1..published'
    BY <1>0, <2>1, <2>2 DEF OrderInv, Increasing, FlowTypes
  <2>5. \A j \in DOMAIN feed' : (j \in DOMAIN feed /\ feed'[j] = feed[j]) \/ feed'[j] = published + 1
    BY <2>2
  <2>6. OrderInv'
    <3>1. \A i \in DOMAIN received : received[i] \in 1..published' /\ received[i] < published + 1
      BY <1>0, <2>1 DEF OrderInv, FlowTypes
    <3>2. \A i \in DOMAIN received, j \in DOMAIN feed' : received[i] < feed'[j]
      BY <1>0, <2>5, <3>1 DEF OrderInv
    <3>3. offered \in 0..published' /\ (Redis => offered = 0)
      BY <1>0, <2>1 DEF OrderInv, FlowTypes
    <3>4. offered # 0 => \A j \in DOMAIN feed' : offered < feed'[j]
      BY <1>0, <2>5 DEF OrderInv, FlowTypes
    <3> QED BY <1>0, <2>1, <2>4, <3>1, <3>2, <3>3, <3>4 DEF OrderInv, Redis
  <2>7. DropInv'
    <3>1. \A d \in dropped : d \in Nat /\ d <= published
      BY <1>0 DEF DropInv, FlowTypes
    <3>2. \A d \in dropped : d <= published' /\ \A j \in DOMAIN feed' : d < feed'[j]
      BY <1>0, <2>1, <2>5, <3>1 DEF DropInv, FlowTypes
    <3> QED BY <1>0, <2>1, <3>2 DEF DropInv
  <2>8. WholeInv'
    <3> SUFFICES ASSUME ~Redis, subctx = "live", NEW m \in 1..published'
                 PROVE  (\E i \in DOMAIN received : received[i] = m) \/ (\E j \in DOMAIN feed' : feed'[j] = m) \/ offered = m
      BY <2>1, Zenon DEF WholeInv, Redis
    <3>1. CASE m \in 1..published
      BY <1>0, <2>2, <3>1 DEF WholeInv
    <3>2. CASE m = published + 1
      BY <2>2, <3>2
    <3> QED BY <1>0, <2>1, <3>1, <3>2 DEF FlowTypes
  <2> QED BY <2>3, <2>6, <2>7, <2>8 DEF FlowInv
<1>2. CASE Callback
  <2>1. /\ feed # <<>> /\ offered = 0 /\ offered' = Head(feed) /\ feed' = Tail(feed) /\ ~Redis
        /\ UNCHANGED <<published, received, dropped, subctx, backend>>
    BY <1>2 DEF Callback, endVars, recvVars
  <2>2. /\ offered' = feed[1] /\ 1 \in DOMAIN feed /\ feed' \in Seq(Nat)
        /\ \A j \in DOMAIN feed' : j + 1 \in DOMAIN feed /\ feed'[j] = feed[j + 1] /\ j >= 1
        /\ \A j \in DOMAIN feed : j = 1 \/ (j - 1 \in DOMAIN feed' /\ feed'[j - 1] = feed[j])
    BY <1>0, <2>1, Fed
  <2>3. DOMAIN feed = 1..Len(feed) /\ Len(feed) \in Nat /\ DOMAIN feed' = 1..Len(feed') /\ Len(feed') \in Nat /\ \A j \in DOMAIN feed : feed[j] \in Nat
    BY <1>0, <2>2 DEF FlowTypes
  <2>4. FlowTypes'
    BY <1>0, <2>1, <2>2, <2>3 DEF FlowTypes
  <2>5. OrderInv'
    <3>1. Increasing(feed')
      BY <1>0, <2>2, <2>3 DEF OrderInv, Increasing
    <3>2. \A j \in DOMAIN feed' : feed'[j] \in 1..published /\ offered' < feed'[j]
      BY <1>0, <2>2, <2>3 DEF OrderInv, Increasing
    <3>3. \A i \in DOMAIN received : received[i] < offered' /\ \A j \in DOMAIN feed' : received[i] < feed'[j]
      BY <1>0, <2>2 DEF OrderInv
    <3>4. offered' \in 0..published
      BY <1>0, <2>2 DEF OrderInv, FlowTypes
    <3> QED BY <1>0, <2>1, <3>1, <3>2, <3>3, <3>4 DEF OrderInv, Redis
  <2>6. DropInv'
    BY <1>0, <2>1, <2>2 DEF DropInv
  <2>7. WholeInv'
    <3> SUFFICES ASSUME subctx = "live", NEW m \in 1..published
                 PROVE  (\E i \in DOMAIN received : received[i] = m) \/ (\E j \in DOMAIN feed' : feed'[j] = m) \/ offered' = m
      BY <2>1, Zenon DEF WholeInv, Redis
    <3>0. m # 0
      BY <1>0 DEF FlowTypes
    <3>1. (\E i \in DOMAIN received : received[i] = m) \/ (\E j \in DOMAIN feed : feed[j] = m)
      BY <1>0, <2>1, <3>0 DEF WholeInv
    <3> QED BY <2>2, <3>1
  <2> QED BY <2>4, <2>5, <2>6, <2>7 DEF FlowInv
<1>3. CASE Drop
  <2>1. /\ offered # 0 /\ subctx = "done" /\ offered' = 0 /\ dropped' = dropped \cup {offered}
        /\ UNCHANGED <<feed, published, received, subctx, backend>>
    BY <1>3 DEF Drop, endVars, recvVars
  <2>2. FlowTypes' /\ WholeInv'
    BY <1>0, <2>1 DEF FlowTypes, WholeInv
  <2>3. OrderInv'
    BY <1>0, <2>1 DEF OrderInv, Redis, FlowTypes
  <2>4. offered <= published /\ (\A i \in DOMAIN received : received[i] # offered) /\ \A j \in DOMAIN feed : offered < feed[j]
    BY <1>0, <2>1 DEF OrderInv, FlowTypes
  <2>5. DropInv'
    BY <1>0, <2>1, <2>4 DEF DropInv
  <2> QED BY <2>2, <2>3, <2>5 DEF FlowInv
<1>4. CASE ReceiveMessage /\ ~Redis
  <2>1. /\ offered # 0 /\ received' = Append(received, offered) /\ offered' = 0
        /\ UNCHANGED <<feed, published, dropped, subctx, backend>>
    BY <1>4 DEF ReceiveMessage, RecvMoves, endVars, recvVars
  <2>2. /\ received' \in Seq(Nat) /\ DOMAIN received = 1..Len(received) /\ DOMAIN received' = 1..(Len(received) + 1) /\ Len(received) \in Nat
        /\ received'[Len(received) + 1] = offered /\ \A i \in DOMAIN received : received'[i] = received[i]
    BY <1>0, <2>1, AppendProperties DEF FlowTypes
  <2>3. \A i \in DOMAIN received' : (i \in DOMAIN received /\ received'[i] = received[i]) \/ (i = Len(received) + 1 /\ received'[i] = offered)
    BY <2>2
  <2>4. FlowTypes'
    BY <1>0, <2>1, <2>2 DEF FlowTypes
  <2>5. OrderInv'
    <3>1. Increasing(received')
      BY <1>0, <2>1, <2>2, <2>3 DEF OrderInv, Increasing
    <3>2. \A i \in DOMAIN received' : received'[i] \in 1..published /\ \A j \in DOMAIN feed : received'[i] < feed[j]
      BY <1>0, <2>1, <2>3 DEF OrderInv, FlowTypes
    <3> QED BY <1>0, <2>1, <3>1, <3>2, <2>4 DEF OrderInv, FlowTypes, Redis
  <2>6. DropInv'
    <3>1. \A d \in dropped : d # offered
      BY <1>0, <2>1 DEF DropInv, FlowTypes
    <3> QED BY <1>0, <2>1, <2>3, <3>1 DEF DropInv
  <2>7. WholeInv'
    <3> SUFFICES ASSUME subctx = "live", NEW m \in 1..published
                 PROVE  (\E i \in DOMAIN received' : received'[i] = m) \/ (\E j \in DOMAIN feed : feed[j] = m)
      BY <2>1, Zenon DEF WholeInv, Redis
    <3>1. (\E i \in DOMAIN received : received[i] = m) \/ (\E j \in DOMAIN feed : feed[j] = m) \/ offered = m
      BY <1>0, <1>4 DEF WholeInv
    <3> QED BY <2>2, <3>1
  <2> QED BY <2>4, <2>5, <2>6, <2>7 DEF FlowInv
<1>5. CASE ReceiveMessage /\ Redis
  <2>1. /\ feed # <<>> /\ received' = Append(received, Head(feed)) /\ feed' = Tail(feed)
        /\ UNCHANGED <<offered, published, dropped, subctx, backend>>
    BY <1>5 DEF ReceiveMessage, RecvMoves, endVars, recvVars
  <2>2. /\ Head(feed) = feed[1] /\ 1 \in DOMAIN feed /\ feed' \in Seq(Nat)
        /\ \A j \in DOMAIN feed' : j + 1 \in DOMAIN feed /\ feed'[j] = feed[j + 1] /\ j >= 1
    BY <1>0, <2>1, Fed
  <2>3. DOMAIN feed = 1..Len(feed) /\ Len(feed) \in Nat /\ DOMAIN feed' = 1..Len(feed') /\ Len(feed') \in Nat /\ \A j \in DOMAIN feed : feed[j] \in Nat
    BY <1>0, <2>2 DEF FlowTypes
  <2>4. /\ received' \in Seq(Nat) /\ DOMAIN received = 1..Len(received) /\ DOMAIN received' = 1..(Len(received) + 1) /\ Len(received) \in Nat
        /\ received'[Len(received) + 1] = feed[1] /\ \A i \in DOMAIN received : received'[i] = received[i]
    BY <1>0, <2>1, <2>2, <2>3, AppendProperties DEF FlowTypes
  <2>5. \A i \in DOMAIN received' : (i \in DOMAIN received /\ received'[i] = received[i]) \/ (i = Len(received) + 1 /\ received'[i] = feed[1])
    BY <2>4
  <2>6. FlowTypes'
    BY <1>0, <2>1, <2>2, <2>4 DEF FlowTypes
  <2>7. OrderInv'
    <3>1. Increasing(received')
      BY <1>0, <2>1, <2>2, <2>4, <2>5 DEF OrderInv, Increasing
    <3>2. Increasing(feed') /\ \A j \in DOMAIN feed' : feed'[j] \in 1..published /\ feed[1] < feed'[j]
      BY <1>0, <2>2, <2>3 DEF OrderInv, Increasing
    <3>3. \A i \in DOMAIN received' : received'[i] \in 1..published
      BY <1>0, <2>2, <2>5 DEF OrderInv
    <3>4. \A i \in DOMAIN received', j \in DOMAIN feed' : received'[i] < feed'[j]
      BY <1>0, <2>2, <2>5, <3>2 DEF OrderInv
    <3> QED BY <1>0, <1>5, <2>1, <3>1, <3>2, <3>3, <3>4 DEF OrderInv, Redis
  <2>8. DropInv'
    <3>1. \A d \in dropped : d # feed[1]
      <4>1. \A d \in dropped : d \in Nat /\ d < feed[1]
        BY <1>0, <2>2 DEF DropInv, FlowTypes
      <4> QED BY <2>2, <2>3, <4>1
    <3> QED BY <1>0, <2>1, <2>2, <2>5, <3>1 DEF DropInv
  <2>9. WholeInv'
    BY <1>5, <2>1 DEF WholeInv, Redis
  <2> QED BY <2>6, <2>7, <2>8, <2>9 DEF FlowInv
<1>6. CASE UNCHANGED <<feed, published, offered, received, dropped, backend>> /\ (subctx' = subctx \/ subctx' = "done")
  <2>1. FlowTypes' /\ OrderInv'
    BY <1>0, <1>6 DEF FlowTypes, OrderInv, Redis, Increasing
  <2>2. DropInv' /\ WholeInv'
    BY <1>0, <1>6 DEF DropInv, WholeInv, Redis
  <2> QED BY <2>1, <2>2 DEF FlowInv
<1>7. CASE \/ SetData \/ GetData \/ Del \/ Break \/ subscribe \/ Receive \/ ReceiveDone \/ ReceiveClosed \/ Again \/ CancelReceive
           \/ ValkeyClose \/ RedisClose \/ UNCHANGED subVars
  <2>1. UNCHANGED <<feed, published, offered, received, dropped, backend>> /\ (subctx' = subctx \/ subctx' = "done")
    BY <1>7 DEF SetData, GetData, Del, Break, subscribe, Receive, ReceiveDone, ReceiveClosed, Again, CancelReceive, RecvMoves, ValkeyClose,
                RedisClose, subVars, flowVars, endVars, recvVars
  <2> QED BY <1>6, <2>1
<1> QED BY <1>1, <1>2, <1>3, <1>4, <1>5, <1>7 DEF SubNext

LEMMA SubInitially == SubInit => SubInv
<1> SUFFICES ASSUME SubInit PROVE SubInv
  OBVIOUS
<1>1. /\ received = <<>> /\ feed = <<>> /\ offered = 0 /\ published = 0 /\ dropped = {}
      /\ msgch = "open" /\ suberr = "unset" /\ subctx = "live" /\ reason = "never" /\ recv = [r \in Receivers |-> "idle"]
      /\ stored = "none" /\ asked = 0 /\ found = "nil" /\ closing = "no" /\ closes = 0 /\ closeResults = {}
  BY DEF SubInit, Start
<1>2. FlowInv
  <2>0. received \in Seq(Nat) /\ feed \in Seq(Nat) /\ DOMAIN received = {} /\ DOMAIN feed = {}
    BY <1>1
  <2>1. FlowTypes /\ OrderInv
    BY <1>1, <2>0 DEF FlowTypes, OrderInv, Increasing
  <2>2. DropInv /\ WholeInv
    BY <1>1, <2>0 DEF DropInv, WholeInv
  <2> QED BY <2>1, <2>2 DEF FlowInv
<1>3. EndInv
  BY <1>1 DEF EndInv, ReceiverPlaces
<1>4. KeyInv
  BY <1>1 DEF KeyInv
<1>5. CloseInv
  BY <1>1 DEF CloseInv
<1> QED BY <1>2, <1>3, <1>4, <1>5 DEF SubInv

LEMMA SubInvHolds == SubInv => SubscriptionsHold
<1> SUFFICES ASSUME SubInv PROVE SubscriptionsHold
  OBVIOUS
<1>0. FlowTypes /\ OrderInv /\ DropInv /\ WholeInv /\ EndInv /\ KeyInv /\ CloseInv
  BY DEF SubInv, FlowInv
<1>1. \A i, j \in DOMAIN received : i < j => received[i] < received[j]
  BY <1>0 DEF OrderInv, Increasing
<1>2. Seen(received) \cap dropped = {} /\ (dropped # {} => subctx = "done")
  BY <1>0 DEF DropInv, Seen
<1>3. subctx = "live" /\ ~Redis => Seen(received) \cup Seen(feed) \cup ({offered} \ {0}) = 1..published
  <2> SUFFICES ASSUME subctx = "live", ~Redis
               PROVE  Seen(received) \cup Seen(feed) \cup ({offered} \ {0}) = 1..published
    OBVIOUS
  <2>1. Seen(received) \subseteq 1..published /\ Seen(feed) \subseteq 1..published /\ ({offered} \ {0}) \subseteq 1..published
    BY <1>0 DEF OrderInv, Seen, FlowTypes
  <2>2. ASSUME NEW m \in 1..published
        PROVE  m \in Seen(received) \cup Seen(feed) \cup ({offered} \ {0})
    <3>1. (\E i \in DOMAIN received : received[i] = m) \/ (\E j \in DOMAIN feed : feed[j] = m) \/ offered = m
      BY <1>0 DEF WholeInv
    <3>2. m # 0
      BY <1>0 DEF FlowTypes
    <3> QED BY <3>1, <3>2 DEF Seen
  <2> QED BY <2>1, <2>2, Zenon
<1>4. reason # "raced" /\ \A r \in Receivers : recv[r] # "cancelled"
  BY <1>0 DEF EndInv
<1>5. /\ (asked > 0 /\ stored # "none") => (ttl # NoExpiry /\ (ttl <= asked \/ ttl = Millisecond))
      /\ found = "undecodable" => stored = "undecodable"
  BY <1>0 DEF KeyInv
<1>6. closes <= 1 /\ Cardinality(closeResults) <= 1
  <2>1. closeResults = {} \/ closeResults = {closeErr}
    BY <1>0 DEF CloseInv
  <2>2. Cardinality(closeResults) \in {0, 1}
    BY <2>1, FS_EmptySet, FS_Singleton
  <2>3. closes <= 1
    BY <1>0 DEF CloseInv
  <2> QED BY <2>2, <2>3
<1> QED BY <1>1, <1>2, <1>3, <1>4, <1>5, <1>6 DEF SubscriptionsHold

\* However a subscription of pkg/redis or pkg/valkey is received from, lost and closed, its messages
\* go out in order and each to one receiver, none is dropped while its context lives, and no receiver
\* is told of the client's own cancellation or reads a reason that is still being written; a key set
\* to expire expires in time; and a client is closed once, for any number of receivers and messages.
THEOREM SubscriptionsAreSound == SubSpec => []SubscriptionsHold
<1>1. SubInv /\ [SubNext]_subVars => SubInv'
  BY FlowStep, EndStep, KeysStep, CloseStep DEF SubInv
<1> QED BY SubInitially, <1>1, SubInvHolds, PTL DEF SubSpec

-----------------------------------------------------------------------------
(* Queues: types and the inductive invariant *)

Works == [offset : Nat, handle : Nat, life : Nat]
Handles == [offset : Nat, handle : Nat, hidden : BOOLEAN]

QueueTypes ==
  /\ client \in ClientType
  /\ log \in Seq(Nat) /\ sent \in Nat
  /\ committed \in Nat /\ pos \in Nat /\ joined \in Nat
  /\ held \in Nat /\ handle \in Nat /\ crashes \in Nat /\ processed \in Seq(Works)

\* The broker has what it acknowledged, once if it tells messages apart.
LogInv ==
  /\ acked \subseteq ToSet(log)
  /\ client.dedup => IsFiniteSet(ToSet(log)) /\ Cardinality(ToSet(log)) = Len(log)

Receives == Kafka /\ client.group /\ ~client.fetch
Fetches == Kafka /\ client.fetch

\* A group that starts at the first message misses none.
StartInv == client.startOffset = "first" => joined = 0

\* Receive in a group: the reader is never behind the group and what it holds was committed, so that
\* what it holds next is new.
ReceiveInv ==
  Receives =>
    /\ committed <= pos /\ held \in {0, pos} /\ held <= committed
    /\ \A i \in DOMAIN processed : processed[i].offset \in 1..committed
    /\ \A i \in DOMAIN processed : processed[i].offset = held => processed[i] = Work
    /\ \A i, j \in DOMAIN processed : processed[i].offset = processed[j].offset => i = j
    /\ crashes = 0 => \A o \in 1..pos : o \in Processed \/ o \in skipped \/ o = held

\* FetchMessage: all that the reader has passed since its group began was processed, but for what it
\* holds.
FetchInv ==
  Fetches =>
    /\ skipped = {} /\ held \in {0, pos}
    /\ \A o \in (joined + 1)..committed : o \in Processed
    /\ \A o \in (joined + 1)..pos : o \in Processed \/ o = held

\* Every handle ever given out stands for one message, and the consumer's for the one it holds.
HandleInv ==
  SQS =>
    /\ inflight \subseteq Handles /\ IsFiniteSet(inflight)
    /\ \A f \in inflight : f.handle \in 1..Cardinality(inflight) /\ f.offset \in DOMAIN log
    /\ \A f, g \in inflight : f.handle = g.handle => f = g
    /\ held = 0 <=> handle = 0
    /\ held # 0 => \A f \in inflight : f.handle = handle => f.offset = held
    /\ held # 0 => held \in DOMAIN log
    /\ held # 0 /\ outcome = "undecodable" => log[held] \in Bad
    /\ deleted \subseteq DOMAIN log
    /\ \A o \in deleted : o \in Processed \/ log[o] \in Bad

\* A listing has the keys up to the token it will ask with.
ListInv ==
  /\ listed \in BOOLEAN /\ nextToken \in Nat /\ list \in Seq(Nat)
  /\ \A i \in DOMAIN list : list[i] = i
  /\ ~listed => Len(list) = nextToken /\ (nextToken < KeyCount \/ nextToken = 0)
  /\ listed => Len(list) <= KeyCount /\ (outcome # "stuck" => Len(list) = KeyCount)
  /\ ~S3 => ~listed

QueueInv == QueueTypes /\ StartInv /\ LogInv /\ ReceiveInv /\ FetchInv /\ HandleInv /\ ListInv

-----------------------------------------------------------------------------
(* What the broker has only grows *)

LEMMA ClientStays == [QueueNext]_queueVars => client' = client
BY DEF QueueNext, queueVars, Send, GiveUp, ReceiveData, KafkaReceive, FetchMessage, Process, CommitMessages, Release, Close, Answers,
       ReadAfterClose, ReadFails, healthCheck, NewConsumer, SQSReceive, Reappear, SQSDelete, ListObjects

LEMMA LogGrows ==
  ASSUME QueueTypes, [QueueNext]_queueVars
  PROVE  /\ log' \in Seq(Nat) /\ DOMAIN log \subseteq DOMAIN log' /\ \A o \in DOMAIN log : log'[o] = log[o]
         /\ Len(log) <= Len(log')
<1>1. CASE log' = log
  BY <1>1 DEF QueueTypes
<1>2. CASE Send
  <2>1. sent < Len(Messages) /\ (log' = log \/ log' = Append(log, Current))
    BY <1>2 DEF Send, Delivered
  <2>2. Current \in Nat
    BY <2>1, QueueAssumption DEF Current, QueueTypes
  <2>3. CASE log' = Append(log, Current)
    BY <2>2, <2>3, AppendProperties DEF QueueTypes
  <2> QED BY <1>1, <2>1, <2>3
<1>3. Send \/ log' = log
  BY DEF QueueNext, queueVars, producerVars, GiveUp, ReceiveData, KafkaReceive, FetchMessage, Process, CommitMessages, Release, Close,
         Answers, ReadAfterClose, ReadFails, healthCheck, NewConsumer, SQSReceive, Reappear, SQSDelete, ListObjects
<1> QED BY <1>1, <1>2, <1>3

LEMMA ProcessedGrows ==
  ASSUME QueueTypes, [QueueNext]_queueVars
  PROVE  processed' = processed \/ (Process /\ processed' = Append(processed, Work))
BY DEF QueueNext, queueVars, consumerVars, Send, GiveUp, ReceiveData, KafkaReceive, FetchMessage, Process, CommitMessages, Release, Close,
         Answers, ReadAfterClose, ReadFails, healthCheck, NewConsumer, SQSReceive, Reappear, SQSDelete, ListObjects

LEMMA OneMore ==
  ASSUME QueueTypes, processed' = Append(processed, Work)
  PROVE  /\ processed' \in Seq(Works) /\ Len(processed) \in Nat
         /\ DOMAIN processed = 1..Len(processed) /\ DOMAIN processed' = 1..(Len(processed) + 1)
         /\ processed'[Len(processed) + 1] = Work /\ \A i \in DOMAIN processed : processed'[i] = processed[i]
         /\ Processed' = Processed \cup {held}
<1>1. Work \in Works /\ Work.offset = held /\ processed \in Seq(Works)
  BY DEF Work, Works, QueueTypes
<1>2. /\ processed' \in Seq(Works) /\ Len(processed) \in Nat
      /\ DOMAIN processed = 1..Len(processed) /\ DOMAIN processed' = 1..(Len(processed) + 1)
      /\ processed'[Len(processed) + 1] = Work /\ \A i \in DOMAIN processed : processed'[i] = processed[i]
  BY <1>1, AppendProperties
<1>3. Processed' = Processed \cup {held}
  BY <1>1, <1>2 DEF Processed
<1> QED BY <1>2, <1>3

LEMMA DoneIsProcessed ==
  ASSUME QueueTypes, Done
  PROVE  held \in Processed
<1>1. Len(processed) \in DOMAIN processed /\ processed[Len(processed)] = Work
  BY DEF Done, Last, QueueTypes
<1> QED BY <1>1 DEF Processed, Work

LEMMA TypesStep ==
  ASSUME QueueTypes, HandleInv, [QueueNext]_queueVars
  PROVE  QueueTypes'
<1>1. client' \in ClientType /\ log' \in Seq(Nat)
  BY ClientStays, LogGrows DEF QueueTypes
<1>2. processed' \in Seq(Works)
  BY ProcessedGrows, OneMore DEF QueueTypes
<1>3. sent' \in Nat
  <2>1. sent' = sent \/ sent' = sent + 1
    BY DEF QueueNext, queueVars, producerVars, Send, GiveUp, ReceiveData, KafkaReceive, FetchMessage, Process, CommitMessages,
           Release, Close, Answers, ReadAfterClose, ReadFails, healthCheck, NewConsumer, SQSReceive, Reappear, SQSDelete, ListObjects
  <2> QED BY <2>1 DEF QueueTypes
<1>4. committed' \in Nat /\ pos' \in Nat /\ crashes' \in Nat /\ joined' \in Nat
  <2>0. startOffset \in Nat
    BY DEF startOffset, QueueTypes
  <2>1. /\ committed' \in {committed, pos + 1, held} /\ pos' \in {pos, pos + 1, startOffset} /\ crashes' \in {crashes, crashes + 1}
        /\ joined' \in {joined, startOffset}
    BY DEF QueueNext, queueVars, readerVars, consumerVars, Send, GiveUp, ReceiveData, KafkaReceive, FetchMessage, Process, CommitMessages,
           Release, Close, Answers, ReadAfterClose, ReadFails, healthCheck, NewConsumer, SQSReceive, Reappear, SQSDelete, ListObjects
  <2> QED BY <2>0, <2>1 DEF QueueTypes
<1>5. held' \in Nat /\ handle' \in Nat
  <2>1. CASE SQSReceive
    <3>1. Cardinality(inflight) \in Nat /\ Visible \subseteq Nat
      BY <2>1, FS_CardinalityType DEF SQSReceive, HandleInv, Visible, Offsets, QueueTypes
    <3> QED BY <2>1, <3>1 DEF SQSReceive, QueueTypes
  <2>2. CASE ~SQSReceive
    <3>1. held' \in {0, held, pos + 1} /\ handle' \in {0, handle}
      BY <2>2 DEF QueueNext, queueVars, consumerVars, Send, GiveUp, ReceiveData, KafkaReceive, FetchMessage, Process, CommitMessages,
           Release, Close, Answers, ReadAfterClose, ReadFails, healthCheck, NewConsumer, Reappear, SQSDelete, ListObjects
    <3> QED BY <3>1 DEF QueueTypes
  <2> QED BY <2>1, <2>2
<1> QED BY <1>1, <1>2, <1>3, <1>4, <1>5 DEF QueueTypes

LEMMA LogStep ==
  ASSUME QueueTypes, LogInv, [QueueNext]_queueVars
  PROVE  LogInv'
<1>0. client' = client
  BY ClientStays
<1>1. CASE Send
  <2>1. PICK arrives \in BOOLEAN, acks \in BOOLEAN :
          /\ sent < Len(Messages) /\ (acks => arrives)
          /\ log' = IF arrives THEN Delivered(Current) ELSE log
          /\ acked' = IF acks THEN acked \cup {Current} ELSE acked
    BY <1>1, Zenon DEF Send
  <2>2. PICK m \in Nat : m = Current
    BY <2>1, QueueAssumption DEF Current, QueueTypes
  <2>3. log \in Seq(Nat)
    BY DEF QueueTypes
  <2>4. CASE log' = log
    <3>1. acked' = acked \/ m \in ToSet(log)
      <4>1. CASE acks
        <5>1. log = Delivered(m)
          BY <2>1, <2>2, <2>4, <4>1
        <5>2. CASE client.dedup /\ m \in ToSet(log)
          BY <5>2
        <5>3. CASE ~(client.dedup /\ m \in ToSet(log))
          <6>1. log = Append(log, m)
            BY <5>1, <5>3 DEF Delivered
          <6>2. Len(Append(log, m)) = Len(log) + 1 /\ Len(log) \in Nat
            BY <2>3, AppendProperties
          <6> QED BY <6>1, <6>2
        <5> QED BY <5>2, <5>3
      <4> QED BY <2>1, <4>1
    <3>2. acked' \subseteq acked \cup {m}
      BY <2>1, <2>2
    <3> QED BY <1>0, <2>4, <3>1, <3>2 DEF LogInv
  <2>5. CASE log' # log
    <3>1. log' = Append(log, m) /\ ~(client.dedup /\ m \in ToSet(log))
      BY <2>1, <2>2, <2>5 DEF Delivered
    <3>2. /\ Len(log') = Len(log) + 1 /\ Len(log) \in Nat /\ DOMAIN log = 1..Len(log) /\ DOMAIN log' = 1..(Len(log) + 1)
          /\ log'[Len(log) + 1] = m /\ \A o \in DOMAIN log : log'[o] = log[o]
      BY <2>2, <2>3, <3>1, AppendProperties
    <3>3. ToSet(log') = ToSet(log) \cup {m}
      BY <3>2 DEF ToSet
    <3>4. acked' \subseteq acked \cup {m}
      BY <2>1, <2>2
    <3>5. ASSUME client.dedup
          PROVE  IsFiniteSet(ToSet(log')) /\ Cardinality(ToSet(log')) = Len(log')
      <4>1. m \notin ToSet(log) /\ IsFiniteSet(ToSet(log)) /\ Cardinality(ToSet(log)) = Len(log)
        BY <3>1, <3>5 DEF LogInv
      <4>2. IsFiniteSet(ToSet(log) \cup {m}) /\ Cardinality(ToSet(log) \cup {m}) = Cardinality(ToSet(log)) + 1
        BY <4>1, FS_AddElement
      <4> QED BY <3>2, <3>3, <4>1, <4>2
    <3> QED BY <1>0, <3>3, <3>4, <3>5 DEF LogInv
  <2> QED BY <2>4, <2>5
<1>2. CASE log' = log /\ acked' = acked
  BY <1>0, <1>2 DEF LogInv
<1>3. Send \/ (log' = log /\ acked' = acked)
  BY DEF QueueNext, queueVars, producerVars, GiveUp, ReceiveData, KafkaReceive, FetchMessage, Process, CommitMessages, Release, Close,
         Answers, ReadAfterClose, ReadFails, healthCheck, NewConsumer, SQSReceive, Reappear, SQSDelete, ListObjects
<1> QED BY <1>1, <1>2, <1>3

LEMMA StartStep ==
  ASSUME QueueTypes, StartInv, [QueueNext]_queueVars
  PROVE  StartInv'
<1>0. client' = client
  BY ClientStays
<1>1. CASE NewConsumer
  <2>1. joined' = IF committed = 0 THEN startOffset ELSE joined
    BY <1>1 DEF NewConsumer
  <2>2. client.startOffset = "first" => startOffset = committed
    BY DEF startOffset
  <2> QED BY <1>0, <2>1, <2>2 DEF StartInv
<1>2. CASE ~NewConsumer
  <2>1. joined' = joined
    BY <1>2 DEF QueueNext, queueVars, readerVars, Send, GiveUp, ReceiveData, KafkaReceive, FetchMessage, Process, CommitMessages,
         Release, Close, Answers, ReadAfterClose, ReadFails, healthCheck, SQSReceive, Reappear, SQSDelete, ListObjects
  <2> QED BY <1>0, <2>1 DEF StartInv
<1> QED BY <1>1, <1>2

LEMMA ReceiveStep ==
  ASSUME QueueTypes, ReceiveInv, [QueueNext]_queueVars, Receives
  PROVE  ReceiveInv'
<1>0. /\ client' = client /\ Receives' = Receives
      /\ committed <= pos /\ held \in {0, pos} /\ held <= committed
      /\ \A i \in DOMAIN processed : processed[i].offset \in 1..committed
      /\ \A i \in DOMAIN processed : processed[i].offset = held => processed[i] = Work
      /\ \A i, j \in DOMAIN processed : processed[i].offset = processed[j].offset => i = j
      /\ crashes = 0 => \A o \in 1..pos : o \in Processed \/ o \in skipped \/ o = held
  BY ClientStays DEF ReceiveInv, Receives, Kafka
<1>1. CASE ReceiveData
  <2>0. PICK read \in BOOLEAN, commits \in BOOLEAN :
          /\ Reads(FALSE) /\ (read => commits) /\ KafkaReceive(commits)
          /\ IF read /\ Decodes(log[pos + 1]) THEN held' = pos + 1 /\ outcome' = "ok" /\ UNCHANGED skipped
             ELSE held' = 0 /\ outcome' = (IF read THEN "undecodable" ELSE "unread") /\ skipped' = skipped \cup {pos + 1}
    BY <1>1, Zenon DEF ReceiveData
  <2>1. /\ pos' = pos + 1 /\ UNCHANGED <<processed, handle, crashes>> /\ held = 0
        /\ \/ committed' = pos + 1 /\ held' = pos + 1 /\ skipped' = skipped
           \/ committed' \in {committed, pos + 1} /\ held' = 0 /\ skipped' = skipped \cup {pos + 1}
    <3>1. pos' = pos + 1 /\ UNCHANGED <<processed, handle, crashes>> /\ held = 0
      BY <2>0 DEF KafkaReceive, Reads
    <3>2. committed' = IF commits THEN pos + 1 ELSE committed
      BY <2>0 DEF KafkaReceive, Receives
    <3>3. CASE read /\ Decodes(log[pos + 1])
      BY <2>0, <3>1, <3>2, <3>3
    <3>4. CASE ~(read /\ Decodes(log[pos + 1]))
      BY <2>0, <3>1, <3>2, <3>4
    <3> QED BY <3>3, <3>4
  <2>2. Processed' = Processed
    BY <2>1 DEF Processed
  <2>3. \A i \in DOMAIN processed : processed[i].offset \in 1..committed' /\ processed[i].offset # held'
    <3>1. committed' >= committed /\ (held' = 0 \/ held' > committed) /\ committed' \in Nat
      BY <1>0, <2>1 DEF QueueTypes
    <3>2. held' \in Nat
      BY <2>1 DEF QueueTypes
    <3> QED BY <1>0, <3>1, <3>2 DEF QueueTypes
  <2>a. committed' <= pos' /\ held' \in {0, pos'} /\ held' <= committed'
    BY <1>0, <2>1 DEF QueueTypes
  <2>4. crashes = 0 => \A o \in 1..pos' : o \in Processed' \/ o \in skipped' \/ o = held'
    <3> SUFFICES ASSUME crashes = 0, NEW o \in 1..(pos + 1) PROVE o \in Processed' \/ o \in skipped' \/ o = held'
      BY <2>1
    <3>1. CASE o \in 1..pos
      <4>1. o # 0
        BY <3>1 DEF QueueTypes
      <4>2. o \in Processed \/ o \in skipped
        BY <1>0, <2>1, <3>1, <4>1
      <4> QED BY <2>1, <2>2, <4>2
    <3>2. CASE o = pos + 1
      BY <2>1, <3>2
    <3> QED BY <3>1, <3>2 DEF QueueTypes
  <2> QED BY <1>0, <2>1, <2>a, <2>3, <2>4 DEF ReceiveInv
<1>2. CASE Process
  <2>1. /\ processed' = Append(processed, Work) /\ held # 0 /\ (\A i \in DOMAIN processed : processed[i] # Work)
        /\ UNCHANGED <<pos, committed, held, handle, crashes, skipped>>
    BY <1>2 DEF Process, readerVars
  <2>2. /\ DOMAIN processed = 1..Len(processed) /\ DOMAIN processed' = 1..(Len(processed) + 1) /\ Len(processed) \in Nat
        /\ processed'[Len(processed) + 1] = Work /\ \A i \in DOMAIN processed : processed'[i] = processed[i]
    BY <2>1, OneMore
  <2>3. Processed' = Processed \cup {held}
    BY <2>1, OneMore
  <2>4. Work' = Work /\ Work.offset = held
    BY <2>1 DEF Work
  <2>5. \A i \in DOMAIN processed' : (i \in DOMAIN processed /\ processed'[i] = processed[i] /\ processed[i].offset # held)
                                     \/ (i = Len(processed) + 1 /\ processed'[i] = Work)
    BY <1>0, <2>1, <2>2
  <2>6. held \in 1..committed
    BY <1>0, <2>1 DEF QueueTypes
  <2>7. \A i \in DOMAIN processed' : processed'[i].offset \in 1..committed /\ (processed'[i].offset = held => processed'[i] = Work)
    BY <1>0, <2>4, <2>5, <2>6
  <2>8. \A i, j \in DOMAIN processed' : processed'[i].offset = processed'[j].offset => i = j
    BY <1>0, <2>4, <2>5
  <2> QED BY <1>0, <2>1, <2>3, <2>4, <2>7, <2>8 DEF ReceiveInv
<1>3. CASE Release
  <2>1. /\ UNCHANGED <<pos, committed, processed, crashes, skipped>> /\ held' = 0
    BY <1>3 DEF Release, readerVars
  <2>2. held \in Processed
    BY <1>3, DoneIsProcessed DEF Release
  <2>3. Processed' = Processed
    BY <2>1 DEF Processed
  <2>4. \A i \in DOMAIN processed : processed[i].offset # 0
    BY <1>0 DEF QueueTypes
  <2>5. crashes = 0 => \A o \in 1..pos : o \in Processed \/ o \in skipped
    BY <1>0, <2>2
  <2> QED BY <1>0, <2>1, <2>3, <2>4, <2>5 DEF ReceiveInv, QueueTypes
<1>4. CASE NewConsumer
  <2>1. /\ UNCHANGED <<committed, processed, skipped>> /\ held' = 0 /\ pos' = startOffset /\ crashes' = crashes + 1
    BY <1>4 DEF NewConsumer
  <2>a. committed <= pos'
    BY <2>1 DEF startOffset, QueueTypes
  <2>2. \A i \in DOMAIN processed : processed[i].offset # 0
    BY <1>0 DEF QueueTypes
  <2>3. crashes' # 0
    BY <2>1 DEF QueueTypes
  <2> QED BY <1>0, <2>1, <2>a, <2>2, <2>3 DEF ReceiveInv, QueueTypes
<1>5. CASE UNCHANGED <<pos, committed, held, handle, processed, crashes, skipped>>
  <2>1. Processed' = Processed /\ Work' = Work
    BY <1>5 DEF Processed, Work
  <2> QED BY <1>0, <1>5, <2>1 DEF ReceiveInv
<1>6. ReceiveData \/ Process \/ Release \/ NewConsumer \/ UNCHANGED <<pos, committed, held, handle, processed, crashes, skipped>>
  BY DEF QueueNext, queueVars, readerVars, consumerVars, Send, GiveUp, FetchMessage, Reads, CommitMessages, Close, Answers, ReadAfterClose, ReadFails,
         healthCheck, SQSReceive, Reappear, SQSDelete, ListObjects, Receives, Kafka, SQS
<1> QED BY <1>1, <1>2, <1>3, <1>4, <1>5, <1>6

LEMMA FetchStep ==
  ASSUME QueueTypes, FetchInv, [QueueNext]_queueVars, Fetches
  PROVE  FetchInv'
<1>0. /\ client' = client /\ Fetches' = Fetches
      /\ skipped = {} /\ held \in {0, pos}
      /\ \A o \in (joined + 1)..committed : o \in Processed
      /\ \A o \in (joined + 1)..pos : o \in Processed \/ o = held
  BY ClientStays DEF FetchInv, Fetches, Kafka
<1>1. CASE FetchMessage
  <2>1. pos' = pos + 1 /\ held' = pos + 1 /\ held = 0 /\ UNCHANGED <<committed, joined, processed, skipped>>
    BY <1>1 DEF FetchMessage, Reads
  <2>2. Processed' = Processed
    BY <2>1 DEF Processed
  <2>3. \A o \in (joined + 1)..pos' : o \in Processed \/ o = held'
    BY <1>0, <2>1 DEF QueueTypes
  <2> QED BY <1>0, <2>1, <2>2, <2>3 DEF FetchInv
<1>2. CASE Process
  <2>1. processed' = Append(processed, Work) /\ UNCHANGED <<pos, committed, held, joined, skipped>>
    BY <1>2 DEF Process, readerVars
  <2>2. Processed' = Processed \cup {held}
    BY <2>1, OneMore
  <2> QED BY <1>0, <2>1, <2>2 DEF FetchInv
<1>3. CASE CommitMessages
  <2>1. UNCHANGED <<pos, joined, processed, skipped>> /\ held' = 0 /\ committed' \in {held, committed} /\ held # 0
    BY <1>3 DEF CommitMessages
  <2>2. held \in Processed
    BY <1>3, DoneIsProcessed DEF CommitMessages
  <2>3. Processed' = Processed
    BY <2>1 DEF Processed
  <2>4. \A o \in (joined + 1)..pos : o \in Processed
    BY <1>0, <2>2
  <2>5. \A o \in (joined + 1)..committed' : o \in Processed
    BY <1>0, <2>1, <2>4
  <2> QED BY <1>0, <2>1, <2>3, <2>4, <2>5 DEF FetchInv
<1>4. CASE NewConsumer
  <2>1. /\ UNCHANGED <<committed, processed, skipped>> /\ held' = 0 /\ pos' = startOffset
        /\ joined' = IF committed = 0 THEN startOffset ELSE joined
    BY <1>4 DEF NewConsumer
  <2>2. Processed' = Processed /\ startOffset \in Nat
    BY <2>1 DEF Processed, startOffset, QueueTypes
  <2>3. CASE committed = 0
    <3>1. (joined' + 1)..pos' = {} /\ (joined' + 1)..committed' = {}
      BY <2>1, <2>2, <2>3 DEF QueueTypes
    <3> QED BY <1>0, <2>1, <2>2, <3>1 DEF FetchInv
  <2>4. CASE committed # 0
    <3>1. pos' = committed /\ joined' = joined
      BY <2>1, <2>4 DEF startOffset, QueueTypes
    <3> QED BY <1>0, <2>1, <2>2, <3>1 DEF FetchInv
  <2> QED BY <2>3, <2>4
<1>5. CASE UNCHANGED <<pos, committed, held, joined, processed, skipped>>
  <2>1. Processed' = Processed
    BY <1>5 DEF Processed
  <2> QED BY <1>0, <1>5, <2>1 DEF FetchInv
<1>6. FetchMessage \/ Process \/ CommitMessages \/ NewConsumer \/ UNCHANGED <<pos, committed, held, joined, processed, skipped>>
  BY DEF QueueNext, queueVars, readerVars, consumerVars, Send, GiveUp, ReceiveData, Reads, Release, Close, Answers, ReadAfterClose, ReadFails,
         healthCheck, SQSReceive, Reappear, SQSDelete, ListObjects, Fetches, Kafka, SQS
<1> QED BY <1>1, <1>2, <1>3, <1>4, <1>5, <1>6

\* The parts of HandleInv: the handles, what the consumer holds, and what was deleted.
HandlesOK ==
  /\ inflight \subseteq Handles /\ IsFiniteSet(inflight)
  /\ \A f \in inflight : f.handle \in 1..Cardinality(inflight) /\ f.offset \in DOMAIN log
  /\ \A f, g \in inflight : f.handle = g.handle => f = g
HoldsOK ==
  /\ held = 0 <=> handle = 0
  /\ held # 0 => \A f \in inflight : f.handle = handle => f.offset = held
  /\ held # 0 => held \in DOMAIN log
  /\ held # 0 /\ outcome = "undecodable" => log[held] \in Bad
DeletedOK ==
  /\ deleted \subseteq DOMAIN log
  /\ \A o \in deleted : o \in Processed \/ log[o] \in Bad

LEMMA HandleStep ==
  ASSUME QueueTypes, HandleInv, [QueueNext]_queueVars, SQS
  PROVE  HandleInv'
<1>0. client' = client /\ SQS' = SQS /\ HandlesOK /\ HoldsOK /\ DeletedOK
  BY ClientStays DEF HandleInv, SQS, HandlesOK, HoldsOK, DeletedOK
<1>1. DOMAIN log \subseteq DOMAIN log' /\ \A o \in DOMAIN log : log'[o] = log[o]
  BY LogGrows
<1>2. Processed \subseteq Processed'
  BY ProcessedGrows, OneMore DEF Processed
<1> SUFFICES HandlesOK' /\ HoldsOK' /\ DeletedOK'
  BY <1>0 DEF HandleInv, HandlesOK, HoldsOK, DeletedOK
<1>3. CASE UNCHANGED <<inflight, held, handle, outcome, deleted>>
  <2>1. HandlesOK'
    BY <1>0, <1>1, <1>3 DEF HandlesOK
  <2>2. HoldsOK'
    BY <1>0, <1>1, <1>3 DEF HoldsOK
  <2>3. DeletedOK'
    BY <1>0, <1>1, <1>2, <1>3 DEF DeletedOK
  <2> QED BY <2>1, <2>2, <2>3
<1>4. CASE NewConsumer
  <2>1. held' = 0 /\ handle' = 0 /\ UNCHANGED <<inflight, deleted>>
    BY <1>4 DEF NewConsumer, sqsVars
  <2>2. HandlesOK' /\ HoldsOK'
    BY <1>0, <1>1, <2>1 DEF HandlesOK, HoldsOK
  <2>3. DeletedOK'
    BY <1>0, <1>1, <1>2, <2>1 DEF DeletedOK
  <2> QED BY <2>2, <2>3
<1>5. CASE SQSReceive
  <2>1. deleted' = deleted /\ log' = log
    BY <1>5 DEF SQSReceive, producerVars
  <2>2. DeletedOK'
    BY <1>0, <1>1, <1>2, <2>1 DEF DeletedOK
  <2>3. CASE handle' = 0 /\ outcome' = "none" /\ UNCHANGED <<inflight, held>>
    <3>1. held = 0
      BY <1>5 DEF SQSReceive
    <3> QED BY <1>0, <2>1, <2>2, <2>3, <3>1 DEF HandlesOK, HoldsOK
  <2>4. CASE ~(handle' = 0 /\ outcome' = "none" /\ UNCHANGED <<inflight, held>>)
    <3>1. PICK o \in Visible, h \in {Cardinality(inflight) + 1} :
                                  /\ inflight' = inflight \cup {[offset |-> o, handle |-> h, hidden |-> TRUE]}
                                  /\ held' = o /\ handle' = h
                                  /\ outcome' = IF Decodes(log[o]) THEN "ok" ELSE "undecodable"
      BY <1>5, <2>4 DEF SQSReceive
    <3>2. PICK new : new = [offset |-> o, handle |-> h, hidden |-> TRUE]
      OBVIOUS
    <3>3. o \in DOMAIN log /\ o \in Nat /\ o # 0
      BY <3>1 DEF Visible, Offsets, QueueTypes
    <3>4. Cardinality(inflight) \in Nat /\ IsFiniteSet(inflight)
      BY <1>0, FS_CardinalityType DEF HandlesOK
    <3>5. h \in Nat /\ h # 0 /\ new \in Handles /\ new.handle = h /\ new.offset = o
      BY <3>1, <3>2, <3>3, <3>4 DEF Handles
    <3>6. \A f \in inflight : f.handle # h /\ f.handle \in 1..h
      BY <1>0, <3>1, <3>4 DEF HandlesOK
    <3>7. new \notin inflight
      BY <3>5, <3>6
    <3>8. IsFiniteSet(inflight') /\ Cardinality(inflight') = h
      BY <3>1, <3>2, <3>4, <3>7, FS_AddElement
    <3>9. inflight' = inflight \cup {new}
      BY <3>1, <3>2
    <3>10. inflight' \subseteq Handles
      BY <1>0, <3>5, <3>9 DEF HandlesOK
    <3>11. \A f \in inflight' : f.handle \in 1..h /\ f.offset \in DOMAIN log
      BY <1>0, <3>3, <3>5, <3>6, <3>9 DEF HandlesOK
    <3>12. \A f, g \in inflight' : f.handle = g.handle => f = g
      BY <1>0, <3>5, <3>6, <3>9 DEF HandlesOK
    <3>13. HandlesOK'
      BY <2>1, <3>8, <3>10, <3>11, <3>12 DEF HandlesOK
    <3>14. \A f \in inflight' : f.handle = handle' => f.offset = held'
      BY <3>1, <3>5, <3>6, <3>9
    <3>15. outcome' = "undecodable" => log[o] \in Bad
      BY <3>1 DEF Decodes
    <3>16. HoldsOK'
      BY <2>1, <3>1, <3>3, <3>5, <3>14, <3>15 DEF HoldsOK
    <3> QED BY <2>2, <3>13, <3>16
  <2> QED BY <2>3, <2>4
<1>6. CASE Reappear
  <2>1. PICK f \in inflight : inflight' = (inflight \ {f}) \cup {[f EXCEPT !.hidden = FALSE]} /\ f.hidden
    BY <1>6 DEF Reappear
  <2>2. UNCHANGED <<log, deleted, held, handle, outcome>>
    BY <1>6 DEF Reappear, producerVars, consumerVars
  <2>3. PICK g : g = [f EXCEPT !.hidden = FALSE]
    OBVIOUS
  <2>4. f \in Handles
    BY <1>0 DEF HandlesOK
  <2>5. g \in Handles /\ g.handle = f.handle /\ g.offset = f.offset /\ g.hidden = FALSE
    BY <2>3, <2>4 DEF Handles
  <2>6. g # f
    BY <2>1, <2>5
  <2>7. g \notin inflight
    BY <1>0, <2>5, <2>6 DEF HandlesOK
  <2>8. IsFiniteSet(inflight) /\ IsFiniteSet(inflight \ {f}) /\ Cardinality(inflight \ {f}) = Cardinality(inflight) - 1 /\ Cardinality(inflight) \in Nat
    BY <1>0, FS_RemoveElement, FS_CardinalityType DEF HandlesOK
  <2>9. inflight' = (inflight \ {f}) \cup {g} /\ g \notin inflight \ {f}
    BY <2>1, <2>3, <2>7
  <2>10. IsFiniteSet(inflight') /\ Cardinality(inflight') = Cardinality(inflight)
    BY <2>8, <2>9, FS_AddElement, SMTT(40)
  <2>11. inflight' \subseteq Handles
    BY <1>0, <2>5, <2>9 DEF HandlesOK
  <2>12. \A e \in inflight' : e.handle \in 1..Cardinality(inflight) /\ e.offset \in DOMAIN log
    BY <1>0, <2>5, <2>9 DEF HandlesOK
  <2>13. \A d, e \in inflight' : d.handle = e.handle => d = e
    BY <1>0, <2>5, <2>9 DEF HandlesOK
  <2>14. HandlesOK'
    BY <2>2, <2>10, <2>11, <2>12, <2>13 DEF HandlesOK
  <2>15. HoldsOK'
    BY <1>0, <2>2, <2>5, <2>9 DEF HoldsOK
  <2>16. DeletedOK'
    BY <1>0, <1>2, <2>2 DEF DeletedOK
  <2> QED BY <2>14, <2>15, <2>16
<1>7. CASE SQSDelete
  <2>1. /\ held' = 0 /\ handle' = 0 /\ UNCHANGED <<inflight, log, processed>>
        /\ held # 0 => Done \/ outcome = "undecodable"
        /\ deleted' = deleted \/ (handle # 0 /\ deleted' = deleted \cup {f.offset : f \in {g \in inflight : g.handle = handle}})
    BY <1>7 DEF SQSDelete, producerVars
  <2>2. HandlesOK' /\ HoldsOK'
    BY <1>0, <2>1 DEF HandlesOK, HoldsOK
  <2>3. \A o \in deleted' : o \in deleted \/ (held # 0 /\ o = held)
    BY <1>0, <2>1 DEF HoldsOK
  <2>4. held # 0 => held \in DOMAIN log /\ (held \in Processed \/ log[held] \in Bad)
    BY <1>0, <2>1, DoneIsProcessed DEF HoldsOK
  <2>5. DeletedOK'
    BY <1>0, <1>2, <2>1, <2>3, <2>4 DEF DeletedOK
  <2> QED BY <2>2, <2>5
<1>8. NewConsumer \/ SQSReceive \/ Reappear \/ SQSDelete \/ UNCHANGED <<inflight, held, handle, outcome, deleted>>
  BY DEF QueueNext, queueVars, sqsVars, consumerVars, Send, GiveUp, ReceiveData, FetchMessage, Reads, Process, CommitMessages, Release, Close,
         ReadAfterClose, ReadFails, healthCheck, ListObjects, Kafka, SQS, S3
<1> QED BY <1>3, <1>4, <1>5, <1>6, <1>7, <1>8

LEMMA ListStep ==
  ASSUME QueueTypes, ListInv, [QueueNext]_queueVars
  PROVE  ListInv'
<1>0. client' = client /\ S3' = S3
  BY ClientStays DEF S3
<1>1. KeyCount \in Nat
  BY QueueAssumption DEF KeyCount
<1>2. CASE ListObjects
  <2>1. PICK page \in Pages(nextToken) :
          /\ S3 /\ ~listed /\ list' = list \o page.keys /\ nextToken' = nextContinuationToken(page, nextToken)
          /\ listed' = (nextToken' = 0) /\ outcome' = IF page.keys = <<>> /\ page.truncated THEN "stuck" ELSE "ok"
    BY <1>2, Zenon DEF ListObjects, appendObjects
  <2>2. nextToken \in Nat /\ list \in Seq(Nat) /\ Len(list) = nextToken /\ (nextToken < KeyCount \/ nextToken = 0) /\ \A i \in DOMAIN list : list[i] = i
    BY <2>1 DEF ListInv
  <2>3. CASE nextToken # 0 /\ page = [keys |-> <<>>, truncated |-> TRUE, token |-> nextToken]
    <3>1. page.keys = <<>> /\ page.truncated = TRUE /\ page.token = nextToken
      BY <2>3
    <3>2. list' = list
      BY <2>1, <2>2, <3>1
    <3>3. nextToken' = 0
      BY <2>1, <3>1 DEF nextContinuationToken
    <3>4. outcome' = "stuck"
      BY <2>1, <3>1, Zenon
    <3>5. listed' = TRUE
      BY <2>1, <3>3, Zenon
    <3>6. nextToken < KeyCount
      BY <2>2, <2>3
    <3> QED BY <1>0, <1>1, <2>1, <2>2, <3>2, <3>3, <3>4, <3>5, <3>6 DEF ListInv
  <2>4. CASE \E t \in IF nextToken + 1 < KeyCount THEN {nextToken + 1} ELSE {0, nextToken + 1} :
               page = [keys |-> IF nextToken < KeyCount THEN <<nextToken + 1>> ELSE <<>>, truncated |-> nextToken + 1 < KeyCount, token |-> t]
    <3>0. PICK t \in IF nextToken + 1 < KeyCount THEN {nextToken + 1} ELSE {0, nextToken + 1} :
            page = [keys |-> IF nextToken < KeyCount THEN <<nextToken + 1>> ELSE <<>>, truncated |-> nextToken + 1 < KeyCount, token |-> t]
      BY <2>4
    <3>a. page.keys = IF nextToken < KeyCount THEN <<nextToken + 1>> ELSE <<>>
      BY <3>0
    <3>b. page.truncated = (nextToken + 1 < KeyCount)
      BY <3>0, Zenon
    <3>c. nextToken + 1 < KeyCount => page.token = nextToken + 1
      BY <3>0
    <3>1. /\ page.keys = IF nextToken < KeyCount THEN <<nextToken + 1>> ELSE <<>>
          /\ page.truncated <=> nextToken + 1 < KeyCount
          /\ nextToken + 1 < KeyCount => page.token = nextToken + 1
      BY <3>a, <3>b, <3>c
    <3>2. outcome' = "ok"
      <4>1. CASE nextToken < KeyCount
        BY <2>1, <3>1, <4>1
      <4>2. CASE ~(nextToken < KeyCount)
        BY <1>1, <2>1, <2>2, <3>1, <4>2
      <4> QED BY <4>1, <4>2
    <3>3. CASE nextToken + 1 < KeyCount
      <4>1. nextToken' = nextToken + 1 /\ page.keys = <<nextToken + 1>>
        BY <1>1, <2>1, <2>2, <3>1, <3>3 DEF nextContinuationToken
      <4>2. list' = Append(list, nextToken + 1)
        BY <2>1, <2>2, <4>1
      <4>3. list' \in Seq(Nat) /\ Len(list') = nextToken + 1 /\ \A i \in DOMAIN list' : list'[i] = i
        BY <2>2, <4>2, AppendProperties
      <4>4. nextToken' # 0 /\ nextToken' \in Nat /\ nextToken' < KeyCount
        BY <2>2, <3>3, <4>1
      <4>5. listed' = FALSE
        BY <2>1, <4>4, Zenon
      <4> QED BY <1>0, <2>1, <4>1, <4>3, <4>4, <4>5 DEF ListInv
    <3>4. CASE ~(nextToken + 1 < KeyCount) /\ nextToken < KeyCount
      <4>1. nextToken' = 0 /\ page.keys = <<nextToken + 1>>
        BY <2>1, <3>1, <3>4 DEF nextContinuationToken
      <4>2. list' = Append(list, nextToken + 1)
        BY <2>1, <2>2, <4>1
      <4>3. list' \in Seq(Nat) /\ Len(list') = nextToken + 1 /\ \A i \in DOMAIN list' : list'[i] = i
        BY <2>2, <4>2, AppendProperties
      <4>4. Len(list') = KeyCount
        BY <1>1, <2>2, <3>4, <4>3
      <4>5. listed' = TRUE
        BY <2>1, <4>1, Zenon
      <4> QED BY <1>0, <1>1, <2>1, <4>1, <4>3, <4>4, <4>5 DEF ListInv
    <3>5. CASE ~(nextToken < KeyCount)
      <4>1. nextToken = 0 /\ KeyCount = 0 /\ page.keys = <<>> /\ ~page.truncated
        BY <1>1, <2>2, <3>1, <3>5
      <4>2. nextToken' = 0 /\ list' = list
        BY <2>1, <2>2, <4>1 DEF nextContinuationToken
      <4>3. listed' = TRUE
        BY <2>1, <4>2
      <4> QED BY <1>0, <2>1, <2>2, <4>1, <4>2, <4>3 DEF ListInv
    <3> QED BY <3>3, <3>4, <3>5
  <2>5. \/ nextToken # 0 /\ page = [keys |-> <<>>, truncated |-> TRUE, token |-> nextToken]
        \/ \E t \in IF nextToken + 1 < KeyCount THEN {nextToken + 1} ELSE {0, nextToken + 1} :
             page = [keys |-> IF nextToken < KeyCount THEN <<nextToken + 1>> ELSE <<>>, truncated |-> nextToken + 1 < KeyCount, token |-> t]
    BY Zenon DEF Pages
  <2> QED BY <2>3, <2>4, <2>5
<1>3. CASE UNCHANGED listVars /\ (S3 => outcome' = outcome)
  BY <1>0, <1>3 DEF ListInv, listVars
<1>4. ListObjects \/ (UNCHANGED listVars /\ (S3 => outcome' = outcome))
  BY DEF QueueNext, queueVars, consumerVars, Send, GiveUp, ReceiveData, KafkaReceive, FetchMessage, Reads, Process, CommitMessages, Release, Close,
         Answers, ReadAfterClose, ReadFails, healthCheck, NewConsumer, SQSReceive, Reappear, SQSDelete, Kafka, SQS, S3
<1> QED BY <1>2, <1>3, <1>4

LEMMA QueueInitially == QueueInit => QueueInv
<1> SUFFICES ASSUME QueueInit PROVE QueueInv
  OBVIOUS
<1>1. /\ client \in Clients
      /\ log = <<>> /\ sent = 0 /\ acked = {} /\ committed = 0 /\ pos = 0 /\ joined = 0 /\ skipped = {} /\ inflight = {} /\ deleted = {}
      /\ held = 0 /\ handle = 0 /\ processed = <<>> /\ crashes = 0 /\ nextToken = 0 /\ list = <<>> /\ listed = FALSE
  BY DEF QueueInit, QueueIdle
<1>2. /\ DOMAIN processed = {} /\ DOMAIN log = {} /\ DOMAIN list = {} /\ Len(log) = 0 /\ Len(list) = 0
      /\ processed \in Seq(Works) /\ log \in Seq(Nat) /\ list \in Seq(Nat)
  BY <1>1
<1>3. QueueTypes
  BY <1>1, <1>2, QueueAssumption DEF QueueTypes
<1>4. ToSet(log) = {}
  BY <1>2 DEF ToSet
<1>5. LogInv
  BY <1>1, <1>2, <1>4, FS_EmptySet DEF LogInv
<1>6. ReceiveInv /\ FetchInv /\ StartInv
  BY <1>1, <1>2 DEF ReceiveInv, FetchInv, StartInv
<1>7. HandleInv
  BY <1>1, FS_EmptySet DEF HandleInv
<1>8. ListInv
  BY <1>1, <1>2, QueueAssumption DEF ListInv, KeyCount
<1> QED BY <1>3, <1>5, <1>6, <1>7, <1>8 DEF QueueInv

LEMMA QueueInvHolds == QueueInv => DeliveryIsAsPromised
<1> SUFFICES ASSUME QueueInv PROVE DeliveryIsAsPromised
  OBVIOUS
<1>0. QueueTypes /\ StartInv /\ LogInv /\ ReceiveInv /\ FetchInv /\ HandleInv /\ ListInv
  BY DEF QueueInv
<1>1. ASSUME Receives, NEW o
      PROVE  Times(o) <= 1
  <2>1. PICK T : T = {i \in DOMAIN processed : processed[i].offset = o}
    OBVIOUS
  <2>2. \A i, j \in T : i = j
    BY <1>0, <1>1, <2>1 DEF ReceiveInv
  <2>3. T = {} \/ \E i : T = {i}
    BY <2>2
  <2>4. Cardinality(T) \in {0, 1}
    BY <2>3, FS_EmptySet, FS_Singleton
  <2> QED BY <2>1, <2>4 DEF Times
<1>2. Receives /\ crashes = 0 => 1..committed \subseteq Processed \cup skipped \cup {held}
  <2> SUFFICES ASSUME Receives, crashes = 0, NEW o \in 1..committed PROVE o \in Processed \cup skipped \cup {held}
    OBVIOUS
  <2>1. o \in 1..pos
    BY <1>0 DEF ReceiveInv, QueueTypes
  <2> QED BY <1>0, <2>1 DEF ReceiveInv
<1>3. Fetches => (joined + 1)..committed \subseteq Processed /\ skipped = {}
  BY <1>0 DEF FetchInv
<1>4. SQS => \A o \in deleted : o \in Processed \/ log[o] \in Bad
  BY <1>0 DEF HandleInv
<1>5. acked \subseteq ToSet(log) /\ (client.dedup => Cardinality(ToSet(log)) = Len(log))
  BY <1>0 DEF LogInv
<1>6. ASSUME listed
      PROVE  IsPrefix(list, [i \in 1..KeyCount |-> i]) /\ (outcome # "stuck" => Len(list) = KeyCount)
  <2>1. list \in Seq(Nat) /\ Len(list) <= KeyCount /\ Len(list) \in Nat /\ \A i \in 1..Len(list) : list[i] = i
    BY <1>0, <1>6 DEF ListInv
  <2>2. KeyCount \in Nat
    BY QueueAssumption DEF KeyCount
  <2>3. PICK all : all = [i \in 1..KeyCount |-> i]
    OBVIOUS
  <2>4. all \in Seq(Nat) /\ Len(all) = KeyCount /\ \A i \in 1..KeyCount : all[i] = i
    BY <2>2, <2>3
  <2>5. SubSeq(list, 1, Len(list)) = SubSeq(all, 1, Len(list))
    BY <2>1, <2>2, <2>4
  <2>6. IsPrefix(list, all)
    BY <2>1, <2>4, <2>5 DEF IsPrefix
  <2>7. outcome # "stuck" => Len(list) = KeyCount
    BY <1>0, <1>6 DEF ListInv
  <2> QED BY <2>3, <2>6, <2>7
<1> QED BY <1>0, <1>1, <1>2, <1>3, <1>4, <1>5, <1>6 DEF DeliveryIsAsPromised, Receives, Fetches, StartInv

\* Whatever crashes and is delivered again, pkg/kafka's Receive is at most once in a group and its
\* FetchMessage at least once from where the group began, which is the first message if it starts
\* there; pkg/sqs deletes only what was processed or cannot be decoded; what is
\* acknowledged is with the broker, once if it is deduplicated; and pkg/s3 lists every key once and in
\* order, for any messages, numbers of sends, crashes and sizes of a page.
THEOREM DeliveryIsSound == QueueSpec => []DeliveryIsAsPromised
<1>1. QueueInv /\ [QueueNext]_queueVars => QueueInv'
  <2> SUFFICES ASSUME QueueInv, [QueueNext]_queueVars PROVE QueueInv'
    OBVIOUS
  <2>0. QueueTypes /\ StartInv /\ LogInv /\ ReceiveInv /\ FetchInv /\ HandleInv /\ ListInv /\ client' = client
    BY ClientStays DEF QueueInv
  <2>1. QueueTypes' /\ StartInv' /\ LogInv' /\ ListInv'
    BY <2>0, TypesStep, StartStep, LogStep, ListStep
  <2>2. ReceiveInv'
    BY <2>0, ReceiveStep DEF ReceiveInv, Receives, Kafka
  <2>3. FetchInv'
    BY <2>0, FetchStep DEF FetchInv, Fetches, Kafka
  <2>4. HandleInv'
    BY <2>0, HandleStep DEF HandleInv, SQS
  <2> QED BY <2>1, <2>2, <2>3, <2>4 DEF QueueInv
<1> QED BY QueueInitially, <1>1, QueueInvHolds, PTL DEF QueueSpec

-----------------------------------------------------------------------------
(* Databases: transactions *)

TxErrors == {"ErrNilDB", "ErrNilExecFunc", "begin", "run", "ErrTxDone", "context", "commit"}

\* Until it returns a call has one error at most, and a handle that is not finished is one of
\* a transaction that is open.
TxInv ==
  /\ txpc \in {"begin", "run", "commit", "rollback", "returned"}
  /\ server \in {"none", "open", "committed", "undone"}
  /\ ran \in {"no", "nil", "error", "panic"}
  /\ finished \in BOOLEAN /\ told \in BOOLEAN /\ unsure \in BOOLEAN /\ stuck \in BOOLEAN
  /\ \/ stuck = FALSE /\ txerr = nil
     \/ stuck = FALSE /\ \E e \in TxErrors : txerr = Error(e)
     \/ stuck = TRUE /\ txpc = "returned" /\ txerr = Aggregate(<<Error("rollback")>>)
     \/ stuck = TRUE /\ txpc = "returned" /\ \E e \in TxErrors : txerr = Aggregate(<<Error(e), Error("rollback")>>)
  /\ ran = "error" => txerr \in {Error("run"), Aggregate(<<Error("run"), Error("rollback")>>)}
  /\ unsure = TRUE => txerr = Error("commit") /\ finished = TRUE /\ ran = "nil" /\ txpc \in {"rollback", "returned"}
  /\ txpc \in {"begin", "run"} => ran = "no"
  /\ txpc = "commit" => ran = "nil"
  /\ txpc = "begin" => server = "none"
  /\ server = "none" => txpc \in {"begin", "returned"} /\ finished = FALSE
  /\ txpc \in {"begin", "run", "commit"} => txerr = nil /\ told = FALSE
  /\ finished = FALSE => server \in {"none", "open"} /\ (txpc = "returned" => server = "none")
  /\ finished = TRUE => server # "open" \/ stuck = TRUE
  /\ server = "committed" => told = TRUE \/ unsure = TRUE \/ own = TRUE
  /\ told = TRUE => server = "committed" /\ finished = TRUE
  /\ txpc \in {"rollback", "returned"} /\ txerr = nil => told = TRUE \/ ran = "panic"

\* The errors are told apart, and joining two keeps both.
LEMMA ErrorsDiffer ==
  /\ \A e \in TxErrors \cup {"rollback", "scan", "rows", "query", "close"} : Error(e) # nil
  /\ \A p : Aggregate(p) # nil
  /\ \A e \in TxErrors \cup {"scan", "rows"}, f \in {"rollback", "close"} : Join(Error(e), Error(f)) = Aggregate(<<Error(e), Error(f)>>)
  /\ \A f \in {"rollback", "close"} : Join(nil, Error(f)) = Aggregate(<<Error(f)>>)
<1>1. \A e \in TxErrors \cup {"rollback", "scan", "rows", "query", "close"} : Error(e) # nil
  BY DEF Error, nil, TxErrors
<1>2. \A p : Aggregate(p) # nil
  BY DEF Aggregate, Error, nil
<1>3. \A e \in TxErrors \cup {"scan", "rows"}, f \in {"rollback", "close"} : Join(Error(e), Error(f)) = Aggregate(<<Error(e), Error(f)>>)
  BY <1>1 DEF Join
<1>4. \A f \in {"rollback", "close"} : Join(nil, Error(f)) = Aggregate(<<Error(f)>>)
  BY <1>1 DEF Join
<1> QED BY <1>1, <1>2, <1>3, <1>4

LEMMA TxStep ==
  ASSUME TxInv, [DbNext]_dbVars
  PROVE  TxInv'
<1>1. CASE BeginFails
  <2>1. PICK e \in TxErrors : txerr' = Error(e)
    BY <1>1 DEF BeginFails, TxErrors
  <2>2. txpc = "begin" /\ txpc' = "returned" /\ UNCHANGED <<server, finished, own, alive, told, unsure, stuck, ran>>
    BY <1>1 DEF BeginFails, InTx, TxMoves
  <2> QED BY <2>1, <2>2, ErrorsDiffer DEF TxInv
<1>2. CASE BeginTx
  BY <1>2 DEF BeginTx, InTx, TxMoves, TxInv
<1>3. CASE RunFinishes
  BY <1>3 DEF RunFinishes, InTx, TxMoves, TxInv
<1>4. CASE RunReturns
  <2>1. PICK r \in {"nil", "error", "panic"} :
          /\ InTx("run")
          /\ txerr' = IF r = "error" THEN Error("run") ELSE txerr
          /\ ran' = r
          /\ TxMoves(IF r = "nil" THEN "commit" ELSE "rollback")
          /\ UNCHANGED <<server, finished, own, alive, told, unsure, stuck>>
    BY <1>4, Zenon DEF RunReturns
  <2>2. txpc = "run" /\ txerr = nil
    BY <2>1 DEF InTx, TxInv
  <2>3. CASE r = "nil"
    BY <2>1, <2>2, <2>3 DEF TxMoves, TxInv
  <2>4. CASE r = "error"
    BY <2>1, <2>2, <2>4, ErrorsDiffer DEF TxMoves, TxInv, TxErrors
  <2>5. CASE r = "panic"
    BY <2>1, <2>2, <2>5 DEF TxMoves, TxInv
  <2> QED BY <2>1, <2>3, <2>4, <2>5
<1>5. CASE CommitRefused
  BY <1>5, ErrorsDiffer DEF CommitRefused, InTx, TxMoves, TxInv, TxErrors
<1>6. CASE Commit
  BY <1>6, ErrorsDiffer DEF Commit, InTx, TxMoves, TxInv, TxErrors
<1>7. CASE Rollback
  <2>1. PICK ok \in BOOLEAN :
          /\ InTx("rollback")
          /\ IF ~RollsBack \/ finished THEN UNCHANGED <<server, finished, stuck, txerr>>
             ELSE /\ finished' = TRUE /\ stuck' = ~ok
                  /\ server' = IF ok THEN "undone" ELSE server
                  /\ txerr' = IF ok THEN txerr ELSE Join(txerr, Error("rollback"))
          /\ TxMoves("returned")
          /\ UNCHANGED <<own, alive, told, unsure, ran>>
    BY <1>7, Zenon DEF Rollback
  <2>2. txpc = "rollback" /\ txpc' = "returned" /\ stuck = FALSE
    BY <2>1 DEF InTx, TxMoves, TxInv
  <2>3. CASE told \/ finished
    BY <2>1, <2>2, <2>3 DEF RollsBack, TxInv
  <2>4. CASE ~told /\ ~finished /\ ok
    BY <2>1, <2>2, <2>4 DEF RollsBack, TxInv
  <2>5. CASE ~told /\ ~finished /\ ~ok
    <3>1. finished' = TRUE /\ stuck' = TRUE /\ server' = server /\ txerr' = Join(txerr, Error("rollback"))
      BY <2>1, <2>5 DEF RollsBack
    <3>2. txerr = nil \/ \E e \in TxErrors : txerr = Error(e)
      BY <2>2 DEF TxInv
    <3>3. txerr' = Aggregate(<<Error("rollback")>>) \/ \E e \in TxErrors : txerr' = Aggregate(<<Error(e), Error("rollback")>>)
      BY <3>1, <3>2, ErrorsDiffer
    <3>4. txerr' # nil
      BY <3>3, ErrorsDiffer
    <3>5. ran = "error" => txerr = Error("run")
      BY <2>2, <3>2 DEF TxInv, Error, Aggregate, TxErrors, nil
    <3>6. ran' = "error" => txerr' = Aggregate(<<Error("run"), Error("rollback")>>)
      BY <2>1, <3>1, <3>5, ErrorsDiffer DEF TxErrors
    <3> QED BY <2>1, <2>2, <2>5, <3>1, <3>3, <3>4, <3>6 DEF TxInv
  <2> QED BY <2>3, <2>4, <2>5
<1>8. CASE EndContext
  BY <1>8 DEF EndContext, TxMoves, TxInv
<1>9. CASE AwaitDone
  BY <1>9 DEF AwaitDone, TxMoves, TxInv
<1>10. CASE UNCHANGED txVars
  BY <1>10 DEF txVars, TxInv
<1>11. LoadNext \/ Build => UNCHANGED txVars
  BY DEF LoadNext, Build, QueryFails, NextTable, ReadRow, RowsEnd, CloseRows, NoTables, Update, LoadMoves, txVars
<1> QED BY <1>1, <1>2, <1>3, <1>4, <1>5, <1>6, <1>7, <1>8, <1>9, <1>10, <1>11 DEF DbNext, TxNext, dbVars

LEMMA TxInvSettles == TxInv => TransactionsSettle
<1> SUFFICES ASSUME TxInv, txpc = "returned", server # "none"
             PROVE  /\ finished = TRUE
                    /\ txerr = nil /\ ran # "panic" => server = "committed"
                    /\ server = "committed" => told \/ unsure \/ own
                    /\ server = "open" => stuck
                    /\ stuck /\ ran # "panic" => Last(Errors(txerr)) = Error("rollback")
                    /\ ran = "error" => Errors(txerr) # <<>> /\ Errors(txerr)[1] = Error("run")
                    /\ unsure => Errors(txerr) # <<>> /\ Errors(txerr)[1] = Error("commit")
  BY DEF TransactionsSettle
<1>1. finished = TRUE
  BY DEF TxInv
<1>2. txerr = nil /\ ran # "panic" => server = "committed"
  BY DEF TxInv
<1>3. server = "committed" => told \/ unsure \/ own
  BY DEF TxInv
<1>4. server = "open" => stuck
  BY <1>1 DEF TxInv
<1>5. \A p : Errors(Aggregate(p)) = p
  BY ErrorsDiffer DEF Errors, Aggregate
<1>6. \A e \in TxErrors : Errors(Error(e)) = <<Error(e)>>
  BY ErrorsDiffer DEF Errors, Error, TxErrors
<1>7. \A x, y : Last(<<x>>) = x /\ Last(<<x, y>>) = y
  BY DEF Last
<1>8. stuck => Last(Errors(txerr)) = Error("rollback")
  <2>1. stuck => \/ txerr = Aggregate(<<Error("rollback")>>)
                 \/ \E e \in TxErrors : txerr = Aggregate(<<Error(e), Error("rollback")>>)
    BY DEF TxInv
  <2>2. CASE txerr = Aggregate(<<Error("rollback")>>)
    <3>1. Errors(txerr) = <<Error("rollback")>>
      BY <1>5, <2>2
    <3> QED BY <1>7, <3>1
  <2>3. CASE \E e \in TxErrors : txerr = Aggregate(<<Error(e), Error("rollback")>>)
    <3>1. PICK e \in TxErrors : txerr = Aggregate(<<Error(e), Error("rollback")>>)
      BY <2>3
    <3>2. Errors(txerr) = <<Error(e), Error("rollback")>>
      BY <1>5, <3>1
    <3> QED BY <1>7, <3>2
  <2> QED BY <2>1, <2>2, <2>3
<1>9. ran = "error" => Errors(txerr) # <<>> /\ Errors(txerr)[1] = Error("run")
  BY <1>5, <1>6 DEF TxInv, TxErrors
<1>10. unsure => Errors(txerr) # <<>> /\ Errors(txerr)[1] = Error("commit")
  BY <1>6 DEF TxInv, TxErrors
<1> QED BY <1>1, <1>2, <1>3, <1>4, <1>8, <1>9, <1>10

-----------------------------------------------------------------------------
(* Enumerations: the two maps stay each other's inverse *)

GoodEnum(c) == MutuallyInverse(c) /\ IsFiniteSet(DOMAIN c.id) /\ IsFiniteSet(DOMAIN c.name)

\* What set leaves of the two maps.
LEMMA SetIs ==
  ASSUME NEW c, MutuallyInverse(c), NEW id, NEW name, NEW d, d = set(c, id, name)
  PROVE  /\ DOMAIN d.id = {n \in DOMAIN c.id : c.id[n] # id} \cup {name}
         /\ DOMAIN d.name = {i \in DOMAIN c.name : c.name[i] # name} \cup {id}
         /\ d.id[name] = id /\ \A n \in DOMAIN d.id \ {name} : d.id[n] = c.id[n]
         /\ d.name[id] = name /\ \A i \in DOMAIN d.name \ {id} : d.name[i] = c.name[i]
<1> DEFINE kept == IF id \in DOMAIN c.name /\ c.name[id] # name THEN Without(c.id, c.name[id]) ELSE c.id
           names == IF name \in DOMAIN kept /\ kept[name] # id THEN Without(c.name, kept[name]) ELSE c.name
<1>0. d.id = Put(kept, name, id) /\ d.name = Put(names, id, name)
  BY DEF set
<1>1. DOMAIN kept \cup {name} = {n \in DOMAIN c.id : c.id[n] # id} \cup {name} /\ \A n \in DOMAIN kept : kept[n] = c.id[n]
  <2>1. CASE id \in DOMAIN c.name /\ c.name[id] # name
    <3>1. kept = Without(c.id, c.name[id])
      BY <2>1
    <3>2. DOMAIN kept = DOMAIN c.id \ {c.name[id]} /\ \A x \in DOMAIN c.id \ {c.name[id]} : kept[x] = c.id[x]
      BY <3>1 DEF Without
    <3> QED BY <2>1, <3>2 DEF MutuallyInverse, HasID, HasName
  <2>2. CASE ~(id \in DOMAIN c.name /\ c.name[id] # name)
    BY <2>2 DEF MutuallyInverse, HasID, HasName
  <2> QED BY <2>1, <2>2
<1>2. name \in DOMAIN kept <=> name \in DOMAIN c.id
  <2>1. CASE id \in DOMAIN c.name /\ c.name[id] # name
    <3>1. kept = Without(c.id, c.name[id])
      BY <2>1
    <3>2. DOMAIN kept = DOMAIN c.id \ {c.name[id]}
      BY <3>1 DEF Without
    <3> QED BY <2>1, <3>2
  <2>2. CASE ~(id \in DOMAIN c.name /\ c.name[id] # name)
    BY <2>2
  <2> QED BY <2>1, <2>2
<1> HIDE DEF kept
<1>3. DOMAIN names \cup {id} = {i \in DOMAIN c.name : c.name[i] # name} \cup {id} /\ \A i \in DOMAIN names : names[i] = c.name[i]
  <2>1. CASE name \in DOMAIN kept /\ kept[name] # id
    <3>1. names = Without(c.name, kept[name])
      BY <2>1
    <3>2. DOMAIN names = DOMAIN c.name \ {kept[name]} /\ \A x \in DOMAIN c.name \ {kept[name]} : names[x] = c.name[x]
      BY <3>1 DEF Without
    <3> QED BY <1>1, <1>2, <2>1, <3>2 DEF MutuallyInverse, HasID, HasName
  <2>2. CASE ~(name \in DOMAIN kept /\ kept[name] # id)
    BY <1>1, <1>2, <2>2 DEF MutuallyInverse, HasID, HasName
  <2> QED BY <2>1, <2>2
<1> HIDE DEF names
<1>4. DOMAIN d.id = DOMAIN kept \cup {name} /\ d.id[name] = id /\ \A x \in DOMAIN kept \ {name} : d.id[x] = kept[x]
  BY <1>0 DEF Put
<1>5. DOMAIN d.name = DOMAIN names \cup {id} /\ d.name[id] = name /\ \A x \in DOMAIN names \ {id} : d.name[x] = names[x]
  BY <1>0 DEF Put
<1> QED BY <1>1, <1>3, <1>4, <1>5

LEMMA SetKeeps ==
  ASSUME NEW c, GoodEnum(c), NEW id, NEW name
  PROVE  GoodEnum(set(c, id, name))
<1>0. PICK d : d = set(c, id, name)
  OBVIOUS
<1>1. /\ DOMAIN d.id = {n \in DOMAIN c.id : c.id[n] # id} \cup {name}
      /\ DOMAIN d.name = {i \in DOMAIN c.name : c.name[i] # name} \cup {id}
      /\ d.id[name] = id /\ \A n \in DOMAIN d.id \ {name} : d.id[n] = c.id[n]
      /\ d.name[id] = name /\ \A i \in DOMAIN d.name \ {id} : d.name[i] = c.name[i]
  BY <1>0, SetIs DEF GoodEnum
<1>2. MutuallyInverse(d)
  BY <1>1 DEF GoodEnum, MutuallyInverse, HasID, HasName
<1>3. IsFiniteSet({n \in DOMAIN c.id : c.id[n] # id}) /\ IsFiniteSet({i \in DOMAIN c.name : c.name[i] # name})
  BY FS_Subset DEF GoodEnum
<1>4. IsFiniteSet(DOMAIN d.id) /\ IsFiniteSet(DOMAIN d.name)
  BY <1>1, <1>3, FS_AddElement, SMTT(40)
<1> QED BY <1>0, <1>2, <1>4 DEF GoodEnum

LEMMA DeleteKeeps ==
  ASSUME NEW c, GoodEnum(c), NEW id
  PROVE  GoodEnum(DeleteEnum(c, id))
<1>1. CASE id \notin DOMAIN c.name
  BY <1>1 DEF DeleteEnum
<1>2. CASE id \in DOMAIN c.name
  <2>0. PICK d : d = DeleteEnum(c, id)
    OBVIOUS
  <2>1. d.name = Without(c.name, id) /\ d.id = Without(c.id, c.name[id])
    BY <1>2, <2>0 DEF DeleteEnum
  <2>2. DOMAIN d.name = DOMAIN c.name \ {id} /\ \A x \in DOMAIN c.name \ {id} : d.name[x] = c.name[x]
    BY <2>1 DEF Without
  <2>3. DOMAIN d.id = DOMAIN c.id \ {c.name[id]} /\ \A x \in DOMAIN c.id \ {c.name[id]} : d.id[x] = c.id[x]
    BY <2>1 DEF Without
  <2>4. MutuallyInverse(d)
    BY <1>2, <2>2, <2>3 DEF GoodEnum, MutuallyInverse, HasID, HasName
  <2>5. IsFiniteSet(DOMAIN d.id) /\ IsFiniteSet(DOMAIN d.name)
    BY <2>2, <2>3, FS_Subset DEF GoodEnum
  <2> QED BY <2>0, <2>4, <2>5 DEF GoodEnum
<1> QED BY <1>1, <1>2

LEMMA NoEnumIsGood == GoodEnum(NoEnum)
<1>1. DOMAIN NoEnum.id = {} /\ DOMAIN NoEnum.name = {}
  BY DEF NoEnum
<1> QED BY <1>1, FS_EmptySet DEF GoodEnum, MutuallyInverse

LEMMA GoodIsWhole ==
  ASSUME NEW c, GoodEnum(c)
  PROVE  /\ MutuallyInverse(c) /\ LenOf(c) = Cardinality(DOMAIN c.name)
         /\ \A id \in IDs, n \in Names : (Name(c, id) = [ok |-> TRUE, v |-> n]) <=> (ID(c, n) = [ok |-> TRUE, v |-> id])
<1>1. LenOf(c) = Cardinality(DOMAIN c.name)
  <2>1. PICK f : f = [n \in DOMAIN c.id |-> c.id[n]]
    OBVIOUS
  <2>2. f \in Bijection(DOMAIN c.id, DOMAIN c.name)
    BY <2>1 DEF Bijection, Injection, Surjection, IsInjective, GoodEnum, MutuallyInverse, HasID, HasName
  <2>3. ExistsBijection(DOMAIN c.id, DOMAIN c.name)
    BY <2>2 DEF ExistsBijection
  <2> QED BY <2>3, FS_Bijection DEF LenOf, GoodEnum
<1>2. ASSUME NEW id \in IDs, NEW n \in Names
      PROVE  (Name(c, id) = [ok |-> TRUE, v |-> n]) <=> (ID(c, n) = [ok |-> TRUE, v |-> id])
  <2>1. (Name(c, id) = [ok |-> TRUE, v |-> n]) <=> (id \in DOMAIN c.name /\ c.name[id] = n)
    <3>1. CASE id \in DOMAIN c.name
      BY <3>1 DEF Name, HasID
    <3>2. CASE id \notin DOMAIN c.name
      BY <3>2 DEF Name, HasID
    <3> QED BY <3>1, <3>2
  <2>2. (ID(c, n) = [ok |-> TRUE, v |-> id]) <=> (n \in DOMAIN c.id /\ c.id[n] = id)
    <3>1. CASE n \in DOMAIN c.id
      BY <3>1 DEF ID, HasName
    <3>2. CASE n \notin DOMAIN c.id
      BY <3>2 DEF ID, HasName
    <3> QED BY <3>1, <3>2
  <2> QED BY <2>1, <2>2 DEF GoodEnum, MutuallyInverse, HasID, HasName
<1> QED BY <1>1, <1>2 DEF GoodEnum

\* A row displaces the pairs that it shares an identifier or a name with.
LEMMA NextRow ==
  ASSUME NEW c, GoodEnum(c), NEW k \in Nat, NEW rows \in Seq([id : IDs, name : Names]), k + 1 \in DOMAIN rows,
         HoldsRows(c, rows, k)
  PROVE  HoldsRows(set(c, rows[k + 1].id, rows[k + 1].name), rows, k + 1)
<1> DEFINE id == rows[k + 1].id
           name == rows[k + 1].name
<1>0. PICK d : d = set(c, id, name)
  OBVIOUS
<1>1. /\ DOMAIN d.name = {i \in DOMAIN c.name : c.name[i] # name} \cup {id}
      /\ d.name[id] = name /\ \A i \in DOMAIN d.name \ {id} : d.name[i] = c.name[i]
  BY <1>0, SetIs DEF GoodEnum
<1>2. ASSUME NEW i \in 1..k, Lasts(rows, i, k)
      PROVE  rows[i].id \in DOMAIN c.name /\ c.name[rows[i].id] = rows[i].name
  <2>1. Name(c, rows[i].id) = [ok |-> TRUE, v |-> rows[i].name]
    BY <1>2 DEF HoldsRows
  <2>2. CASE rows[i].id \in DOMAIN c.name
    BY <2>1, <2>2 DEF Name, HasID
  <2>3. CASE rows[i].id \notin DOMAIN c.name
    <3>1. Name(c, rows[i].id).ok = FALSE
      BY <2>3 DEF Name, HasID
    <3> QED BY <2>1, <3>1
  <2> QED BY <2>2, <2>3
<1>3. ASSUME NEW i \in 1..(k + 1), Lasts(rows, i, k + 1)
      PROVE  rows[i].id \in DOMAIN d.name /\ d.name[rows[i].id] = rows[i].name
  <2>1. CASE i = k + 1
    BY <1>1, <2>1
  <2>2. CASE i # k + 1
    <3>1. i \in 1..k /\ k + 1 \in (i + 1)..(k + 1)
      BY <2>2
    <3>2. Lasts(rows, i, k) /\ id # rows[i].id /\ name # rows[i].name
      BY <1>3, <3>1 DEF Lasts
    <3> QED BY <1>1, <1>2, <3>1, <3>2
  <2> QED BY <2>1, <2>2
<1>4. \A i \in 1..(k + 1) : Lasts(rows, i, k + 1) => Name(d, rows[i].id) = [ok |-> TRUE, v |-> rows[i].name]
  BY <1>3 DEF Name, HasID
<1>5. ASSUME NEW x \in DOMAIN d.name
      PROVE  \E i \in 1..(k + 1) : Lasts(rows, i, k + 1) /\ rows[i].id = x
  <2>1. CASE x = id
    <3>1. k + 1 \in 1..(k + 1) /\ Lasts(rows, k + 1, k + 1)
      BY DEF Lasts
    <3> QED BY <2>1, <3>1
  <2>2. CASE x # id
    <3>1. x \in DOMAIN c.name /\ c.name[x] # name
      BY <1>1, <2>2
    <3>2. PICK i \in 1..k : Lasts(rows, i, k) /\ rows[i].id = x
      BY <3>1 DEF HoldsRows
    <3>3. rows[i].name # name /\ rows[i].id # id
      BY <1>2, <2>2, <3>1, <3>2
    <3>4. i \in 1..(k + 1) /\ Lasts(rows, i, k + 1)
      <4>1. ASSUME NEW j \in (i + 1)..(k + 1) PROVE rows[j].id # rows[i].id /\ rows[j].name # rows[i].name
        <5>1. CASE j = k + 1
          BY <3>3, <5>1
        <5>2. CASE j # k + 1
          BY <3>2, <5>2 DEF Lasts
        <5> QED BY <5>1, <5>2
      <4> QED BY <4>1 DEF Lasts
    <3> QED BY <3>2, <3>4
  <2> QED BY <2>1, <2>2
<1> QED BY <1>0, <1>4, <1>5 DEF HoldsRows

-----------------------------------------------------------------------------
(* Enumerations: a load *)

TableRows == Seq([id : IDs, name : Names])
Loading == loadpc \in {"rows", "close"}

\* Where a load is says which tables it has and how much of the next one; none has more than
\* its rows gave it until somebody writes.
LoadInv ==
  /\ tables \in Seq(TableRows) /\ todo \subseteq DOMAIN tables
  /\ GoodEnum(cache) /\ \A t \in DOMAIN enums : GoodEnum(enums[t])
  /\ loadpc \in {"pick", "rows", "close", "loaded", "failed"}
  /\ writes \in Nat /\ (loadpc # "loaded" => writes = 0)
  /\ opened = IF Loading THEN 1 ELSE 0
  /\ Loading => table \in DOMAIN tables \ todo /\ DOMAIN enums = DOMAIN tables \ (todo \cup {table})
  /\ loadpc \in {"pick", "rows", "loaded"} => loaderr = nil
  /\ loadpc = "close" => loaderr = nil \/ \E e \in {"scan", "rows"} : loaderr = Error(e)
  /\ loadpc = "failed" => loaderr # nil /\ Errors(loaderr) # <<>> /\ enums = <<>>
  /\ loadpc = "pick" => DOMAIN enums = DOMAIN tables \ todo
  /\ loadpc = "loaded" => DOMAIN enums = DOMAIN tables
  /\ loadpc = "rows" => row \in Nat \ {0} /\ row <= Len(tables[table]) + 1 /\ HoldsRows(cache, tables[table], row - 1)
  /\ loadpc = "close" /\ loaderr = nil => HoldsRows(cache, tables[table], Len(tables[table]))
  /\ writes = 0 => \A t \in DOMAIN enums : HoldsRows(enums[t], tables[t], Len(tables[t]))

LEMMA EmptyHoldsNone ==
  ASSUME NEW rows
  PROVE  HoldsRows(NoEnum, rows, 0)
<1>1. DOMAIN NoEnum.name = {}
  BY DEF NoEnum
<1>2. 1..0 = {}
  OBVIOUS
<1> QED BY <1>1, <1>2 DEF HoldsRows

LEMMA LoadStep ==
  ASSUME LoadInv, [DbNext]_dbVars
  PROVE  LoadInv'
<1>0. tables' = tables
  BY DEF DbNext, TxNext, LoadNext, Build, BeginFails, BeginTx, RunFinishes, RunReturns, CommitRefused, Commit, Rollback, EndContext,
         AwaitDone, TxMoves, QueryFails, NextTable, ReadRow, RowsEnd, CloseRows, NoTables, Update, LoadMoves, loadVars, dbVars
<1>1. CASE QueryFails
  <2>1. DOMAIN enums' = {} /\ enums' = <<>>
    BY <1>1 DEF QueryFails
  <2>2. loaderr' # nil /\ Errors(loaderr') # <<>>
    BY <1>1, ErrorsDiffer DEF QueryFails, Errors, Error
  <2>3. loadpc = "pick" /\ loadpc' = "failed" /\ UNCHANGED <<todo, table, row, opened, cache, writes>>
    BY <1>1 DEF QueryFails, InLoad, LoadMoves
  <2> QED BY <1>0, <2>1, <2>2, <2>3 DEF LoadInv, Loading
<1>2. CASE NextTable
  <2>1. PICK t \in todo :
          /\ table' = t /\ todo' = todo \ {t} /\ row' = 1 /\ opened' = opened + 1 /\ cache' = NoEnum
          /\ loadpc = "pick" /\ loadpc' = "rows" /\ UNCHANGED <<enums, loaderr, writes>>
    BY <1>2 DEF NextTable, InLoad, LoadMoves
  <2>2. GoodEnum(cache') /\ HoldsRows(cache', tables[table'], row' - 1)
    <3>1. row' - 1 = 0
      BY <2>1
    <3> QED BY <2>1, <3>1, NoEnumIsGood, EmptyHoldsNone
  <2>3. t \in DOMAIN tables /\ tables[t] \in TableRows
    BY <2>1 DEF LoadInv
  <2>4. Len(tables[t]) \in Nat
    BY <2>3 DEF TableRows
  <2>5. row' \in Nat \ {0} /\ row' <= Len(tables[table']) + 1
    BY <2>1, <2>4
  <2>6. table' \in DOMAIN tables \ todo' /\ DOMAIN enums = DOMAIN tables \ (todo' \cup {table'}) /\ todo' \subseteq DOMAIN tables
    BY <2>1, <2>3 DEF LoadInv
  <2> QED BY <1>0, <2>1, <2>2, <2>5, <2>6 DEF LoadInv, Loading
<1>3. CASE ReadRow
  <2>1. /\ loadpc = "rows" /\ loadpc' = "rows" /\ row <= Len(tables[table]) /\ row' = row + 1
        /\ cache' = set(cache, tables[table][row].id, tables[table][row].name)
        /\ UNCHANGED <<todo, table, opened, enums, loaderr, writes>>
    BY <1>3 DEF ReadRow, InLoad, LoadMoves, Rows
  <2>2. PICK k \in Nat : k = row - 1
    BY <2>1 DEF LoadInv
  <2>3. row = k + 1 /\ row' = k + 2 /\ row' - 1 = k + 1 /\ row \in Nat
    BY <2>1, <2>2 DEF LoadInv
  <2>4. tables[table] \in TableRows /\ HoldsRows(cache, tables[table], k) /\ GoodEnum(cache)
    BY <2>1, <2>2 DEF LoadInv, Loading
  <2>5. Len(tables[table]) \in Nat /\ DOMAIN tables[table] = 1..Len(tables[table])
    BY <2>4 DEF TableRows
  <2>6. k + 1 \in DOMAIN tables[table]
    BY <2>1, <2>3, <2>5
  <2>7. HoldsRows(set(cache, tables[table][k + 1].id, tables[table][k + 1].name), tables[table], k + 1)
    BY <2>4, <2>6, NextRow DEF TableRows
  <2>8. GoodEnum(cache') /\ HoldsRows(cache', tables[table], row' - 1)
    BY <2>1, <2>3, <2>4, <2>7, SetKeeps
  <2>9. row' \in Nat \ {0} /\ row' <= Len(tables[table]) + 1
    BY <2>1, <2>3, <2>5
  <2> QED BY <1>0, <2>1, <2>8, <2>9 DEF LoadInv, Loading
<1>4. CASE RowsEnd
  <2>1. PICK e \in {nil, Error("scan"), Error("rows")} :
          /\ loadpc = "rows" /\ loadpc' = "close" /\ loaderr' = e /\ UNCHANGED <<todo, table, row, opened, cache, enums, writes>>
          /\ IF e = Error("scan") THEN row <= Len(tables[table]) ELSE e = nil => row > Len(tables[table])
    BY <1>4 DEF RowsEnd, InLoad, LoadMoves, Rows
  <2>2. loaderr' = nil \/ \E x \in {"scan", "rows"} : loaderr' = Error(x)
    BY <2>1
  <2>3. tables[table] \in TableRows
    BY <2>1 DEF LoadInv, Loading
  <2>4. Len(tables[table]) \in Nat
    BY <2>3 DEF TableRows
  <2>5. e = nil => row > Len(tables[table])
    BY <2>1, ErrorsDiffer
  <2>6. loaderr' = nil => row - 1 = Len(tables[table])
    BY <2>1, <2>4, <2>5 DEF LoadInv
  <2>7. loaderr' = nil => HoldsRows(cache', tables[table], Len(tables[table]))
    BY <2>1, <2>6 DEF LoadInv
  <2> QED BY <1>0, <2>1, <2>2, <2>7 DEF LoadInv, Loading
<1>5. CASE CloseRows
  <2>1. PICK c \in {"ok", "close"} :
          /\ InLoad("close")
          /\ opened' = opened - 1
          /\ loaderr' = JoinFnError(loaderr, c)
          /\ IF loaderr' # nil THEN enums' = <<>> /\ LoadMoves("failed")
             ELSE enums' = Put(enums, table, cache) /\ LoadMoves(IF todo = {} THEN "loaded" ELSE "pick")
          /\ UNCHANGED <<todo, table, row, cache, writes>>
    BY <1>5, Zenon DEF CloseRows
  <2>2. loadpc = "close" /\ opened' = 0 /\ UNCHANGED <<todo, table, row, cache, writes>>
    BY <2>1 DEF InLoad, LoadInv, Loading
  <2>3. CASE loaderr' # nil
    <3>1. DOMAIN enums' = {} /\ enums' = <<>> /\ loadpc' = "failed"
      BY <2>1, <2>3 DEF LoadMoves
    <3>2. Errors(loaderr') # <<>>
      <4>1. \A e \in {"scan", "rows"} : Errors(Error(e)) # <<>>
        BY ErrorsDiffer DEF Errors, Error
      <4>2. \A x, y : Errors(Aggregate(<<x>>)) # <<>> /\ Errors(Aggregate(<<x, y>>)) # <<>>
        BY ErrorsDiffer DEF Errors, Aggregate
      <4>3. loaderr' = loaderr \/ loaderr' = Join(loaderr, Error("close"))
        BY <2>1 DEF JoinFnError
      <4>4. loaderr = nil \/ \E e \in {"scan", "rows"} : loaderr = Error(e)
        BY <2>2 DEF LoadInv
      <4>5. CASE loaderr' = loaderr
        BY <2>3, <4>1, <4>4, <4>5
      <4>6. CASE loaderr' = Join(loaderr, Error("close"))
        <5>1. CASE loaderr = nil
          BY <4>2, <4>6, <5>1, ErrorsDiffer
        <5>2. CASE \E e \in {"scan", "rows"} : loaderr = Error(e)
          BY <4>2, <4>6, <5>2, ErrorsDiffer
        <5> QED BY <4>4, <5>1, <5>2
      <4> QED BY <4>3, <4>5, <4>6
    <3> QED BY <1>0, <2>2, <2>3, <3>1, <3>2 DEF LoadInv, Loading
  <2>4. CASE loaderr' = nil
    <3>1. enums' = Put(enums, table, cache) /\ loadpc' = IF todo = {} THEN "loaded" ELSE "pick"
      BY <2>1, <2>4 DEF LoadMoves
    <3>2. loaderr = nil
      <4>1. CASE loaderr = nil
        BY <4>1
      <4>2. CASE \E e \in {"scan", "rows"} : loaderr = Error(e)
        <5>1. PICK e \in {"scan", "rows"} : loaderr = Error(e)
          BY <4>2
        <5>2. CASE c = "ok"
          <6>1. loaderr' = loaderr
            BY <2>1, <5>2 DEF JoinFnError
          <6> QED BY <2>4, <6>1
        <5>3. CASE c = "close"
          <6>1. loaderr' = Join(Error(e), Error("close"))
            BY <2>1, <5>1, <5>3 DEF JoinFnError
          <6>2. loaderr' = Aggregate(<<Error(e), Error("close")>>)
            BY <6>1, ErrorsDiffer
          <6> QED BY <2>4, <6>2, ErrorsDiffer
        <5> QED BY <5>2, <5>3
      <4> QED BY <2>2, <4>1, <4>2 DEF LoadInv
    <3>3. DOMAIN enums' = DOMAIN enums \cup {table} /\ enums'[table] = cache /\ \A t \in DOMAIN enums \ {table} : enums'[t] = enums[t]
      BY <3>1 DEF Put
    <3>4. DOMAIN enums' = DOMAIN tables \ todo
      BY <2>2, <3>3 DEF LoadInv, Loading
    <3>5. \A t \in DOMAIN enums' : GoodEnum(enums'[t])
      BY <3>3 DEF LoadInv
    <3>6. HoldsRows(cache, tables[table], Len(tables[table])) /\ writes = 0
      BY <2>2, <3>2 DEF LoadInv
    <3>7. \A t \in DOMAIN enums' : HoldsRows(enums'[t], tables[t], Len(tables[t]))
      BY <3>3, <3>6 DEF LoadInv
    <3> QED BY <1>0, <2>2, <2>4, <3>1, <3>4, <3>5, <3>7 DEF LoadInv, Loading
  <2> QED BY <2>3, <2>4
<1>6. CASE NoTables
  BY <1>0, <1>6 DEF NoTables, InLoad, LoadMoves, LoadInv, Loading
<1>7. CASE Update
  <2>1. loadpc = "loaded" /\ loadpc' = "loaded" /\ writes' = writes + 1 /\ UNCHANGED <<todo, table, row, opened, cache, loaderr>>
    BY <1>7 DEF Update, InLoad, LoadMoves
  <2>2. \E t \in DOMAIN enums : \E c : GoodEnum(c) /\ enums' = [enums EXCEPT ![t] = c]
    <3>1. PICK t \in DOMAIN enums :
            \/ \E id \in IDs, name \in Names : enums' = [enums EXCEPT ![t] = set(enums[t], id, name)]
            \/ \E id \in IDs : enums' = [enums EXCEPT ![t] = DeleteEnum(enums[t], id)]
            \/ \E p, q \in IDs \X Names : enums' = [enums EXCEPT ![t] = set(set(enums[t], p[1], p[2]), q[1], q[2])]
      BY <1>7 DEF Update
    <3>2. GoodEnum(enums[t])
      BY DEF LoadInv
    <3>3. \E c : GoodEnum(c) /\ enums' = [enums EXCEPT ![t] = c]
      BY <3>1, <3>2, SetKeeps, DeleteKeeps
    <3> QED BY <3>3
  <2>3. DOMAIN enums' = DOMAIN enums /\ \A u \in DOMAIN enums' : GoodEnum(enums'[u])
    BY <2>2 DEF LoadInv
  <2>4. writes' \in Nat /\ writes' # 0
    BY <2>1 DEF LoadInv
  <2> QED BY <1>0, <2>1, <2>3, <2>4 DEF LoadInv, Loading
<1>8. CASE UNCHANGED loadVars
  BY <1>8 DEF loadVars, LoadInv, Loading
<1>9. TxNext \/ Build => UNCHANGED loadVars
  BY DEF TxNext, Build, BeginFails, BeginTx, RunFinishes, RunReturns, CommitRefused, Commit, Rollback, EndContext, AwaitDone, TxMoves, loadVars
<1> QED BY <1>1, <1>2, <1>3, <1>4, <1>5, <1>6, <1>7, <1>8, <1>9 DEF DbNext, LoadNext, dbVars

LEMMA LoadInvIsWhole == LoadInv => EnumerationsAreWhole
<1> SUFFICES ASSUME LoadInv PROVE EnumerationsAreWhole
  OBVIOUS
<1>1. ASSUME NEW c \in {cache} \cup {enums[t] : t \in DOMAIN enums}
      PROVE  /\ MutuallyInverse(c) /\ LenOf(c) = Cardinality(DOMAIN c.name)
             /\ \A id \in IDs, n \in Names : (Name(c, id) = [ok |-> TRUE, v |-> n]) <=> (ID(c, n) = [ok |-> TRUE, v |-> id])
  <2>1. GoodEnum(c)
    BY DEF LoadInv
  <2> QED BY <2>1, GoodIsWhole
<1>2. loadpc \in {"loaded", "failed"} => opened = 0 /\ (loadpc = "failed" <=> Errors(Trace(loaderr)) # <<>>)
  <2>1. Errors(nil) = <<>>
    BY DEF Errors
  <2> QED BY <2>1 DEF LoadInv, Loading, Trace
<1>3. loadpc = "failed" => enums = <<>>
  BY DEF LoadInv
<1>4. loadpc = "loaded" => DOMAIN enums = DOMAIN tables
  BY DEF LoadInv
<1>5. loadpc = "loaded" /\ writes = 0 => \A t \in DOMAIN tables : HoldsRows(enums[t], tables[t], Len(tables[t]))
  BY <1>4 DEF LoadInv
<1> QED BY <1>1, <1>2, <1>3, <1>4, <1>5 DEF EnumerationsAreWhole

LEMMA DbInitially == DbInit => TxInv /\ LoadInv
<1> SUFFICES ASSUME DbInit PROVE TxInv /\ LoadInv
  OBVIOUS
<1>1. IdleTx
  BY DEF DbInit, DbIdle
<1>2. TxInv
  BY <1>1 DEF IdleTx, TxInv
<1>3. PICK contents \in Seq(TableRows) : IdleLoad(contents)
  <2>1. CASE \E what \in {"tx", "sql"} : DbIdle(what, <<>>)
    <3>1. <<>> \in Seq(TableRows)
      OBVIOUS
    <3> QED BY <2>1, <3>1 DEF DbIdle
  <2>2. CASE \E contents \in Tables : DbIdle("enum", contents)
    BY <2>2, TablesAssumption DEF DbIdle, TableRows
  <2> QED BY <2>1, <2>2 DEF DbInit
<1>4. /\ tables = contents /\ loadpc = "pick" /\ todo = DOMAIN contents /\ opened = 0 /\ cache = NoEnum /\ enums = <<>>
      /\ loaderr = nil /\ writes = 0
  BY <1>3 DEF IdleLoad
<1>5. DOMAIN enums = {}
  BY <1>4
<1>6. LoadInv
  BY <1>3, <1>4, <1>5, NoEnumIsGood DEF LoadInv, Loading
<1> QED BY <1>2, <1>6

\* However a transaction's call ends (pkg/sqltransaction), its handle is finished, nil means that
\* the server committed, and no error hides another; and for tables of any length and any
\* sequence of writes, a load (pkg/enumdb) closes what it opened and is whole or nothing, and the
\* two maps of pkg/enumcache stay each other's inverse.
THEOREM DatabaseStaysClean == DbSpec => []DatabaseIsLeftClean
<1>1. TxInv /\ LoadInv /\ [DbNext]_dbVars => (TxInv /\ LoadInv)'
  BY TxStep, LoadStep
<1>2. TxInv /\ LoadInv => DatabaseIsLeftClean
  BY TxInvSettles, LoadInvIsWhole DEF DatabaseIsLeftClean
<1> QED BY DbInitially, <1>1, <1>2, PTL DEF DbSpec

-----------------------------------------------------------------------------
(* Exchanges *)

BodyType == [buf : Seq(Nat), pos : Nat \ {0}, n : Nat, failAt : Nat]

\* A body of which only what a dump read, in front, was taken from the connection.
Fresh(s) == s \in BodyType /\ Intact(s) /\ s.pos <= s.n + 1

\* A dump read up to where the connection breaks, and kept nothing.
Drained(s) == s \in BodyType /\ s.buf = <<>> /\ Breaks(s) /\ s.pos = s.failAt

\* What is read, what is buffered and what the connection still has follow each other.
InStep ==
  /\ Len(bodyRead) + Len(resp.buf) + 1 = resp.pos
  /\ \A i \in 1..Len(resp.buf) : resp.buf[i] = Len(bodyRead) + i

ExTypeOK ==
  /\ settings \in HTTPClientType
  /\ resp \in BodyType /\ resp.pos <= resp.n + 1
  /\ bodyRead \in Seq(Nat) /\ eof \in BOOLEAN /\ failed \in BOOLEAN
  /\ peeked \in Nat /\ dumped \in Nat /\ stated \in Int /\ buffered \in Nat

ReadInv ==
  /\ \A i \in 1..Len(bodyRead) : bodyRead[i] = i
  /\ InStep \/ (bodyRead = <<>> /\ Drained(resp))
  /\ eof = TRUE => Len(bodyRead) = resp.n
  /\ failed = TRUE => Breaks(resp) \/ reqctx # "live"
  /\ expc \in {"idle", "sent"} => bodyRead = <<>> /\ eof = FALSE /\ failed = FALSE /\ resp = NoBody

CtxInv ==
  /\ expc = "idle" => reqctx = "live"
  /\ expc \in {"idle", "sent"} => exresult = "none"
  /\ expc \in {"idle", "sent", "returned", "closed"}
  /\ expc = "sent" /\ reqctx # "live" => settings.timeout \/ parent = "gone"
  /\ expc = "returned" /\ exresult = "ok" /\ reqctx # "live" => settings.timeout \/ parent = "gone"
  /\ expc = "closed" \/ (expc = "returned" /\ exresult # "ok") => reqctx # "live"

DumpInv ==
  /\ Intact(outgoing) \/ Breaks(outgoing)
  /\ settings.maxDumpSize > 0 => peeked <= settings.maxDumpSize + 1 /\ dumped <= settings.maxDumpSize
  /\ settings.maxDumpSize > 0 /\ stated # 0 => buffered <= settings.maxDumpSize

IDInv ==
  expc # "idle" /\ exresult # "nilURL" =>
    /\ Valid(ids.sent) /\ ids.reqID = ids.sent
    /\ ids.sent = IF Valid(ids.ctxID) THEN ids.ctxID ELSE IF Valid(ids.header) THEN ids.header ELSE "new"

ExInv == ExTypeOK /\ ReadInv /\ CtxInv /\ DumpInv /\ IDInv

LEMMA BytesInOrder ==
  ASSUME NEW n \in Nat
  PROVE  Bytes(n) \in Seq(Nat) /\ Len(Bytes(n)) = n /\ \A i \in 1..n : Bytes(n)[i] = i
<1>1. Bytes(n) \in [1..n -> Nat]
  BY DEF Bytes
<1>2. Bytes(n) \in Seq(Nat) /\ DOMAIN Bytes(n) = 1..n
  BY <1>1
<1> QED
  BY <1>2 DEF Bytes

LEMMA NoBytes == Bytes(0) = <<>>
<1>1. Bytes(0) \in Seq(Nat) /\ Len(Bytes(0)) = 0
  BY BytesInOrder
<1> QED
  BY <1>1, EmptySeq

LEMMA SameBytes ==
  ASSUME NEW s \in Seq(Nat), \A i \in 1..Len(s) : s[i] = i
  PROVE  s = Bytes(Len(s))
<1>1. Len(s) \in Nat /\ s \in [1..Len(s) -> Nat]
  BY LenProperties
<1>2. s = [i \in 1..Len(s) |-> s[i]]
  BY <1>1
<1> QED
  BY <1>2 DEF Bytes

LEMMA StreamFresh ==
  ASSUME ExchangeAssumption, NEW s \in Streams
  PROVE  Fresh(s) /\ s.buf = <<>> /\ s.pos = 1
<1>1. PICK n \in BodyLens, f \in FailPoints : s = [buf |-> <<>>, pos |-> 1, n |-> n, failAt |-> f]
  BY DEF Streams
<1>2. n \in Nat /\ f \in Nat /\ <<>> \in Seq(Nat) /\ Len(<<>>) = 0
  BY ExchangeAssumption DEF ExchangeAssumption
<1>3. s.buf = <<>> /\ s.pos = 1 /\ s.n = n /\ s.failAt = f
  BY <1>1
<1>4. s \in BodyType
  BY <1>1, <1>2 DEF BodyType
<1> QED
  BY <1>2, <1>3, <1>4, NoBytes DEF Fresh, Intact

LEMMA ReachBounds ==
  ASSUME NEW s \in BodyType
  PROVE  /\ Reach(s) \in Nat /\ Reach(s) <= s.n
         /\ Breaks(s) => Reach(s) + 1 = s.failAt
  BY DEF BodyType, Reach, Breaks, Lesser

LEMMA Rewound ==
  ASSUME NEW s \in BodyType, NEW b \in Seq(Nat), NEW p \in Nat \ {0}
  PROVE  /\ Rest(s, b, p) \in BodyType
         /\ Rest(s, b, p).buf = b /\ Rest(s, b, p).pos = p /\ Rest(s, b, p).n = s.n /\ Rest(s, b, p).failAt = s.failAt
  BY DEF BodyType, Rest

\* What a dump leaves of a body is whole, or breaks where it did.
LEMMA Drains ==
  ASSUME ExchangeAssumption, NEW s \in Streams
  PROVE  /\ Fresh(Drain(s).s) \/ Drained(Drain(s).s)
         /\ Drain(s).held \in Nat /\ Drain(s).held <= s.n
         /\ Drain(s).dumped \in Nat /\ Drain(s).dumped <= s.n
<1>1. s \in BodyType /\ s.buf = <<>> /\ s.pos = 1 /\ s.n \in Nat
  BY StreamFresh DEF Fresh, BodyType
<1>2. Reach(s) \in Nat /\ Reach(s) <= s.n /\ (Breaks(s) => Reach(s) + 1 = s.failAt)
  BY <1>1, ReachBounds
<1>3. CASE Breaks(s)
  <2> DEFINE t == Rest(s, <<>>, Reach(s) + 1)
  <2>1. Drain(s) = [s |-> t, dumped |-> 0, held |-> Reach(s)]
    BY <1>3 DEF Drain
  <2>2. t \in BodyType /\ t.buf = <<>> /\ t.pos = t.failAt /\ t.failAt = s.failAt /\ t.n = s.n
    <3>1. Reach(s) + 1 \in Nat \ {0} /\ <<>> \in Seq(Nat)
      BY <1>2
    <3> QED
      BY <1>1, <1>2, <1>3, <3>1, Rewound, ZenonT(40)
  <2>3. Drained(t)
    BY <1>3, <2>2 DEF Drained, Breaks
  <2> HIDE DEF t
  <2> QED
    BY <1>1, <1>2, <2>1, <2>3
<1>4. CASE ~Breaks(s)
  <2> DEFINE t == Rest(s, Bytes(s.n), s.n + 1)
  <2>1. Drain(s) = [s |-> t, dumped |-> s.n, held |-> s.n]
    BY <1>4 DEF Drain
  <2>2. Bytes(s.n) \in Seq(Nat) /\ Len(Bytes(s.n)) = s.n
    BY <1>1, BytesInOrder
  <2>3. t \in BodyType /\ t.buf = Bytes(s.n) /\ t.pos = s.n + 1 /\ t.n = s.n
    <3>1. s.n + 1 \in Nat \ {0}
      BY <1>1
    <3> QED
      BY <1>1, <2>2, <3>1, Rewound
  <2>4. Fresh(t)
    BY <1>1, <2>2, <2>3 DEF Fresh, Intact
  <2> HIDE DEF t
  <2> QED
    BY <1>1, <2>1, <2>4
<1> QED
  BY <1>3, <1>4

LEMMA Untaken ==
  ASSUME ExchangeAssumption, NEW s \in Streams
  PROVE  Fresh(NotRead(s).s) /\ NotRead(s).held = 0 /\ NotRead(s).dumped = 0
  BY StreamFresh DEF NotRead

LEMMA RequestDump ==
  ASSUME ExchangeAssumption, NEW c \in HTTPClientType, NEW s \in Streams, NEW length \in RequestLengths(s),
         NEW d, d = (IF c.debug THEN dumpRequest(c, s, length) ELSE NotRead(s))
  PROVE  /\ Fresh(d.s) \/ Drained(d.s)
         /\ d.held \in Nat /\ (c.maxDumpSize > 0 /\ length # 0 => d.held <= c.maxDumpSize)
         /\ length \in Int
<1>1. s.n \in Nat /\ c.maxDumpSize \in Nat
  BY StreamFresh DEF Fresh, BodyType, HTTPClientType
<1>2. length \in {s.n, -1, 0} /\ length \in Int
  BY <1>1 DEF RequestLengths, Unknown
<1>3. CASE d = NotRead(s)
  BY <1>1, <1>2, <1>3, Untaken
<1>4. CASE d # NotRead(s)
  <2>1. d = Drain(s) /\ (c.maxDumpSize > 0 /\ length # 0 => s.n <= c.maxDumpSize)
    BY <1>1, <1>2, <1>4 DEF dumpRequest
  <2> QED
    BY <1>1, <1>2, <2>1, Drains
<1> QED
  BY <1>3, <1>4

LEMMA ResponseDump ==
  ASSUME ExchangeAssumption, NEW c \in HTTPClientType, NEW s \in Streams, NEW length \in ResponseLengths(s),
         NEW d, d = (IF c.debug THEN dumpResponse(c, s, length) ELSE NotRead(s))
  PROVE  /\ Fresh(d.s) \/ Drained(d.s)
         /\ d.held \in Nat /\ d.dumped \in Nat
         /\ c.maxDumpSize > 0 => d.held <= c.maxDumpSize + 1 /\ d.dumped <= c.maxDumpSize
<1>1. s.n \in Nat /\ c.maxDumpSize \in Nat /\ s \in BodyType
  BY StreamFresh DEF Fresh, BodyType, HTTPClientType
<1> DEFINE Peeks == c.debug /\ ~(length >= 0 \/ c.maxDumpSize <= 0)
           read  == Lesser(c.maxDumpSize + 1, Reach(s))
           broke == Breaks(s) /\ read < c.maxDumpSize + 1
           t     == Rest(s, Bytes(read), read + 1)
<1>2. CASE d = NotRead(s)
  BY <1>1, <1>2, Untaken
<1>3. CASE Peeks
  <2>1. d = [dumped |-> IF broke THEN 0 ELSE Lesser(read, c.maxDumpSize), held |-> read, s |-> t]
    BY <1>3 DEF dumpResponse
  <2>2. read \in Nat /\ read <= s.n /\ read <= c.maxDumpSize + 1
    BY <1>1, ReachBounds DEF Lesser
  <2>3. Bytes(read) \in Seq(Nat) /\ Len(Bytes(read)) = read
    BY <2>2, BytesInOrder
  <2>4. t \in BodyType /\ t.buf = Bytes(read) /\ t.pos = read + 1 /\ t.n = s.n
    <3>1. read + 1 \in Nat \ {0}
      BY <2>2
    <3> HIDE DEF read
    <3> QED
      BY <1>1, <2>3, <3>1, Rewound
  <2>5. Fresh(t)
    BY <1>1, <2>2, <2>3, <2>4 DEF Fresh, Intact
  <2> HIDE DEF t, broke, read
  <2>6. d.s = t /\ d.held = read /\ d.dumped \in {0, Lesser(read, c.maxDumpSize)}
    BY <2>1
  <2>7. Lesser(read, c.maxDumpSize) \in Nat /\ Lesser(read, c.maxDumpSize) <= c.maxDumpSize
    BY <1>1, <2>2 DEF Lesser
  <2> QED
    BY <1>1, <2>2, <2>5, <2>6, <2>7
<1>4. CASE ~Peeks /\ d # NotRead(s)
  <2>1. d = Drain(s)
    BY <1>4 DEF dumpResponse
  <2>2. c.debug /\ (length >= 0 \/ c.maxDumpSize <= 0) /\ dumpResponseBody(c, length)
    BY <1>4 DEF dumpResponse
  <2>3. c.maxDumpSize > 0 => s.n <= c.maxDumpSize
    BY <1>1, <2>2 DEF dumpResponseBody, ResponseLengths, Unknown
  <2> QED
    BY <1>1, <2>1, <2>3, Drains
<1> QED
  BY <1>2, <1>3, <1>4

LEMMA Identifiers ==
  ASSUME NEW ctxID, NEW given
  PROVE  LET p == propagateTraceID(ctxID, given)
         IN  /\ Valid(p.sent) /\ p.reqID = p.sent
             /\ p.sent = IF Valid(p.ctxID) THEN p.ctxID ELSE IF Valid(p.header) THEN p.header ELSE "new"
<1> DEFINE id == IF Valid(ctxID) THEN ctxID ELSE IF Valid(given) THEN given ELSE "new"
<1>1. SetHTTPRequestHeaderFromContext(ctxID, "none") = IF Valid(ctxID) THEN ctxID ELSE "none"
  BY DEF SetHTTPRequestHeaderFromContext, FromContext, Valid
<1>2. FromHTTPRequestHeader(given, "none") = IF Valid(given) THEN given ELSE "none"
  BY DEF FromHTTPRequestHeader
<1>3. Valid(id) /\ id # "none"
  BY DEF Valid
<1>4. propagateTraceID(ctxID, given) = [sent |-> id, ctxID |-> ctxID, header |-> given, reqID |-> ForceContext(ctxID, id)]
  BY <1>1, <1>2 DEF propagateTraceID, Valid
<1>5. ForceContext(ctxID, id) = id
  BY <1>3 DEF ForceContext
<1> HIDE DEF id
<1>6. LET p == propagateTraceID(ctxID, given) IN p.sent = id /\ p.reqID = id /\ p.ctxID = ctxID /\ p.header = given
  BY <1>4, <1>5
<1> QED
  BY <1>3, <1>6 DEF id

LEMMA ExStarts == ASSUME ExchangeAssumption, ExInit PROVE ExInv
<1>1. PICK c \in HTTPClients : ExIdle(c)
  BY DEF ExInit
<1>2. NoBody \in BodyType /\ NoBody.buf = <<>> /\ NoBody.pos = 1 /\ NoBody.n = 0 /\ Len(<<>>) = 0 /\ <<>> \in Seq(Nat)
  BY DEF NoBody, BodyType
<1>3. ExTypeOK
  <2>1. settings \in HTTPClientType
    BY <1>1, ExchangeAssumption DEF ExIdle, ExchangeAssumption
  <2>2. resp = NoBody /\ bodyRead = <<>> /\ eof = FALSE /\ failed = FALSE /\ peeked = 0 /\ dumped = 0
        /\ stated = -1 /\ buffered = 0
    BY <1>1 DEF ExIdle, Unknown
  <2>4. stated \in Int /\ buffered \in Nat
    BY <2>2
  <2>3. resp \in BodyType /\ resp.pos <= resp.n + 1 /\ bodyRead \in Seq(Nat)
    BY <1>2, <2>2
  <2> QED
    BY <2>1, <2>2, <2>3, <2>4 DEF ExTypeOK
<1>4. ReadInv
  BY <1>1, <1>2 DEF ExIdle, ReadInv, InStep
<1>5. CtxInv /\ IDInv
  BY <1>1 DEF ExIdle, CtxInv, IDInv
<1>6. Intact(outgoing)
  BY <1>1, <1>2, NoBytes DEF ExIdle, Intact
<1>7. settings \in HTTPClientType /\ peeked = 0 /\ dumped = 0 /\ buffered = 0
  BY <1>1, ExchangeAssumption DEF ExIdle, ExchangeAssumption
<1>8. DumpInv
  BY <1>6, <1>7 DEF DumpInv, HTTPClientType
<1> QED
  BY <1>3, <1>4, <1>5, <1>8 DEF ExInv

\* Steps that leave the bodies alone.
LEMMA BodiesKept ==
  ASSUME ExTypeOK, ReadInv, UNCHANGED <<settings, resp, bodyRead, eof, failed>>,
         peeked' \in Nat, dumped' \in Nat, stated' \in Int, buffered' \in Nat,
         reqctx # "live" => reqctx' # "live", expc' \in {"idle", "sent"} => expc \in {"idle", "sent"}
  PROVE  ExTypeOK' /\ ReadInv'
<1>1. ExTypeOK'
  BY DEF ExTypeOK
<1>2. InStep' = InStep
  BY DEF InStep
<1>3. Drained(resp)' = Drained(resp) /\ Breaks(resp)' = Breaks(resp)
  BY DEF Drained, Breaks
<1>4. ReadInv'
  BY <1>2, <1>3 DEF ReadInv
<1> QED
  BY <1>1, <1>4

LEMMA DoSteps == ASSUME ExchangeAssumption, ExInv, Do PROVE ExInv'
<1>1. PICK ctxID \in TraceIDs, given \in TraceIDs, stream \in Streams : \E length \in RequestLengths(stream) :
        LET dump == IF settings.debug THEN dumpRequest(settings, stream, length) ELSE NotRead(stream)
        IN  /\ expc = "idle"
            /\ expc' = "sent" /\ ids' = propagateTraceID(ctxID, given)
            /\ outgoing' = dump.s /\ stated' = length /\ buffered' = dump.held
            /\ UNCHANGED <<settings, reqctx, parent, resp, bodyRead, eof, failed, peeked, dumped, entry, exresult>>
  BY Zenon DEF Do
<1>a. PICK length \in RequestLengths(stream) :
        LET dump == IF settings.debug THEN dumpRequest(settings, stream, length) ELSE NotRead(stream)
        IN  /\ expc = "idle"
            /\ expc' = "sent" /\ ids' = propagateTraceID(ctxID, given)
            /\ outgoing' = dump.s /\ stated' = length /\ buffered' = dump.held
            /\ UNCHANGED <<settings, reqctx, parent, resp, bodyRead, eof, failed, peeked, dumped, entry, exresult>>
  BY <1>1, Zenon
<1> DEFINE dump == IF settings.debug THEN dumpRequest(settings, stream, length) ELSE NotRead(stream)
<1>2. expc = "idle" /\ expc' = "sent" /\ ids' = propagateTraceID(ctxID, given) /\ outgoing' = dump.s
      /\ stated' = length /\ buffered' = dump.held
      /\ UNCHANGED <<settings, reqctx, parent, resp, bodyRead, eof, failed, peeked, dumped, entry, exresult>>
  BY <1>a, Zenon
<1>3. /\ Fresh(dump.s) \/ Drained(dump.s)
      /\ dump.held \in Nat /\ (settings.maxDumpSize > 0 /\ length # 0 => dump.held <= settings.maxDumpSize)
      /\ length \in Int
  BY RequestDump DEF ExInv, ExTypeOK
<1> HIDE DEF dump
<1>4. ExTypeOK' /\ ReadInv'
  BY <1>2, <1>3, BodiesKept DEF ExInv, ExTypeOK
<1>5. CtxInv'
  BY <1>2 DEF ExInv, CtxInv
<1>6. DumpInv'
  BY <1>2, <1>3 DEF ExInv, DumpInv, Fresh, Drained, Intact, Breaks
<1>7. IDInv'
  BY <1>2, Identifiers DEF IDInv
<1> QED
  BY <1>4, <1>5, <1>6, <1>7 DEF ExInv

LEMMA RoundTripSteps == ASSUME ExchangeAssumption, ExInv, RoundTrip PROVE ExInv'
<1>a. PICK stream \in Streams, broken \in BOOLEAN : \E length \in ResponseLengths(stream) :
        LET dump == IF settings.debug THEN dumpResponse(settings, stream, length) ELSE NotRead(stream)
        IN  /\ expc = "sent" /\ reqctx = "live"
            /\ resp' = dump.s /\ peeked' = dump.held /\ dumped' = dump.dumped
            /\ Returns(IF broken THEN "both" ELSE "ok")
            /\ UNCHANGED <<settings, parent, ids, outgoing, stated, buffered, bodyRead, eof, failed>>
  BY Zenon DEF RoundTrip
<1>1. PICK length \in ResponseLengths(stream) :
        LET dump == IF settings.debug THEN dumpResponse(settings, stream, length) ELSE NotRead(stream)
        IN  /\ expc = "sent" /\ reqctx = "live"
            /\ resp' = dump.s /\ peeked' = dump.held /\ dumped' = dump.dumped
            /\ Returns(IF broken THEN "both" ELSE "ok")
            /\ UNCHANGED <<settings, parent, ids, outgoing, stated, buffered, bodyRead, eof, failed>>
  BY <1>a, Zenon
<1> DEFINE dump == IF settings.debug THEN dumpResponse(settings, stream, length) ELSE NotRead(stream)
           result == IF broken THEN "both" ELSE "ok"
<1>2. /\ expc = "sent" /\ reqctx = "live"
      /\ resp' = dump.s /\ peeked' = dump.held /\ dumped' = dump.dumped /\ Returns(result)
      /\ UNCHANGED <<settings, parent, ids, outgoing, stated, buffered, bodyRead, eof, failed>>
  BY <1>1, Zenon
<1>3. /\ Fresh(dump.s) \/ Drained(dump.s)
      /\ dump.held \in Nat /\ dump.dumped \in Nat
      /\ settings.maxDumpSize > 0 => dump.held <= settings.maxDumpSize + 1 /\ dump.dumped <= settings.maxDumpSize
  BY ResponseDump DEF ExInv, ExTypeOK
<1>4. result \in {"both", "ok"} /\ expc' = "returned" /\ exresult' = result
      /\ reqctx' = IF result = "ok" THEN "live" ELSE "cancelled"
  BY <1>2 DEF Returns
<1> HIDE DEF dump, result
<1>5. Fresh(resp') \/ Drained(resp')
  BY <1>2, <1>3
<1>6. resp' \in BodyType /\ resp'.pos <= resp'.n + 1
  BY <1>5 DEF Fresh, Drained, Breaks, BodyType
<1>7. ExTypeOK'
  BY <1>2, <1>3, <1>6 DEF ExInv, ExTypeOK
<1>8. bodyRead' = <<>> /\ Len(<<>>) = 0 /\ eof' = FALSE /\ failed' = FALSE
  BY <1>2 DEF ExInv, ReadInv
<1>9. Fresh(resp') => InStep'
  <2> SUFFICES ASSUME Fresh(resp') PROVE InStep'
    OBVIOUS
  <2>1. Len(resp'.buf) \in Nat /\ resp'.buf = Bytes(Len(resp'.buf)) /\ resp'.pos = Len(resp'.buf) + 1
    BY <1>6, LenProperties DEF Fresh, Intact, BodyType
  <2>2. \A i \in 1..Len(resp'.buf) : resp'.buf[i] = i
    BY <2>1, BytesInOrder
  <2> QED
    BY <1>8, <2>1, <2>2 DEF InStep
<1>10. ReadInv'
  BY <1>4, <1>5, <1>8, <1>9 DEF ReadInv
<1>11. CtxInv'
  BY <1>4 DEF CtxInv
<1>12. DumpInv'
  BY <1>2, <1>3 DEF ExInv, DumpInv, Intact, Breaks
<1>13. IDInv'
  BY <1>2, <1>4 DEF ExInv, IDInv, CtxInv
<1> QED
  BY <1>7, <1>10, <1>11, <1>12, <1>13 DEF ExInv

\* Reading what is buffered, and then from the connection, keeps the order.
LEMMA ReadBufferedSteps == ASSUME ExInv, ReadBuffered PROVE ExInv'
<1>1. expc = "returned" /\ exresult = "ok" /\ eof = FALSE /\ failed = FALSE /\ resp.buf # <<>>
  BY DEF ReadBuffered, ReadsFrom, ExInv, ExTypeOK
<1>2. /\ bodyRead' = Append(bodyRead, Head(resp.buf)) /\ resp' = Rest(resp, Tail(resp.buf), resp.pos)
      /\ UNCHANGED <<settings, expc, reqctx, parent, ids, outgoing, stated, buffered, peeked, dumped, entry, exresult, eof, failed>>
  BY DEF ReadBuffered, ReadsFrom
<1>3. resp \in BodyType /\ bodyRead \in Seq(Nat) /\ resp.buf \in Seq(Nat) /\ InStep /\ resp.pos <= resp.n + 1
  BY <1>1 DEF ExInv, ExTypeOK, ReadInv, Drained, BodyType
<1>4. /\ Head(resp.buf) \in Nat /\ Tail(resp.buf) \in Seq(Nat) /\ Len(resp.buf) \in Nat \ {0} /\ Len(bodyRead) \in Nat
      /\ Len(Tail(resp.buf)) = Len(resp.buf) - 1
      /\ \A i \in 1..Len(Tail(resp.buf)) : Tail(resp.buf)[i] = resp.buf[i + 1]
      /\ Head(resp.buf) = resp.buf[1]
  BY <1>1, <1>3
<1>5. Head(resp.buf) = Len(bodyRead) + 1
  BY <1>3, <1>4 DEF InStep
<1>6. /\ bodyRead' \in Seq(Nat) /\ Len(bodyRead') = Len(bodyRead) + 1
      /\ \A i \in 1..Len(bodyRead) : bodyRead'[i] = bodyRead[i]
      /\ bodyRead'[Len(bodyRead) + 1] = Head(resp.buf)
  BY <1>2, <1>3, <1>4
<1>7. \A i \in 1..Len(bodyRead) : bodyRead[i] = i
  BY DEF ExInv, ReadInv
<1>8. \A i \in 1..Len(bodyRead') : bodyRead'[i] = i
  BY <1>4, <1>5, <1>6, <1>7, SMTT(40)
<1>9. resp' \in BodyType /\ resp'.buf = Tail(resp.buf) /\ resp'.pos = resp.pos /\ resp'.n = resp.n
  <2>1. resp.pos \in Nat \ {0}
    BY <1>3 DEF BodyType
  <2> DEFINE b == Tail(resp.buf)
  <2>2. b \in Seq(Nat) /\ resp' = Rest(resp, b, resp.pos)
    BY <1>2, <1>4
  <2> HIDE DEF b
  <2>3. resp' \in BodyType /\ resp'.buf = b /\ resp'.pos = resp.pos /\ resp'.n = resp.n
    BY <1>3, <2>1, <2>2, Rewound, SMTT(40)
  <2> QED
    BY <2>3 DEF b
<1>10. \A i \in 1..Len(resp'.buf) : resp'.buf[i] = Len(bodyRead') + i
  BY <1>3, <1>4, <1>6, <1>9 DEF InStep
<1>11. Len(bodyRead') + Len(resp'.buf) + 1 = resp'.pos
  <2> DEFINE a == Len(bodyRead)
             b == Len(resp.buf)
             p == resp.pos
  <2>1. a \in Nat /\ b \in Nat /\ a + b + 1 = p
    BY <1>3, <1>4 DEF InStep
  <2>2. Len(resp'.buf) = b - 1 /\ resp'.pos = p
    BY <1>4, <1>9
  <2>3. Len(bodyRead') = a + 1
    BY <1>6
  <2> HIDE DEF a, b, p
  <2>4. (a + 1) + (b - 1) + 1 = p
    BY <2>1
  <2> QED
    BY <2>2, <2>3, <2>4, Zenon
<1>12. ReadInv'
  BY <1>1, <1>2, <1>8, <1>10, <1>11 DEF ReadInv, InStep
<1>13. ExTypeOK'
  BY <1>2, <1>3, <1>6, <1>9 DEF ExInv, ExTypeOK
<1>14. CtxInv' /\ DumpInv' /\ IDInv'
  BY <1>2 DEF ExInv, CtxInv, DumpInv, IDInv, Intact, Breaks
<1> QED
  BY <1>12, <1>13, <1>14 DEF ExInv

LEMMA ReadByteSteps == ASSUME ExInv, ReadByte PROVE ExInv'
<1>1. expc = "returned" /\ exresult = "ok" /\ eof = FALSE /\ failed = FALSE /\ resp.buf = <<>>
  BY DEF ReadByte, ReadsFrom, ExInv, ExTypeOK
<1>2. /\ bodyRead' = Append(bodyRead, resp.pos) /\ resp' = Rest(resp, <<>>, resp.pos + 1)
      /\ resp.pos <= resp.n /\ reqctx = "live" /\ resp.pos # resp.failAt
      /\ UNCHANGED <<settings, expc, reqctx, parent, ids, outgoing, stated, buffered, peeked, dumped, entry, exresult, eof, failed>>
  BY DEF ReadByte, ReadsFrom
<1>3. resp \in BodyType /\ bodyRead \in Seq(Nat) /\ Len(<<>>) = 0
  BY DEF ExInv, ExTypeOK
<1>4. InStep
  BY <1>2 DEF ExInv, ReadInv, Drained
<1>5. Len(bodyRead) \in Nat /\ resp.pos = Len(bodyRead) + 1 /\ resp.pos \in Nat /\ resp.n \in Nat
  BY <1>1, <1>3, <1>4 DEF InStep, BodyType
<1>6. /\ bodyRead' \in Seq(Nat) /\ Len(bodyRead') = Len(bodyRead) + 1
      /\ \A i \in 1..Len(bodyRead) : bodyRead'[i] = bodyRead[i]
      /\ bodyRead'[Len(bodyRead) + 1] = resp.pos
  BY <1>2, <1>3, <1>5
<1>7. \A i \in 1..Len(bodyRead) : bodyRead[i] = i
  BY DEF ExInv, ReadInv
<1>8. \A i \in 1..Len(bodyRead') : bodyRead'[i] = i
  BY <1>5, <1>6, <1>7
<1>9. resp' \in BodyType /\ resp'.buf = <<>> /\ resp'.pos = resp.pos + 1 /\ resp'.n = resp.n
  <2>1. resp.buf \in Seq(Nat) /\ resp.pos + 1 \in Nat \ {0}
    BY <1>3 DEF BodyType
  <2> QED
    BY <1>1, <1>2, <1>3, <2>1, Rewound, ZenonT(40)
<1>10. InStep'
  BY <1>3, <1>5, <1>6, <1>9 DEF InStep
<1>11. ReadInv'
  BY <1>1, <1>2, <1>8, <1>10 DEF ReadInv
<1>12. ExTypeOK'
  BY <1>2, <1>5, <1>6, <1>9 DEF ExInv, ExTypeOK
<1>13. CtxInv' /\ DumpInv' /\ IDInv'
  BY <1>2 DEF ExInv, CtxInv, DumpInv, IDInv, Intact, Breaks
<1> QED
  BY <1>11, <1>12, <1>13 DEF ExInv

\* The end of a body is only met once all of it is read.
LEMMA ReadEndsSteps == ASSUME ExInv, ReadEnds PROVE ExInv'
<1>1. expc = "returned" /\ exresult = "ok" /\ eof = FALSE /\ failed = FALSE /\ resp.buf = <<>>
  BY DEF ReadEnds, ReadsFrom, ExInv, ExTypeOK
<1>2. /\ eof' = (resp.pos > resp.n) /\ failed' = (resp.pos <= resp.n)
      /\ resp.pos > resp.n \/ reqctx # "live" \/ resp.pos = resp.failAt
  BY DEF ReadEnds
<1>3. UNCHANGED <<settings, expc, reqctx, parent, ids, outgoing, stated, buffered, peeked, dumped, entry, exresult, bodyRead, resp>>
  BY DEF ReadEnds, ReadsFrom
<1>4. resp \in BodyType /\ bodyRead \in Seq(Nat) /\ Len(<<>>) = 0 /\ resp.pos <= resp.n + 1
  BY DEF ExInv, ExTypeOK
<1>5. Len(bodyRead) \in Nat /\ resp.pos \in Nat \ {0} /\ resp.n \in Nat /\ resp.failAt \in Nat
  BY <1>4 DEF BodyType
<1>6. resp.pos > resp.n => Len(bodyRead) = resp.n
  BY <1>1, <1>4, <1>5 DEF ExInv, ReadInv, InStep, Drained, Breaks
<1>7. resp.pos <= resp.n => Breaks(resp) \/ reqctx # "live"
  BY <1>2, <1>5 DEF Breaks
<1>8. InStep' = InStep /\ Drained(resp)' = Drained(resp) /\ Breaks(resp)' = Breaks(resp)
  BY <1>3 DEF InStep, Drained, Breaks
<1>9. /\ eof' = TRUE => Len(bodyRead') = resp'.n
      /\ failed' = TRUE => Breaks(resp)' \/ reqctx' # "live"
  BY <1>2, <1>3, <1>6, <1>7, <1>8
<1>10. ReadInv'
  BY <1>1, <1>3, <1>8, <1>9 DEF ExInv, ReadInv
<1>11. eof' \in BOOLEAN /\ failed' \in BOOLEAN
  BY <1>2
<1>12. ExTypeOK'
  BY <1>3, <1>11 DEF ExInv, ExTypeOK
<1>13. CtxInv' /\ DumpInv' /\ IDInv'
  BY <1>3 DEF ExInv, CtxInv, DumpInv, IDInv, Intact, Breaks
<1> QED
  BY <1>10, <1>12, <1>13 DEF ExInv

LEMMA ContextSteps == ASSUME ExInv, DoRefused \/ RoundTripFails \/ DeadlineExpires \/ CancelParent \/ CloseBody PROVE ExInv'
<1>1. UNCHANGED <<settings, ids, outgoing, resp, bodyRead, eof, failed, stated, buffered, peeked, dumped>>
  BY DEF DoRefused, RoundTripFails, DeadlineExpires, CancelParent, CloseBody
<1>2. reqctx # "live" => reqctx' # "live"
  BY DEF DoRefused, RoundTripFails, DeadlineExpires, CancelParent, CloseBody, Returns
<1>3. expc' \in {"idle", "sent"} => expc \in {"idle", "sent"}
  BY DEF DoRefused, RoundTripFails, DeadlineExpires, CancelParent, CloseBody, Returns
<1>4. peeked' \in Nat /\ dumped' \in Nat /\ stated' \in Int /\ buffered' \in Nat
  BY <1>1 DEF ExInv, ExTypeOK
<1>5. ExTypeOK' /\ ReadInv'
  BY <1>1, <1>2, <1>3, <1>4, BodiesKept DEF ExInv
<1>6. DumpInv'
  BY <1>1 DEF ExInv, DumpInv, Intact, Breaks
<1>7. CtxInv' /\ IDInv'
  <2>1. CASE DoRefused
    BY <2>1 DEF DoRefused, CtxInv, IDInv
  <2>2. CASE RoundTripFails
    BY <2>2 DEF RoundTripFails, Returns, ExInv, CtxInv, IDInv
  <2>3. CASE DeadlineExpires
    BY <2>3 DEF DeadlineExpires, ExInv, CtxInv, IDInv
  <2>4. CASE CancelParent
    BY <2>4 DEF CancelParent, ExInv, CtxInv, IDInv
  <2>5. CASE CloseBody
    BY <2>5 DEF CloseBody, ExInv, CtxInv, IDInv
  <2> QED
    BY <2>1, <2>2, <2>3, <2>4, <2>5
<1> QED
  BY <1>5, <1>6, <1>7 DEF ExInv

LEMMA ExImplies == ASSUME ExInv PROVE ExchangeIsFaithful
<1>1. bodyRead = Bytes(Len(bodyRead))
  BY SameBytes DEF ExInv, ExTypeOK, ReadInv
<1>2. eof => Len(bodyRead) = resp.n
  BY DEF ExInv, ExTypeOK, ReadInv
<1>3. failed => Breaks(resp) \/ reqctx # "live"
  BY DEF ExInv, ExTypeOK, ReadInv
<1> QED
  BY <1>1, <1>2, <1>3 DEF ExInv, CtxInv, DumpInv, IDInv, ExchangeIsFaithful

\* Every exchange of pkg/httpclient is faithful: the caller reads what the server sent, whole and in
\* order, whatever dumpRequest and dumpResponse took from the bodies first; Do's context lives as long
\* as the body that owns it; a dump keeps to its cap, unless a request with a body states the length 0;
\* and the identifier propagateTraceID sends is
\* valid and the one the context carries, for any bodies, caps, clients and identifiers.
THEOREM ExchangesAreFaithful == ExSpec => []ExchangeIsFaithful
<1>1. ExInit => ExInv
  BY ExStarts, ExchangeAssumption
<1>2. ExInv /\ [ExNext]_exVars => ExInv'
  <2> SUFFICES ASSUME ExInv, [ExNext]_exVars PROVE ExInv'
    OBVIOUS
  <2>1. CASE Do
    BY <2>1, DoSteps, ExchangeAssumption
  <2>2. CASE RoundTrip
    BY <2>2, RoundTripSteps, ExchangeAssumption
  <2>3. CASE ReadBuffered
    BY <2>3, ReadBufferedSteps
  <2>4. CASE ReadByte
    BY <2>4, ReadByteSteps
  <2>5. CASE ReadEnds
    BY <2>5, ReadEndsSteps
  <2>6. CASE DoRefused \/ RoundTripFails \/ DeadlineExpires \/ CancelParent \/ CloseBody
    BY <2>6, ContextSteps
  <2>7. CASE UNCHANGED exVars
    <3>1. ExTypeOK' /\ ReadInv'
      BY <2>7, BodiesKept DEF exVars, ExInv, ExTypeOK
    <3>2. CtxInv' /\ DumpInv' /\ IDInv'
      BY <2>7 DEF exVars, ExInv, CtxInv, DumpInv, IDInv, Intact, Breaks
    <3> QED
      BY <3>1, <3>2 DEF ExInv
  <2> QED
    BY <2>1, <2>2, <2>3, <2>4, <2>5, <2>6, <2>7 DEF ExNext
<1>3. ExInv => ExchangeIsFaithful
  BY ExImplies
<1> QED
  BY <1>1, <1>2, <1>3, PTL DEF ExSpec

-----------------------------------------------------------------------------
(* RequestPath: the inductive invariant *)

WriterType == [written : BOOLEAN, size : Nat, status : Nat, tee : Nat, sent : Nat, bytes : Nat]
BufferType == [status : Nat, size : Nat]
NoBuffer == [status |-> 0, size |-> 0]

\* The wrapper has seen what the connection sent, and nothing goes out before a status.
Agrees(w) ==
  /\ w.status = w.sent /\ w.size = w.bytes /\ (w.written <=> w.status # 0)
  /\ srv.tee => w.tee = w.bytes
  /\ w.sent = 0 => w.bytes = 0

Capped(wrapped) == srv.maxBody > 0 => "maxbody" \in wrapped

\* The table has one handler for a method and a path, and nothing is served before all are bound.
RouteInv ==
  /\ srv \in ServerType /\ looked \in Nat /\ bound \in Nat /\ routes \in Seq(RouteType)
  /\ \A t \in routing : Capped(t.chain)
  /\ \A t, u \in routing : t.method = u.method /\ t.path = u.path => t = u
  /\ phase \in {"defaults", "bind", "serving", "failed"}
  /\ phase # "failed" => loadErr = "none"
  /\ stage # "idle" => phase = "serving"

\* A handler of the package's own, which writes nothing but its reply.
Helper == Replies(handler) # {} \/ handler = "proxy"

ReplyInv ==
  /\ replied \in {0} \cup 200..599
  /\ stage = "handling" /\ replied # 0 => Helper
  /\ stage = "handling" /\ Helper /\ replied = 0 => out = NoWriter /\ buffer = NoBuffer
  /\ stage = "handling" /\ replied \notin {0, ClientClosedRequest} => IF Has("timeout") THEN buffer.status = replied ELSE out.sent = replied

\* The wrapper and the connection agree as long as the handler runs, and what the timeout holds back has not gone out.
OutInv ==
  /\ out \in WriterType /\ buffer \in BufferType
  /\ late \in BOOLEAN /\ cut \in BOOLEAN /\ sentBefore \in Nat
  /\ stage \in {"idle", "handling", "done", "aborted"}
  /\ stage # "done" => Agrees(out) /\ late = FALSE /\ cut = FALSE /\ sentBefore = 0 /\ logged = <<>>
  /\ stage = "idle" => out = NoWriter /\ buffer = NoBuffer /\ replied = 0 /\ taken = 0
  /\ stage = "handling" /\ Has("timeout") => out = NoWriter

\* What a response that ended leaves.
DoneInv ==
  stage = "done" =>
    /\ Len(logged) = IF Has("logger") THEN 1 ELSE 0
    /\ logged = Entries(chain, [status |-> out.sent, size |-> out.bytes]) \/ sentBefore # 0
    /\ cut /\ sentBefore = 0 => out.sent = 500
    /\ late => out.sent = 503 /\ out.bytes = 1
    /\ srv.tee /\ ~cut => out.tee = out.bytes
    /\ ~late /\ ~cut /\ replied \notin {0, ClientClosedRequest} => out.sent = replied

CapInv ==
  /\ body \in Nat /\ taken \in Int
  /\ stage # "idle" => Capped(chain)
  /\ srv.maxBody > 0 => taken <= srv.maxBody

PathInv == RouteInv /\ ReplyInv /\ OutInv /\ DoneInv /\ CapInv

-----------------------------------------------------------------------------
(* The response writer *)

LEMMA SentOnce ==
  ASSUME NEW w \in WriterType, NEW code \in Nat \ {0}
  PROVE  /\ Sends(w, code) \in WriterType
         /\ w.sent # 0 \/ Informational(code) => Sends(w, code) = w
         /\ w.sent = 0 /\ ~Informational(code) => Sends(w, code).sent = code
         /\ Sends(w, code).bytes = w.bytes /\ Sends(w, code).size = w.size /\ Sends(w, code).tee = w.tee
         /\ Sends(w, code).status = w.status /\ Sends(w, code).written = w.written
BY DEF Sends, WriterType

LEMMA HeaderType ==
  ASSUME NEW w \in WriterType, NEW code \in Nat \ {0}
  PROVE  /\ WriteHeader(w, code) \in WriterType
         /\ WriteHeader(w, code).bytes = w.bytes /\ WriteHeader(w, code).size = w.size /\ WriteHeader(w, code).tee = w.tee
         /\ w.sent # 0 => WriteHeader(w, code).sent = w.sent
         /\ w.sent = 0 /\ w.written = FALSE /\ ~Informational(code) => WriteHeader(w, code).sent = code
<1>1. CASE w.written
  BY <1>1 DEF WriteHeader
<1>2. CASE ~w.written /\ Informational(code)
  <2>1. WriteHeader(w, code) = w
    BY <1>2, SentOnce DEF WriteHeader
  <2> QED BY <1>2, <2>1
<1>3. CASE ~w.written /\ ~Informational(code)
  <2> DEFINE v == [w EXCEPT !.status = code, !.written = TRUE]
  <2>1. v \in WriterType /\ v.bytes = w.bytes /\ v.size = w.size /\ v.tee = w.tee /\ v.sent = w.sent
    BY DEF WriterType
  <2>2. WriteHeader(w, code) = Sends(v, code)
    BY <1>3 DEF WriteHeader
  <2> HIDE DEF v
  <2> QED BY <1>3, <2>1, <2>2, SentOnce
<1> QED BY <1>1, <1>2, <1>3

\* A header that is written keeps the two sides agreed.
LEMMA HeaderAgrees ==
  ASSUME NEW w \in WriterType, NEW code \in Nat \ {0}, Agrees(w)
  PROVE  /\ Agrees(WriteHeader(w, code))
         /\ w.sent # 0 => WriteHeader(w, code) = w
         /\ ~Informational(code) => WriteHeader(w, code).sent # 0
<1>0. w.written \in BOOLEAN /\ w.status \in Nat /\ w.sent \in Nat
  BY DEF WriterType
<1>1. CASE w.written
  BY <1>0, <1>1 DEF WriteHeader, Agrees
<1>2. CASE ~w.written /\ Informational(code)
  <2>1. WriteHeader(w, code) = w
    BY <1>2, SentOnce DEF WriteHeader
  <2> QED BY <1>2, <2>1
<1>3. CASE ~w.written /\ ~Informational(code)
  <2> DEFINE v == [w EXCEPT !.status = code, !.written = TRUE]
  <2>1. v \in WriterType /\ v.bytes = w.bytes /\ v.size = w.size /\ v.tee = w.tee /\ v.sent = w.sent /\ v.status = code /\ v.written = TRUE
    BY DEF WriterType
  <2>2. WriteHeader(w, code) = Sends(v, code)
    BY <1>3 DEF WriteHeader
  <2>3. w.sent = 0
    BY <1>0, <1>3 DEF Agrees
  <2> HIDE DEF v
  <2> DEFINE u == Sends(v, code)
  <2>4. u.sent = code /\ u.bytes = w.bytes /\ u.size = w.size /\ u.tee = w.tee /\ u.status = code /\ u.written = TRUE
    BY <1>3, <2>1, <2>3, SentOnce
  <2> HIDE DEF u
  <2>5. Agrees(u)
    BY <2>3, <2>4 DEF Agrees
  <2> QED BY <2>2, <2>3, <2>4, <2>5 DEF u
<1> QED BY <1>1, <1>2, <1>3

LEMMA Implicit ==
  ASSUME NEW w \in WriterType
  PROVE  /\ maybeWriteHeader(w) \in WriterType
         /\ maybeWriteHeader(w).bytes = w.bytes /\ maybeWriteHeader(w).size = w.size /\ maybeWriteHeader(w).tee = w.tee
         /\ w.sent # 0 => maybeWriteHeader(w).sent = w.sent
         /\ Agrees(w) => Agrees(maybeWriteHeader(w)) /\ maybeWriteHeader(w).sent # 0
<1>0. 200 \in Nat \ {0} /\ ~Informational(200)
  BY DEF Informational
<1>1. CASE w.written
  <2>1. Agrees(w) => w.sent # 0
    BY <1>1 DEF Agrees
  <2> QED BY <1>1, <2>1 DEF maybeWriteHeader
<1>2. CASE ~w.written
  <2>1. maybeWriteHeader(w) = WriteHeader(w, 200)
    BY <1>2 DEF maybeWriteHeader
  <2> DEFINE m == WriteHeader(w, 200)
  <2>2. m \in WriterType /\ m.bytes = w.bytes /\ m.size = w.size /\ m.tee = w.tee /\ (w.sent # 0 => m.sent = w.sent)
    BY <1>0, HeaderType, ZenonT(40)
  <2>3. Agrees(w) => Agrees(m) /\ m.sent # 0
    BY <1>0, HeaderAgrees
  <2> HIDE DEF m
  <2> QED BY <2>1, <2>2, <2>3 DEF m
<1> QED BY <1>1, <1>2

LEMMA BytesAgree ==
  ASSUME NEW w \in WriterType, NEW n \in Nat
  PROVE  /\ SendsBytes(w, n) \in WriterType
         /\ SendsBytes(w, n).bytes = w.bytes + n /\ SendsBytes(w, n).size = w.size + n /\ SendsBytes(w, n).tee = w.tee
         /\ SendsBytes(w, n).status = w.status /\ SendsBytes(w, n).written = w.written
         /\ w.sent # 0 => SendsBytes(w, n).sent = w.sent
<1> DEFINE v == Sends(w, 200)
<1>1. v \in WriterType /\ v.bytes = w.bytes /\ v.size = w.size /\ v.tee = w.tee /\ v.status = w.status /\ v.written = w.written
      /\ (w.sent # 0 => v.sent = w.sent)
  BY SentOnce
<1> DEFINE r == SendsBytes(w, n)
<1>2. r = [v EXCEPT !.bytes = v.bytes + n, !.size = v.size + n]
  BY <1>1 DEF SendsBytes, WriterType
<1> HIDE DEF v, r
<1>3. v.bytes + n \in Nat /\ v.size + n \in Nat
  BY <1>1 DEF WriterType
<1>4. r \in WriterType /\ r.bytes = v.bytes + n /\ r.size = v.size + n /\ r.tee = v.tee /\ r.status = v.status /\ r.written = v.written
      /\ r.sent = v.sent
  BY <1>1, <1>2, <1>3 DEF WriterType
<1>5. r \in WriterType /\ r.bytes = w.bytes + n /\ r.size = w.size + n /\ r.tee = w.tee /\ r.status = w.status /\ r.written = w.written
      /\ (w.sent # 0 => r.sent = w.sent)
  BY <1>1, <1>4
<1> QED BY <1>5 DEF r

LEMMA Writes ==
  ASSUME NEW w \in WriterType, NEW n \in Nat, srv \in ServerType
  PROVE  /\ Write(w, n) \in WriterType /\ Write(w, n).bytes = w.bytes + n
         /\ w.sent # 0 => Write(w, n).sent = w.sent
         /\ Agrees(w) => Agrees(Write(w, n)) /\ Write(w, n).sent # 0
<1> DEFINE m == maybeWriteHeader(w)
<1>1. m \in WriterType /\ m.bytes = w.bytes /\ (w.sent # 0 => m.sent = w.sent) /\ (Agrees(w) => Agrees(m) /\ m.sent # 0)
  BY Implicit
<1> HIDE DEF m
<1> DEFINE b == SendsBytes(m, n)
<1>2. /\ b \in WriterType /\ b.bytes = w.bytes + n /\ b.size = m.size + n /\ b.tee = m.tee /\ b.status = m.status /\ b.written = m.written
      /\ (m.sent # 0 => b.sent = m.sent)
  BY <1>1, BytesAgree
<1>3. Write(w, n) = IF srv.tee THEN [b EXCEPT !.tee = @ + n] ELSE b
  BY DEF Write, m
<1> HIDE DEF b
<1>t. srv.tee \in BOOLEAN
  BY DEF ServerType
<1> DEFINE r == Write(w, n)
<1>4. r \in WriterType /\ r.bytes = b.bytes /\ r.size = b.size /\ r.status = b.status /\ r.written = b.written /\ r.sent = b.sent
      /\ r.tee = IF srv.tee THEN b.tee + n ELSE b.tee
  <2>1. CASE srv.tee
    BY <1>2, <1>3, <2>1 DEF WriterType
  <2>2. CASE ~srv.tee
    BY <1>2, <1>3, <2>2
  <2> QED BY <2>1, <2>2
<1> HIDE DEF r
<1>5. ASSUME Agrees(w) PROVE Agrees(r) /\ r.sent # 0
  <2>1. m.size = m.bytes /\ m.status = m.sent /\ m.sent # 0 /\ (m.written <=> m.status # 0) /\ (srv.tee => m.tee = m.bytes)
    BY <1>1, <1>5 DEF Agrees
  <2>2. m.bytes \in Nat /\ m.tee \in Nat
    BY <1>1 DEF WriterType
  <2>3. r.status = r.sent /\ r.sent # 0 /\ (r.written <=> r.status # 0)
    BY <1>2, <1>4, <2>1
  <2>4. r.size = r.bytes /\ (srv.tee => r.tee = r.bytes)
    BY <1>1, <1>2, <1>4, <2>1, <2>2
  <2> QED BY <2>3, <2>4 DEF Agrees
<1>6. w.sent # 0 => r.sent = w.sent
  BY <1>1, <1>2, <1>4
<1> QED BY <1>2, <1>4, <1>5, <1>6 DEF r

LEMMA Copies ==
  ASSUME NEW w \in WriterType, NEW n \in Nat, srv \in ServerType, Agrees(w)
  PROVE  ReadFrom(w, n) \in WriterType /\ Agrees(ReadFrom(w, n))
<1>1. CASE srv.tee
  <2>1. ReadFrom(w, n) = Write(w, n)
    BY <1>1 DEF ReadFrom
  <2> QED BY <2>1, Writes
<1>2. CASE ~srv.tee
  <2>1. ReadFrom(w, n) = Write(w, n)
    BY <1>2 DEF ReadFrom, Write
  <2> QED BY <2>1, Writes
<1> QED BY <1>1, <1>2

\* A status and a byte, on a response that was not begun.
LEMMA Replied ==
  ASSUME srv \in ServerType, NEW code \in 200..599
  PROVE  LET r == Write(WriteHeader(NoWriter, code), 1)
         IN  r \in WriterType /\ Agrees(r) /\ r.sent = code /\ r.bytes = 1
<1>1. NoWriter \in WriterType /\ Agrees(NoWriter) /\ NoWriter.sent = 0 /\ NoWriter.bytes = 0 /\ NoWriter.written = FALSE
  BY DEF NoWriter, NewResponseWriterWrapper, WriterType, Agrees
<1>2. code \in Nat \ {0} /\ ~Informational(code)
  BY DEF Informational
<1> DEFINE h == WriteHeader(NoWriter, code)
<1>3. h \in WriterType /\ Agrees(h) /\ h.sent = code /\ h.bytes = 0
  BY <1>1, <1>2, HeaderType, HeaderAgrees
<1> HIDE DEF h
<1>4. Write(h, 1) \in WriterType /\ Agrees(Write(h, 1)) /\ Write(h, 1).sent = code /\ Write(h, 1).bytes = 1
  <2>1. 1 \in Nat /\ 0 + 1 = 1 /\ h.sent # 0
    BY <1>2, <1>3
  <2>2. Write(h, 1) \in WriterType /\ Write(h, 1).bytes = h.bytes + 1 /\ Write(h, 1).sent = h.sent /\ Agrees(Write(h, 1))
    BY <1>3, <2>1, Writes, ZenonT(40)
  <2> QED BY <1>3, <2>1, <2>2
<1> QED BY <1>4 DEF h

-----------------------------------------------------------------------------
(* Loading *)

Wrappers == Middleware \cup {"maxbody", "logger", "timeout"}

\* What wraps first still does when more is added.
LEMMA OutermostStays ==
  ASSUME NEW s \in Seq(Wrappers), NEW t \in Seq(Wrappers), Len(s) > 0
  PROVE  s \o t \in Seq(Wrappers) /\ Len(s \o t) > 0 /\ (s \o t)[1] = s[1]
OBVIOUS

LEMMA CommonMiddleware ==
  ASSUME srv \in ServerType, NEW noLogger, NEW rTimeout
  PROVE  /\ commonMiddleware(noLogger, rTimeout) \in Seq(Wrappers)
         /\ srv.maxBody > 0 => Len(commonMiddleware(noLogger, rTimeout)) > 0 /\ commonMiddleware(noLogger, rTimeout)[1] = "maxbody"
<1> DEFINE timeout == IF rTimeout # 0 THEN rTimeout ELSE srv.requestTimeout
           a == IF srv.maxBody > 0 THEN <<"maxbody">> ELSE <<>>
           b == IF ~srv.disableRouteLogger /\ ~noLogger THEN <<"logger">> ELSE <<>>
           c == IF timeout > 0 THEN <<"timeout">> ELSE <<>>
           d == srv.middleware
<1>1. commonMiddleware(noLogger, rTimeout) = ((a \o b) \o c) \o d
  BY DEF commonMiddleware
<1>2. a \in Seq(Wrappers) /\ b \in Seq(Wrappers) /\ c \in Seq(Wrappers) /\ (srv.maxBody > 0 => Len(a) > 0 /\ a[1] = "maxbody")
  BY DEF Wrappers
<1>3. d \in Seq(Wrappers)
  <2>1. d \in Seq(Middleware)
    BY DEF ServerType
  <2> HIDE DEF d
  <2> QED BY <2>1 DEF Wrappers
<1> HIDE DEF a, b, c, d
<1>4. a \o b \in Seq(Wrappers) /\ (a \o b) \o c \in Seq(Wrappers) /\ ((a \o b) \o c) \o d \in Seq(Wrappers)
  BY <1>2, <1>3
<1>5. srv.maxBody > 0 => Len(((a \o b) \o c) \o d) > 0 /\ (((a \o b) \o c) \o d)[1] = "maxbody"
  <2>1. srv.maxBody > 0 => Len(a \o b) > 0 /\ (a \o b)[1] = "maxbody"
    BY <1>2, OutermostStays
  <2>2. srv.maxBody > 0 => Len((a \o b) \o c) > 0 /\ ((a \o b) \o c)[1] = "maxbody"
    BY <1>2, <1>4, <2>1, OutermostStays
  <2> QED BY <1>3, <1>4, <2>2, OutermostStays
<1> QED BY <1>1, <1>4, <1>5

LEMMA Applied ==
  ASSUME NEW s \in Seq(Wrappers), srv.maxBody > 0 => Len(s) > 0 /\ s[1] = "maxbody"
  PROVE  Capped(ApplyMiddleware(s))
<1> SUFFICES ASSUME srv.maxBody > 0 PROVE "maxbody" \in ApplyMiddleware(s)
  BY DEF Capped
<1>1. 1 \in DOMAIN s /\ s[1] = "maxbody"
  OBVIOUS
<1> QED BY <1>1 DEF ApplyMiddleware, ToSet

LEMMA RoutersAreCapped ==
  ASSUME srv \in ServerType, NEW name
  PROVE  Capped(setRouter(name))
BY CommonMiddleware, Applied DEF setRouter

LEMMA BoundAreCapped ==
  ASSUME srv \in ServerType, NEW noLogger, NEW rTimeout, NEW rest \in Seq(Middleware)
  PROVE  Capped(ApplyMiddleware(commonMiddleware(noLogger, rTimeout) \o rest))
<1> DEFINE c == commonMiddleware(noLogger, rTimeout)
<1>1. c \in Seq(Wrappers) /\ (srv.maxBody > 0 => Len(c) > 0 /\ c[1] = "maxbody")
  BY CommonMiddleware
<1> HIDE DEF c
<1>2. rest \in Seq(Wrappers)
  BY DEF Wrappers
<1>3. c \o rest \in Seq(Wrappers) /\ (srv.maxBody > 0 => Len(c \o rest) > 0 /\ (c \o rest)[1] = "maxbody")
  BY <1>1, <1>2, OutermostStays
<1> QED BY <1>3, Applied DEF c

\* A binding that was reserved is the only one of its method and path.
LEMMA BindingKept ==
  ASSUME RouteInv, NEW m, NEW p, NEW h, NEW mw, Capped(ApplyMiddleware(mw)), reserveRoute(m, p) = "none",
         Binds(m, p, h, mw), srv' = srv
  PROVE  /\ \A t \in routing' : Capped(t.chain)'
         /\ \A t, u \in routing' : t.method = u.method /\ t.path = u.path => t = u
         /\ loadErr' = loadErr
<1> DEFINE n == [method |-> m, path |-> p, handler |-> h, chain |-> ApplyMiddleware(mw)]
<1>1. routing' = routing \cup {n} /\ loadErr' = loadErr
  BY DEF Binds
<1>2. n.method = m /\ n.path = p /\ n.chain = ApplyMiddleware(mw)
  OBVIOUS
<1> HIDE DEF n
<1>3. \A t \in routing : ~(t.method = m /\ t.path = p)
  BY DEF reserveRoute
<1>4. \A t, u \in routing' : t.method = u.method /\ t.path = u.path => t = u
  BY <1>1, <1>2, <1>3 DEF RouteInv
<1>5. \A t \in routing' : Capped(t.chain)
  BY <1>1, <1>2 DEF RouteInv
<1>6. \A t \in routing' : Capped(t.chain)'
  BY <1>5 DEF Capped
<1> QED BY <1>1, <1>4, <1>6

LEMMA DefaultRouteType ==
  ASSUME srv \in ServerType, NEW id \in Defaults \ {"index"}
  PROVE  defaultRoute(id) \in RouteType
<1>1. DefaultPath[id] \in RoutePaths \cup {DefaultPath[d] : d \in Defaults \ {"index"}}
  OBVIOUS
<1>2. id \in Handlers
  BY DEF Handlers
<1>3. <<>> \in Seq(Middleware) /\ (IF id = "pprof" THEN DisableTimeout ELSE 0) \in Int /\ (id \in srv.disabled) \in BOOLEAN
  BY DEF DisableTimeout
<1> QED BY <1>1, <1>2, <1>3 DEF defaultRoute, RouteType

LEMMA LoadsKeep ==
  ASSUME ServerAssumption, PathInv, Loads, srv' = srv, stage' = stage
  PROVE  RouteInv'
<1>0. RouteInv /\ stage \in {"idle", "handling", "done", "aborted"} /\ srv \in ServerType
  BY DEF PathInv, OutInv, RouteInv
<1>i. phase \in {"defaults", "bind"}
  BY DEF Loads, newDefaultRoutes, loadRoutes, bindRoute, bindIndexRoute
<1>j. stage = "idle" /\ loadErr = "none"
  BY <1>0, <1>i DEF RouteInv
<1>k. \A t \in routing : Capped(t.chain)'
  BY <1>0 DEF RouteInv, Capped
<1>1. CASE newDefaultRoutes
  <2> DEFINE id == srv.defaults[looked + 1]
  <2>1. UNCHANGED <<phase, bound, routing, loadErr>> /\ looked' = looked + 1 /\ looked < Len(srv.defaults)
    BY <1>1 DEF newDefaultRoutes
  <2>2. id \in Defaults
    BY <1>0, <2>1 DEF RouteInv, ServerType
  <2>3. routes' = routes \/ (id # "index" /\ routes' = Append(routes, defaultRoute(id)))
    BY <1>1 DEF newDefaultRoutes
  <2> HIDE DEF id
  <2>4. routes' \in Seq(RouteType)
    <3>1. CASE routes' = routes
      BY <1>0, <3>1 DEF RouteInv
    <3>2. CASE id # "index" /\ routes' = Append(routes, defaultRoute(id))
      <4>1. defaultRoute(id) \in RouteType
        BY <1>0, <2>2, <3>2, DefaultRouteType
      <4> QED BY <1>0, <3>2, <4>1 DEF RouteInv
    <3> QED BY <2>3, <3>1, <3>2
  <2>5. looked' \in Nat
    BY <1>0, <2>1 DEF RouteInv
  <2> QED BY <1>0, <1>j, <1>k, <2>1, <2>4, <2>5 DEF RouteInv
<1>2. CASE loadRoutes
  <2>1. PICK given \in RouteLists : phase' = "bind" /\ routes' = routes \o given /\ UNCHANGED <<looked, bound, routing, loadErr>>
    BY <1>2 DEF loadRoutes
  <2>2. given \in Seq(RouteType)
    BY DEF ServerAssumption
  <2>3. routes' \in Seq(RouteType)
    BY <1>0, <2>1, <2>2 DEF RouteInv
  <2> QED BY <1>0, <1>j, <1>k, <2>1, <2>3 DEF RouteInv
<1>3. CASE bindRoute
  <2> DEFINE r == routes[bound + 1]
  <2>1. UNCHANGED <<looked, routes>> /\ bound < Len(routes)
    BY <1>3 DEF bindRoute
  <2>2. r \in RouteType
    BY <1>0, <2>1 DEF RouteInv
  <2>3. \/ \E err : Fails(err)
        \/ /\ reserveRoute(r.method, r.path) = "none" /\ Binds(r.method, r.path, r.handler, commonMiddleware(r.noLogger, r.timeout) \o r.middleware)
           /\ bound' = bound + 1 /\ UNCHANGED phase
    BY <1>3 DEF bindRoute
  <2> HIDE DEF r
  <2>4. CASE \E err : Fails(err)
    BY <1>0, <1>j, <1>k, <2>1, <2>4 DEF RouteInv, Fails
  <2>5. CASE /\ reserveRoute(r.method, r.path) = "none" /\ Binds(r.method, r.path, r.handler, commonMiddleware(r.noLogger, r.timeout) \o r.middleware)
             /\ bound' = bound + 1 /\ UNCHANGED phase
    <3>1. r.middleware \in Seq(Middleware)
      BY <2>2 DEF RouteType
    <3>2. Capped(ApplyMiddleware(commonMiddleware(r.noLogger, r.timeout) \o r.middleware))
      BY <1>0, <3>1, BoundAreCapped
    <3> HIDE DEF Binds, Capped, reserveRoute
    <3>3. /\ \A t \in routing' : Capped(t.chain)'
          /\ \A t, u \in routing' : t.method = u.method /\ t.path = u.path => t = u
          /\ loadErr' = loadErr
      BY <1>0, <2>5, <3>2, BindingKept
    <3>4. bound' \in Nat /\ phase' = phase
      BY <1>0, <2>5 DEF RouteInv
    <3> QED BY <1>0, <1>j, <2>1, <3>3, <3>4 DEF RouteInv
  <2> QED BY <2>3, <2>4, <2>5
<1>4. CASE bindIndexRoute
  <2>1. UNCHANGED <<looked, routes>>
    BY <1>4 DEF bindIndexRoute
  <2> DEFINE mw == commonMiddleware("index" \in srv.disabled, 0)
  <2>2. \/ \E err : Fails(err)
        \/ reserveRoute("GET", "/") = "none" /\ Binds("GET", "/", "index", mw) /\ phase' = "serving" /\ UNCHANGED bound
        \/ phase' = "serving" /\ UNCHANGED <<bound, routing, loadErr>>
    BY <1>4 DEF bindIndexRoute
  <2>3. CASE \E err : Fails(err)
    BY <1>0, <1>j, <1>k, <2>1, <2>3 DEF RouteInv, Fails
  <2>4. CASE reserveRoute("GET", "/") = "none" /\ Binds("GET", "/", "index", mw) /\ phase' = "serving" /\ UNCHANGED bound
    <3>1. Capped(ApplyMiddleware(mw))
      BY <1>0, CommonMiddleware, Applied
    <3> HIDE DEF mw
    <3>2. /\ \A t \in routing' : Capped(t.chain)'
          /\ \A t, u \in routing' : t.method = u.method /\ t.path = u.path => t = u
          /\ loadErr' = loadErr
      BY <1>0, <2>4, <3>1, BindingKept
    <3> QED BY <1>0, <1>j, <2>1, <2>4, <3>2 DEF RouteInv
  <2>5. CASE phase' = "serving" /\ UNCHANGED <<bound, routing, loadErr>>
    BY <1>0, <1>j, <1>k, <2>1, <2>5 DEF RouteInv
  <2> QED BY <2>2, <2>3, <2>4, <2>5
<1> QED BY <1>1, <1>2, <1>3, <1>4 DEF Loads

-----------------------------------------------------------------------------
(* Serving *)

LEMMA FinalCodes == ASSUME NEW c \in 200..599 PROVE ~Informational(c)
<1>1. c \in Int /\ c >= 200
  OBVIOUS
<1>2. c \notin 100..199
  BY <1>1
<1> QED BY <1>2 DEF Informational

LEMMA RepliesAreFinal ==
  ASSUME NEW h, NEW r \in Replies(h)
  PROVE  r.code \in 200..599
<1> DEFINE text == r = SendText(200) \/ r = SendText(424)
           status == r = SendStatus(200) \/ r = SendStatus(501) \/ r = SendStatus(404) \/ r = SendStatus(405) \/ r = SendStatus(500)
           json == r = SendJSON(200, TRUE) \/ r = SendJSON(424, TRUE) \/ r = SendJSON(200, FALSE)
           final == r.code \in 200..599
<1>1. text \/ status \/ json
  BY ZenonT(40) DEF Replies, defaultIPHandler, jsendxIPHandler, jsendxSend
<1>2. text => final
  BY DEF SendText
<1>3. status => final
  BY DEF SendStatus
<1>4. json => final
  BY DEF SendJSON, SendStatus
<1> HIDE DEF text, status, json, final
<1>5. final
  BY <1>1, <1>2, <1>3, <1>4
<1> QED BY <1>5 DEF final

LEMMA ForwardsAreFinal ==
  ASSUME NEW base, NEW param, NEW lax \in BOOLEAN, NEW upstream \in BOOLEAN, NEW gone \in BOOLEAN
  PROVE  ForwardRequest(base, param, lax, upstream, gone).reply.code \in 200..599
<1> DEFINE f == ForwardRequest(base, param, lax, upstream, gone)
<1>1. f.reply \in {rejectTraversal, SendText(200), newErrorHandler(gone)}
  BY DEF ForwardRequest
<1>2. rejectTraversal.code = 400 /\ SendText(200).code = 200
  BY DEF rejectTraversal, SendText
<1>3. newErrorHandler(gone).code \in {499, 502}
  BY DEF newErrorHandler, SendText, ClientClosedRequest
<1> HIDE DEF f
<1> QED BY <1>1, <1>2, <1>3 DEF f

\* A handler that goes on leaves the two sides agreed, and behind a timeout the connection alone.
LEMMA ThroughKept ==
  ASSUME OutInv, Handling, GoesOn, srv' = srv, NEW v, NEW n \in Nat, NEW code \in Nat \ {0}, Through(v, n, code),
         ~Has("timeout") => v \in WriterType /\ Agrees(v)
  PROVE  /\ OutInv'
         /\ Has("timeout") => out' = out /\ buffer' \in BufferType
                              /\ buffer'.status = IF buffer.status = 0 /\ ~Informational(code) THEN code ELSE buffer.status
         /\ ~Has("timeout") => out' = v /\ buffer' = buffer
<1>1. /\ stage' = stage /\ chain' = chain /\ late' = late /\ cut' = cut /\ sentBefore' = sentBefore /\ logged' = logged /\ stage = "handling"
  BY DEF GoesOn, Handling
<1>2. out \in WriterType /\ buffer \in BufferType /\ Agrees(out) /\ late = FALSE /\ cut = FALSE /\ sentBefore = 0 /\ logged = <<>>
      /\ (Has("timeout") => out = NoWriter)
  BY <1>1 DEF OutInv
<1>3. CASE Has("timeout")
  <2> DEFINE b == IF buffer.status = 0 /\ ~Informational(code) THEN code ELSE buffer.status
  <2>1. out' = out /\ buffer' = [status |-> b, size |-> buffer.size + n]
    BY <1>3 DEF Through
  <2>2. b \in Nat /\ buffer.size + n \in Nat
    BY <1>2 DEF BufferType
  <2> HIDE DEF b
  <2>3. buffer' \in BufferType /\ buffer'.status = b
    BY <2>1, <2>2 DEF BufferType
  <2>4. Agrees(out)' /\ (Has("timeout")' => out' = NoWriter)
    BY <1>1, <1>2, <2>1 DEF Agrees, Has
  <2>5. OutInv'
    BY <1>1, <1>2, <2>1, <2>3, <2>4 DEF OutInv
  <2> QED BY <1>3, <2>1, <2>3, <2>5 DEF b
<1>4. CASE ~Has("timeout")
  <2>1. out' = v /\ buffer' = buffer
    BY <1>4 DEF Through
  <2>2. Agrees(out)' /\ ~Has("timeout")'
    BY <1>1, <1>4, <2>1 DEF Agrees, Has
  <2>3. OutInv'
    BY <1>1, <1>2, <1>4, <2>1, <2>2 DEF OutInv
  <2> QED BY <1>4, <2>1, <2>3
<1> QED BY <1>3, <1>4

\* What serving does not touch.
LEMMA RoutesKept ==
  ASSUME RouteInv, UNCHANGED <<srv, routeVars>>, stage' # "idle" => phase = "serving"
  PROVE  RouteInv'
BY DEF RouteInv, routeVars, Capped

LEMMA OnCap ==
  ASSUME CapInv, Handling, GoesOn, srv' = srv, taken' = taken
  PROVE  CapInv' /\ DoneInv'
<1>1. stage = "handling" /\ stage' = stage /\ chain' = chain /\ body' = body
  BY DEF GoesOn, Handling
<1>2. CapInv'
  BY <1>1 DEF CapInv, Capped
<1>3. DoneInv'
  BY <1>1 DEF DoneInv
<1> QED BY <1>2, <1>3

Served == ReplyInv /\ OutInv /\ DoneInv /\ CapInv

LEMMA RequestServed ==
  ASSUME ServerAssumption, PathInv, Request, UNCHANGED <<srv, routeVars>>
  PROVE  Served' /\ phase = "serving"
<1>1. PICK h, w : Dispatch(h, w) /\ Capped(w)
  <2>1. CASE \E t \in routing : Dispatch(t.handler, t.chain)
    BY <2>1 DEF PathInv, RouteInv
  <2>2. CASE Dispatch("405", setRouter("405"))
    BY <2>2, RoutersAreCapped DEF PathInv, RouteInv
  <2>3. CASE Dispatch("404", setRouter("404"))
    BY <2>3, RoutersAreCapped DEF PathInv, RouteInv
  <2> QED BY <2>1, <2>2, <2>3 DEF Request
<1>2. PICK size \in Bodies :
         /\ phase = "serving" /\ stage = "idle" /\ stage' = "handling" /\ chain' = w /\ body' = size /\ handler' = h
         /\ UNCHANGED <<taken, steps, replied, writeVars, forward>>
  BY <1>1 DEF Dispatch
<1>3. size \in Nat
  BY DEF ServerAssumption
<1>4. out = NoWriter /\ buffer = NoBuffer /\ replied = 0 /\ taken = 0 /\ out' = out /\ buffer' = buffer /\ replied' = replied /\ taken' = taken
      /\ late' = late /\ cut' = cut /\ sentBefore' = sentBefore /\ logged' = logged
  BY <1>2 DEF PathInv, OutInv, writeVars
<1>5. CapInv'
  BY <1>1, <1>2, <1>3, <1>4 DEF PathInv, CapInv, Capped
<1>6. DoneInv'
  BY <1>2 DEF DoneInv
<1>7. Agrees(out)'
  BY <1>2, <1>4 DEF PathInv, OutInv, Agrees
<1>8. OutInv'
  BY <1>2, <1>4, <1>7 DEF PathInv, OutInv
<1>9. ReplyInv'
  BY <1>2, <1>4 DEF ReplyInv
<1> QED BY <1>2, <1>5, <1>6, <1>8, <1>9 DEF Served

LEMMA ReadBodyServed ==
  ASSUME ServerAssumption, PathInv, ReadBody, UNCHANGED <<srv, routeVars>>
  PROVE  Served' /\ stage = "handling"
<1>1. stage = "handling" /\ stage' = stage /\ chain' = chain /\ body' = body /\ replied' = replied /\ out' = out /\ buffer' = buffer
      /\ late' = late /\ cut' = cut /\ sentBefore' = sentBefore /\ logged' = logged /\ handler' = handler
      /\ taken' = IF Has("maxbody") THEN Lower(body, srv.maxBody) ELSE body
  BY DEF ReadBody, Handling, GoesOn
<1>2. srv \in ServerType /\ body \in Nat /\ Capped(chain)
  BY <1>1 DEF PathInv, RouteInv, CapInv
<1>3. taken' \in Int /\ (srv.maxBody > 0 => taken' <= srv.maxBody)
  <2>1. srv.maxBody \in Int
    BY <1>2 DEF ServerType
  <2>2. CASE srv.maxBody > 0
    <3>1. Has("maxbody")
      BY <1>2, <2>2 DEF Capped, Has
    <3> QED BY <1>1, <1>2, <2>1, <2>2, <3>1 DEF Lower
  <2>3. CASE ~(srv.maxBody > 0)
    BY <1>1, <1>2, <2>1, <2>3 DEF Lower
  <2> QED BY <2>2, <2>3
<1>4. CapInv'
  BY <1>1, <1>2, <1>3 DEF CapInv, Capped
<1>5. DoneInv'
  BY <1>1 DEF DoneInv
<1>6. OutInv'
  BY <1>1 DEF PathInv, OutInv, Agrees, Has
<1>7. ReplyInv'
  BY <1>1 DEF PathInv, ReplyInv, Helper, Has
<1> QED BY <1>1, <1>4, <1>5, <1>6, <1>7 DEF Served

LEMMA HandlerWritesServed ==
  ASSUME ServerAssumption, PathInv, HandlerWrites, UNCHANGED <<srv, routeVars>>
  PROVE  Served' /\ stage = "handling"
<1>1. Handling /\ stage = "handling" /\ Replies(handler) = {} /\ handler # "proxy" /\ GoesOn /\ taken' = taken /\ replied' = replied
  BY DEF HandlerWrites, Handling
<1>2. OutInv /\ out \in WriterType /\ Agrees(out) /\ srv \in ServerType /\ CapInv
  BY <1>1 DEF PathInv, OutInv, RouteInv
<1>3. 200 \in Nat \ {0} /\ 0 \in Nat /\ 1 \in Nat /\ 2 \in Nat
  OBVIOUS
<1>5. OutInv'
  <2>1. CASE \E code \in Codes : Through(WriteHeader(out, code), 0, code)
    <3>1. PICK code \in Codes : Through(WriteHeader(out, code), 0, code)
      BY <2>1
    <3>2. code \in Nat \ {0}
      BY DEF ServerAssumption
    <3>3. WriteHeader(out, code) \in WriterType /\ Agrees(WriteHeader(out, code))
      BY <1>2, <3>2, HeaderType, HeaderAgrees
    <3> QED BY <1>1, <1>2, <1>3, <3>1, <3>2, <3>3, ThroughKept
  <2>2. CASE Through(Write(out, 1), 1, 200)
    <3>1. Write(out, 1) \in WriterType /\ Agrees(Write(out, 1))
      BY <1>2, <1>3, Writes
    <3> QED BY <1>1, <1>2, <1>3, <2>2, <3>1, ThroughKept
  <2>3. CASE Through(Flush(out), 0, 200)
    <3>1. Flush(out) \in WriterType /\ Agrees(Flush(out))
      BY <1>2, Implicit DEF Flush
    <3> QED BY <1>1, <1>2, <1>3, <2>3, <3>1, ThroughKept
  <2>4. CASE Through(ReadFrom(out, 2), 2, 200)
    <3>1. ReadFrom(out, 2) \in WriterType /\ Agrees(ReadFrom(out, 2))
      BY <1>2, <1>3, Copies
    <3> QED BY <1>1, <1>2, <1>3, <2>4, <3>1, ThroughKept
  <2> QED BY <2>1, <2>2, <2>3, <2>4 DEF HandlerWrites
<1>6. CapInv' /\ DoneInv'
  BY <1>1, <1>2, OnCap
<1>7. ReplyInv'
  <2>1. handler' = handler /\ stage' = stage /\ ~Helper /\ replied \in {0} \cup 200..599
    BY <1>1 DEF GoesOn, Helper, PathInv, ReplyInv
  <2>2. ~Helper' /\ replied = 0
    BY <1>1, <2>1 DEF Helper, PathInv, ReplyInv
  <2> QED BY <1>1, <2>1, <2>2 DEF ReplyInv
<1> QED BY <1>1, <1>5, <1>6, <1>7 DEF Served

\* A helper's reply goes out as it is, or is held back as it is.
LEMMA ReplyServed ==
  ASSUME PathInv, Handling, Helper, replied = 0, GoesOn, UNCHANGED <<srv, routeVars>>, taken' = taken,
         NEW code \in 200..599, replied' = code, Through(Write(WriteHeader(out, code), 1), 1, code)
  PROVE  Served'
<1>1. stage = "handling" /\ out = NoWriter /\ buffer = NoBuffer /\ srv \in ServerType /\ OutInv /\ CapInv /\ srv' = srv
  BY DEF PathInv, Handling, ReplyInv, RouteInv
<1>2. stage' = stage /\ chain' = chain /\ handler' = handler
  BY DEF GoesOn
<1> DEFINE v == Write(WriteHeader(out, code), 1)
<1>3. v \in WriterType /\ Agrees(v) /\ v.sent = code
  BY <1>1, Replied
<1>4. Through(v, 1, code) /\ 1 \in Nat /\ code \in Nat \ {0} /\ ~Informational(code)
  BY DEF Informational
<1> HIDE DEF v
<1>5. /\ OutInv'
      /\ Has("timeout") => out' = out /\ buffer'.status = IF buffer.status = 0 /\ ~Informational(code) THEN code ELSE buffer.status
      /\ ~Has("timeout") => out' = v
  BY <1>1, <1>3, <1>4, ThroughKept
<1>6. buffer.status = 0
  BY <1>1 DEF NoBuffer
<1>7. IF Has("timeout")' THEN buffer'.status = code ELSE out'.sent = code
  BY <1>2, <1>3, <1>4, <1>5, <1>6 DEF Has
<1>8. ReplyInv'
  <2>1. Helper'
    BY <1>2 DEF Helper
  <2>2. replied' \in 200..599 /\ replied' # 0
    OBVIOUS
  <2> QED BY <1>7, <2>1, <2>2 DEF ReplyInv
<1>9. CapInv' /\ DoneInv'
  BY <1>1, OnCap
<1> QED BY <1>5, <1>8, <1>9 DEF Served

LEMMA HandlerRepliesServed ==
  ASSUME ServerAssumption, PathInv, HandlerReplies, UNCHANGED <<srv, routeVars>>
  PROVE  Served' /\ stage = "handling"
<1>1. PICK r \in Replies(handler) : /\ Handling /\ replied = 0 /\ Through(Write(WriteHeader(out, r.code), 1), 1, r.code) /\ replied' = r.code
                                    /\ GoesOn /\ UNCHANGED <<taken, steps, forward>>
  BY DEF HandlerReplies
<1>2. r.code \in 200..599 /\ Helper /\ taken' = taken /\ stage = "handling"
  BY <1>1, RepliesAreFinal DEF Helper, Handling
<1> QED BY <1>1, <1>2, ReplyServed

LEMMA ForwardServed ==
  ASSUME ServerAssumption, PathInv, Forward, UNCHANGED <<srv, routeVars>>
  PROVE  Served' /\ stage = "handling"
<1>1. PICK addr \in Bases, param \in PathParams, lax \in BOOLEAN, upstream \in BOOLEAN, gone \in BOOLEAN :
        LET f == ForwardRequest(parseUpstreamURL(addr), param, lax, upstream, gone)
        IN  /\ Handling /\ handler = "proxy" /\ replied = 0
            /\ IF f.reply.code = ClientClosedRequest THEN UNCHANGED <<out, buffer>>
               ELSE Through(Write(WriteHeader(out, f.reply.code), 1), 1, f.reply.code)
            /\ replied' = f.reply.code /\ GoesOn /\ taken' = taken
  BY DEF Forward
<1> DEFINE code == ForwardRequest(parseUpstreamURL(addr), param, lax, upstream, gone).reply.code
<1>2. code \in 200..599
  BY ForwardsAreFinal
<1>3. /\ Handling /\ handler = "proxy" /\ replied = 0 /\ replied' = code /\ GoesOn /\ taken' = taken
      /\ IF code = ClientClosedRequest THEN UNCHANGED <<out, buffer>> ELSE Through(Write(WriteHeader(out, code), 1), 1, code)
  BY <1>1
<1> HIDE DEF code
<1>4. Helper /\ stage = "handling" /\ srv' = srv
  BY <1>3 DEF Helper, Handling
<1>5. CASE code # ClientClosedRequest
  BY <1>2, <1>3, <1>4, <1>5, ReplyServed
<1>6. CASE code = ClientClosedRequest
  <2>1. out' = out /\ buffer' = buffer /\ stage' = stage /\ handler' = handler /\ chain' = chain /\ late' = late /\ cut' = cut
        /\ sentBefore' = sentBefore /\ logged' = logged
    BY <1>3, <1>6 DEF GoesOn
  <2>2. OutInv'
    BY <1>4, <2>1 DEF PathInv, OutInv, Agrees, Has
  <2>3. ReplyInv'
    BY <1>2, <1>3, <1>4, <1>6, <2>1 DEF ReplyInv, Helper, ClientClosedRequest
  <2>4. CapInv' /\ DoneInv'
    BY <1>3, <1>4, OnCap DEF PathInv
  <2> QED BY <1>4, <2>2, <2>3, <2>4 DEF Served
<1> QED BY <1>5, <1>6

\* What is logged of a response that ends, and what goes out.
LEMMA Finished ==
  ASSUME NEW w \in WriterType, logged = <<>>, Finishes(w)
  PROVE  /\ stage' = "done" /\ out' \in WriterType /\ out'.bytes = w.bytes /\ out'.tee = w.tee
         /\ w.sent # 0 => out'.sent = w.sent
         /\ Len(logged') = IF Has("logger")' THEN 1 ELSE 0
         /\ Agrees(w) => logged' = Entries(chain', [status |-> out'.sent, size |-> out'.bytes])
<1>1. stage' = "done" /\ logged' = logged \o Entries(chain', w) /\ out' = Sends(w, 200)
  BY DEF Finishes
<1>2. 200 \in Nat \ {0} /\ ~Informational(200)
  BY DEF Informational
<1>3. out' \in WriterType /\ out'.bytes = w.bytes /\ out'.tee = w.tee /\ (w.sent # 0 => out' = w) /\ (w.sent = 0 => out'.sent = 200)
  BY <1>1, <1>2, SentOnce
<1> DEFINE e == [code |-> IF w.status = 0 THEN 200 ELSE w.status, size |-> w.size]
           o == [status |-> out'.sent, size |-> out'.bytes]
<1>4. Entries(chain', w) = IF "logger" \in chain' THEN <<e>> ELSE <<>>
  BY DEF Entries
<1>5. logged' = IF "logger" \in chain' THEN <<e>> ELSE <<>>
  <2> HIDE DEF e
  <2> QED BY <1>1, <1>4
<1>6. Len(logged') = IF Has("logger")' THEN 1 ELSE 0
  <2> HIDE DEF e
  <2> QED BY <1>5 DEF Has
<1>7. ASSUME Agrees(w) PROVE logged' = Entries(chain', o)
  <2>1. w.status = w.sent /\ w.size = w.bytes
    BY <1>7 DEF Agrees
  <2>2. out'.sent = (IF w.status = 0 THEN 200 ELSE w.status) /\ out'.sent # 0 /\ out'.bytes = w.size
    BY <1>3, <2>1
  <2>3. e = [code |-> IF o.status = 0 THEN 200 ELSE o.status, size |-> o.size]
    BY <2>2
  <2>4. Entries(chain', o) = IF "logger" \in chain' THEN <<[code |-> IF o.status = 0 THEN 200 ELSE o.status, size |-> o.size]>> ELSE <<>>
    BY DEF Entries
  <2> HIDE DEF e, o
  <2> QED BY <1>5, <2>3, <2>4
<1> QED BY <1>1, <1>3, <1>6, <1>7

LEMMA ReturnServed ==
  ASSUME ServerAssumption, PathInv, RequestInjectHandler, UNCHANGED <<srv, routeVars>>
  PROVE  Served' /\ stage = "handling"
<1> DEFINE code == IF buffer.status = 0 THEN 200 ELSE buffer.status
           w == IF Has("timeout") THEN Write(WriteHeader(out, code), buffer.size) ELSE out
<1>1. stage = "handling" /\ chain' = chain /\ Finishes(w)
  BY DEF RequestInjectHandler, Handling
<1>2. UNCHANGED <<handler, body, taken, steps, replied, buffer, late, cut, sentBefore, forward, srv>>
  BY DEF RequestInjectHandler
<1>3. out \in WriterType /\ Agrees(out) /\ srv \in ServerType /\ buffer \in BufferType /\ logged = <<>> /\ late = FALSE /\ cut = FALSE /\ sentBefore = 0
      /\ (Has("timeout") => out = NoWriter) /\ ReplyInv /\ CapInv
  BY <1>1 DEF PathInv, OutInv, RouteInv
<1>4. code \in Nat \ {0} /\ buffer.size \in Nat
  BY <1>3 DEF BufferType
<1>5. w \in WriterType /\ Agrees(w) /\ (replied \notin {0, ClientClosedRequest} => w.sent = replied)
  <2>1. CASE ~Has("timeout")
    <3>1. w = out
      BY <2>1
    <3> HIDE DEF w
    <3> QED BY <1>1, <1>3, <2>1, <3>1 DEF ReplyInv
  <2>2. CASE Has("timeout")
    <3> DEFINE h == WriteHeader(out, code)
    <3>1. h \in WriterType /\ Agrees(h)
      BY <1>3, <1>4, HeaderType, HeaderAgrees, ZenonT(40)
    <3>2. replied \notin {0, ClientClosedRequest} => code = replied /\ replied \in 200..599
      BY <1>1, <1>3, <2>2 DEF ReplyInv
    <3>3. out.sent = 0 /\ out.written = FALSE
      BY <1>3, <2>2 DEF NoWriter, NewResponseWriterWrapper
    <3> HIDE DEF code
    <3>4. replied \notin {0, ClientClosedRequest} => ~Informational(code)
      <4> SUFFICES ASSUME replied \notin {0, ClientClosedRequest} PROVE ~Informational(code)
        OBVIOUS
      <4>1. code \in 200..599
        BY <3>2
      <4> QED BY <4>1, FinalCodes
    <3>5. replied \notin {0, ClientClosedRequest} => h.sent = replied /\ h.sent # 0
      <4>1. ~Informational(code) => h.sent = code
        BY <1>3, <1>4, <3>3, HeaderType
      <4> QED BY <3>2, <3>4, <4>1
    <3>6. w = Write(h, buffer.size)
      BY <2>2
    <3> HIDE DEF h, w
    <3>7. Write(h, buffer.size) \in WriterType /\ (h.sent # 0 => Write(h, buffer.size).sent = h.sent) /\ Agrees(Write(h, buffer.size))
      BY <1>3, <1>4, <3>1, Writes
    <3> QED BY <3>5, <3>6, <3>7
  <2> QED BY <2>1, <2>2
<1> HIDE DEF w, code
<1>6. /\ stage' = "done" /\ out' \in WriterType /\ out'.bytes = w.bytes /\ out'.tee = w.tee
      /\ (w.sent # 0 => out'.sent = w.sent)
      /\ Len(logged') = IF Has("logger")' THEN 1 ELSE 0
      /\ logged' = Entries(chain', [status |-> out'.sent, size |-> out'.bytes])
  BY <1>1, <1>3, <1>5, Finished
<1>7. srv.tee => w.tee = w.bytes
  BY <1>5 DEF Agrees
<1>8. DoneInv'
  <2>1. replied \notin {0, ClientClosedRequest} => out'.sent = replied
    BY <1>5, <1>6
  <2>2. srv'.tee => out'.tee = out'.bytes
    BY <1>2, <1>6, <1>7
  <2>3. late' = FALSE /\ cut' = FALSE /\ replied' = replied
    BY <1>2, <1>3
  <2> HIDE DEF Entries, Has
  <2> QED BY <1>6, <2>1, <2>2, <2>3 DEF DoneInv
<1>9. OutInv'
  BY <1>2, <1>3, <1>6 DEF OutInv
<1>10. ReplyInv'
  BY <1>2, <1>3, <1>6 DEF ReplyInv
<1>11. CapInv'
  BY <1>1, <1>2, <1>3, <1>6 DEF CapInv, Capped
<1> QED BY <1>1, <1>8, <1>9, <1>10, <1>11 DEF Served

LEMMA TimesOutServed ==
  ASSUME ServerAssumption, PathInv, TimesOut, UNCHANGED <<srv, routeVars>>
  PROVE  Served' /\ stage = "handling"
<1> DEFINE w == Write(WriteHeader(out, 503), 1)
<1>1. stage = "handling" /\ Has("timeout") /\ chain' = chain /\ Finishes(w) /\ late' = TRUE
  BY DEF TimesOut, Handling
<1>2. UNCHANGED <<handler, body, taken, steps, replied, buffer, cut, sentBefore, forward, srv>>
  BY DEF TimesOut
<1>3. out = NoWriter /\ srv \in ServerType /\ buffer \in BufferType /\ logged = <<>> /\ cut = FALSE /\ sentBefore = 0 /\ ReplyInv /\ CapInv
  BY <1>1 DEF PathInv, OutInv, RouteInv
<1>4. w \in WriterType /\ Agrees(w) /\ w.sent = 503 /\ w.bytes = 1
  <2>1. 503 \in 200..599
    OBVIOUS
  <2>2. w = Write(WriteHeader(NoWriter, 503), 1)
    BY <1>3
  <2>3. Write(WriteHeader(NoWriter, 503), 1) \in WriterType /\ Agrees(Write(WriteHeader(NoWriter, 503), 1))
        /\ Write(WriteHeader(NoWriter, 503), 1).sent = 503 /\ Write(WriteHeader(NoWriter, 503), 1).bytes = 1
    BY <1>3, <2>1, Replied, ZenonT(40)
  <2> HIDE DEF w
  <2> QED BY <2>2, <2>3, Zenon
<1> HIDE DEF w
<1>6. /\ stage' = "done" /\ out' \in WriterType /\ out'.bytes = 1 /\ out'.tee = w.tee /\ out'.sent = 503
      /\ Len(logged') = IF Has("logger")' THEN 1 ELSE 0
      /\ logged' = Entries(chain', [status |-> out'.sent, size |-> out'.bytes])
  BY <1>1, <1>3, <1>4, Finished
<1>7. srv.tee => w.tee = 1
  BY <1>4 DEF Agrees
<1>8. DoneInv'
  <2>1. srv'.tee => out'.tee = out'.bytes
    BY <1>2, <1>6, <1>7
  <2>2. late' = TRUE /\ cut' = FALSE
    BY <1>1, <1>2, <1>3
  <2> HIDE DEF Entries, Has
  <2> QED BY <1>6, <2>1, <2>2 DEF DoneInv
<1>9. OutInv'
  BY <1>1, <1>2, <1>3, <1>6 DEF OutInv
<1>10. ReplyInv'
  BY <1>2, <1>3, <1>6 DEF ReplyInv
<1>11. CapInv'
  BY <1>1, <1>2, <1>3, <1>6 DEF CapInv, Capped
<1> QED BY <1>1, <1>8, <1>9, <1>10, <1>11 DEF Served

LEMMA LateWriteServed ==
  ASSUME ServerAssumption, PathInv, LateWrite, UNCHANGED <<srv, routeVars>>
  PROVE  Served' /\ stage = "done"
<1>1. late /\ buffer' = [buffer EXCEPT !.size = @ + 1]
      /\ UNCHANGED <<stage, handler, chain, body, taken, steps, replied, out, late, cut, sentBefore, logged, forward, srv>>
  BY DEF LateWrite
<1>2. stage = "done" /\ buffer \in BufferType
  BY <1>1 DEF PathInv, OutInv
<1>3. buffer' \in BufferType
  BY <1>1, <1>2 DEF BufferType
<1>4. OutInv'
  BY <1>1, <1>2, <1>3 DEF PathInv, OutInv
<1>5. ReplyInv'
  BY <1>1, <1>2 DEF PathInv, ReplyInv
<1>6. CapInv'
  BY <1>1 DEF PathInv, CapInv, Capped
<1>7. DoneInv'
  <2> USE DEF PathInv
  <2> QED BY <1>1 DEF DoneInv, Has, Entries
<1> QED BY <1>2, <1>4, <1>5, <1>6, <1>7 DEF Served

LEMMA PanicServed ==
  ASSUME ServerAssumption, PathInv, newPanicHandler, UNCHANGED <<srv, routeVars>>
  PROVE  Served' /\ stage = "handling"
<1>1. stage = "handling" /\ UNCHANGED <<handler, body, taken, steps, replied, buffer, late, forward, srv>>
  BY DEF newPanicHandler, Handling
<1>2. out \in WriterType /\ Agrees(out) /\ srv \in ServerType /\ buffer \in BufferType /\ logged = <<>> /\ late = FALSE /\ cut = FALSE /\ sentBefore = 0
      /\ ReplyInv /\ CapInv
  BY <1>1 DEF PathInv, OutInv, RouteInv
<1> DEFINE v == NewResponseWriterWrapper(out.sent, out.bytes)
           w == Write(WriteHeader(v, 500), 1)
<1>3. CASE stage' = "aborted" /\ UNCHANGED <<chain, out, logged, cut, sentBefore>>
  <2>1. OutInv'
    BY <1>1, <1>2, <1>3 DEF OutInv, Agrees
  <2>2. ReplyInv' /\ DoneInv'
    BY <1>1, <1>2, <1>3 DEF ReplyInv, DoneInv
  <2>3. CapInv'
    BY <1>1, <1>2, <1>3 DEF CapInv, Capped
  <2> QED BY <1>1, <2>1, <2>2, <2>3 DEF Served
<1>4. CASE cut' = TRUE /\ sentBefore' = out.sent /\ chain' = setRouter("500") /\ Finishes(w)
  <2>1. v \in WriterType
    BY <1>2 DEF NoWriter, NewResponseWriterWrapper, WriterType
  <2>2. out.sent = 0 => v = NoWriter
    <3>1. out.sent = 0 => out.bytes = 0
      BY <1>2 DEF Agrees
    <3> QED BY <3>1 DEF NoWriter
  <2> HIDE DEF v
  <2>c. PICK c \in 200..599 : c = 500
    OBVIOUS
  <2>w. w = Write(WriteHeader(v, c), 1)
    BY <2>c
  <2> HIDE DEF w
  <2>3. w \in WriterType
    <3>1. c \in Nat \ {0} /\ 1 \in Nat
      OBVIOUS
    <3>2. WriteHeader(v, c) \in WriterType
      BY <2>1, <3>1, HeaderType
    <3> QED BY <1>2, <2>w, <3>1, <3>2, Writes
  <2>4. out.sent = 0 => Agrees(w) /\ w.sent = 500
    <3>1. Agrees(Write(WriteHeader(NoWriter, c), 1)) /\ Write(WriteHeader(NoWriter, c), 1).sent = c
      BY <1>2, Replied
    <3> QED BY <2>2, <2>c, <2>w, <3>1
  <2>5. /\ stage' = "done" /\ out' \in WriterType /\ (w.sent # 0 => out'.sent = w.sent)
        /\ Len(logged') = IF Has("logger")' THEN 1 ELSE 0
        /\ Agrees(w) => logged' = Entries(chain', [status |-> out'.sent, size |-> out'.bytes])
    BY <1>2, <1>4, <2>3, Finished
  <2>6. out.sent \in Nat /\ (sentBefore' = 0 => out'.sent = 500 /\ logged' = Entries(chain', [status |-> out'.sent, size |-> out'.bytes]))
    BY <1>2, <1>4, <2>4, <2>5 DEF WriterType
  <2>7. DoneInv'
    <3>1. late' = FALSE /\ cut' = TRUE
      BY <1>1, <1>2, <1>4
    <3> HIDE DEF Entries, Has
    <3> QED BY <2>5, <2>6, <3>1 DEF DoneInv
  <2>8. OutInv'
    BY <1>1, <1>2, <1>4, <2>5, <2>6 DEF OutInv
  <2>9. ReplyInv'
    BY <1>1, <1>2, <2>5 DEF ReplyInv
  <2>10. Capped(setRouter("500"))
    BY <1>2, RoutersAreCapped
  <2>11. CapInv'
    BY <1>1, <1>2, <1>4, <2>10 DEF CapInv, Capped
  <2> QED BY <1>1, <2>7, <2>8, <2>9, <2>11 DEF Served
<1> QED BY <1>3, <1>4 DEF newPanicHandler

LEMMA PathStart == ASSUME ServerAssumption, PathInit PROVE PathInv
<1>1. PICK c \in Servers : PathIdle(c)
  BY DEF PathInit
<1>2. c \in ServerType
  BY DEF ServerAssumption
<1>3. RouteInv
  BY <1>1, <1>2 DEF PathIdle, RouteInv
<1>4. OutInv
  BY <1>1 DEF PathIdle, OutInv, NoWriter, NewResponseWriterWrapper, NoBuffer, WriterType, BufferType, Agrees
<1>5. ReplyInv /\ DoneInv
  BY <1>1 DEF PathIdle, ReplyInv, DoneInv
<1>6. CapInv
  BY <1>1, <1>2 DEF PathIdle, CapInv, ServerType
<1> QED BY <1>3, <1>4, <1>5, <1>6 DEF PathInv

LEMMA PathSteps == ASSUME ServerAssumption, PathInv, [PathNext]_pathVars PROVE PathInv'
<1>1. CASE Loads /\ UNCHANGED <<srv, stage, running, handler, chain, body, taken, steps, replied, writeVars, forward>>
  <2>1. RouteInv'
    BY <1>1, LoadsKeep
  <2>2. Served'
    <3>1. UNCHANGED <<srv, stage, handler, chain, body, taken, replied, out, buffer, late, cut, sentBefore, logged>>
      BY <1>1 DEF writeVars
    <3>2. OutInv' /\ ReplyInv'
      BY <3>1 DEF PathInv, OutInv, ReplyInv, Agrees, Has, Helper
    <3>3. DoneInv' /\ CapInv'
      BY <3>1 DEF PathInv, DoneInv, CapInv, Capped, Has
    <3> QED BY <3>2, <3>3 DEF Served
  <2> QED BY <2>1, <2>2 DEF PathInv, Served
<1>2. CASE Serves /\ UNCHANGED <<srv, routeVars>>
  <2>1. Served' /\ (stage # "idle" \/ phase = "serving")
    <3>1. CASE Request
      BY <1>2, <3>1, RequestServed
    <3>2. CASE ReadBody
      BY <1>2, <3>2, ReadBodyServed
    <3>3. CASE HandlerWrites
      BY <1>2, <3>3, HandlerWritesServed
    <3>4. CASE HandlerReplies
      BY <1>2, <3>4, HandlerRepliesServed
    <3>5. CASE Forward
      BY <1>2, <3>5, ForwardServed
    <3>6. CASE RequestInjectHandler
      BY <1>2, <3>6, ReturnServed
    <3>7. CASE TimesOut
      BY <1>2, <3>7, TimesOutServed
    <3>8. CASE LateWrite
      BY <1>2, <3>8, LateWriteServed
    <3>9. CASE newPanicHandler
      BY <1>2, <3>9, PanicServed
    <3> QED BY <1>2, <3>1, <3>2, <3>3, <3>4, <3>5, <3>6, <3>7, <3>8, <3>9 DEF Serves
  <2>2. phase = "serving" /\ RouteInv
    BY <2>1 DEF PathInv, RouteInv
  <2>3. RouteInv'
    BY <1>2, <2>2, RoutesKept
  <2> QED BY <2>1, <2>3 DEF PathInv, Served
<1>3. CASE UNCHANGED pathVars
  <2>1. UNCHANGED <<srv, phase, looked, routes, bound, routing, loadErr, stage, handler, chain, body, taken, replied, out, buffer, late, cut, sentBefore, logged>>
    BY <1>3 DEF pathVars, routeVars, writeVars
  <2>2. RouteInv'
    BY <2>1 DEF PathInv, RouteInv, Capped
  <2>3. OutInv' /\ ReplyInv'
    BY <2>1 DEF PathInv, OutInv, ReplyInv, Agrees, Has, Helper
  <2>4. DoneInv' /\ CapInv'
    BY <2>1 DEF PathInv, DoneInv, CapInv, Capped, Has
  <2> QED BY <2>2, <2>3, <2>4 DEF PathInv
<1> QED BY <1>1, <1>2, <1>3 DEF PathNext

LEMMA StatusesReadBack ==
  ASSUME NEW c
  PROVE  StatusString(StatusUnmarshalJSON(StatusString(c))) = StatusString(c)
<1>1. /\ StatusUnmarshalJSON("success") = 200 /\ StatusUnmarshalJSON("fail") = 400 /\ StatusUnmarshalJSON("error") = 500
  BY DEF StatusUnmarshalJSON
<1>2. StatusString(200) = "success" /\ StatusString(400) = "fail" /\ StatusString(500) = "error"
  BY DEF StatusString
<1>3. StatusString(c) \in {"success", "fail", "error"}
  BY DEF StatusString
<1> QED BY <1>1, <1>2, <1>3

LEMMA PathSafe == ASSUME PathInv PROVE LogsTellWhatWasSent
<1>1. stage \in {"idle", "handling", "done", "aborted"} /\ (stage # "done" => logged = <<>> /\ Agrees(out) /\ late = FALSE /\ cut = FALSE)
  BY DEF PathInv, OutInv
<1>2. phase = "serving" \/ stage # "idle" => loadErr = "none"
  BY DEF PathInv, RouteInv
<1>3. \A t, u \in routing : t.method = u.method /\ t.path = u.path => t = u
  BY DEF PathInv, RouteInv
<1>4. srv.tee /\ ~cut => out.tee = out.bytes
  <2>1. CASE stage = "done"
    BY <2>1 DEF PathInv, DoneInv
  <2>2. CASE stage # "done"
    BY <1>1, <2>2 DEF Agrees
  <2> QED BY <2>1, <2>2
<1>5. Len(logged) = IF stage = "done" /\ Has("logger") THEN 1 ELSE 0
  <2>1. CASE stage = "done"
    BY <2>1 DEF PathInv, DoneInv
  <2>2. CASE stage # "done"
    BY <1>1, <2>2
  <2> QED BY <2>1, <2>2
<1>6. stage = "done" => logged = Entries(chain, [status |-> out.sent, size |-> out.bytes]) \/ sentBefore # 0
  BY DEF PathInv, DoneInv
<1>7. cut /\ sentBefore = 0 => out.sent = 500
  BY <1>1 DEF PathInv, DoneInv
<1>8. late => out.sent = 503 /\ out.bytes = 1
  BY <1>1 DEF PathInv, DoneInv
<1>9. stage = "done" /\ ~late /\ ~cut /\ replied \notin {0, ClientClosedRequest} => out.sent = replied
  BY DEF PathInv, DoneInv
<1>10. srv.maxBody > 0 => taken <= srv.maxBody
  BY DEF PathInv, CapInv
<1>11. \A c \in Codes : StatusString(StatusUnmarshalJSON(StatusString(c))) = StatusString(c)
  BY StatusesReadBack
<1> QED BY <1>2, <1>3, <1>4, <1>5, <1>6, <1>7, <1>8, <1>9, <1>10, <1>11, Zenon DEF LogsTellWhatWasSent

\* However a request of pkg/httpserver goes (a timeout or a panic between two writes included), its
\* log entry has the status and the size that went out, a tee saw every byte and no handler reads
\* past the cap; and the router has one handler for a method and a path, for any configurations,
\* lists of routes, bodies, status codes and numbers of writes.
THEOREM RequestsAreLogged == PathSpec => []LogsTellWhatWasSent
<1>1. PathInit => PathInv
  BY PathStart, ServerAssumption
<1>2. PathInv /\ [PathNext]_pathVars => PathInv'
  BY PathSteps, ServerAssumption
<1>3. PathInv => LogsTellWhatWasSent
  BY PathSafe
<1> QED
  BY <1>1, <1>2, <1>3, PTL DEF PathSpec

=============================================================================
