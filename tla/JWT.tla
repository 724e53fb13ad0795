----------------------------------- MODULE JWT -----------------------------------
(***************************************************************************)
(* pkg/jwt: tokens issued at login, presented, renewed and verified while  *)
(* time passes and the signing key is rotated.  Time is in ticks, of which *)
(* PerSecond make a second: a token carries whole seconds.                 *)
(***************************************************************************)
EXTENDS Integers, SequencesExt

CONSTANTS
  PerSecond,   \* ticks of a second
  Users,
  Configs,     \* what New is given, by deployment; see New
  MaxNow,      \* bound: the last tick
  MaxTokens    \* bound: tokens in circulation

VARIABLE session  \* the clock, the deployment, the tokens in circulation and the last answer

\* A second is at least a tick, the deployments are a sequence, and what they configure in
\* ticks and bytes is numbers.
ConstantsOK ==
  /\ PerSecond \in Nat \ {0}
  /\ MaxNow \in Nat
  /\ \A u \in Users : u[2] \in Int
  /\ Configs \in Seq(Range(Configs)) /\ Len(Configs) > 0
  /\ \A c \in Range(Configs) :
       /\ c.expirationTime \in Int /\ c.renewTime \in Int /\ c.maxSessionLifetime \in Int
       /\ c.clockSkewLeeway \in Int /\ c.maxTokenBytes \in Int
       /\ c.previousKeys \in Seq(Range(c.previousKeys))

ASSUME ConstantsAssumption == ConstantsOK

Nil == -1
Keys == UNION {{Configs[i].key} \cup Range(Configs[i].previousKeys) : i \in DOMAIN Configs}
Seconds(t) == (t \div PerSecond) * PerSecond

hashSize(alg) == CASE alg = "HS256" -> 32 [] alg = "HS384" -> 48 [] alg = "HS512" -> 64 [] OTHER -> 0

-----------------------------------------------------------------------------
(* New.  keyLen gives the size of each key of the configuration. *)

\* Every key that signs or verifies is as long as the hash.
validate(c) ==
  /\ c.keyLen[c.key] > 0 /\ c.verifyFn /\ hashSize(c.alg) > 0
  /\ c.expirationTime >= PerSecond
  /\ c.renewTime > 0 /\ c.maxBodyBytes > 0 /\ c.maxTokenBytes > 0
  /\ c.maxSessionLifetime = 0 \/ c.maxSessionLifetime >= PerSecond
  /\ c.clockSkewLeeway >= 0
  /\ c.keyLen[c.key] >= hashSize(c.alg)
  /\ \A i \in DOMAIN c.previousKeys : c.keyLen[c.previousKeys[i]] >= hashSize(c.alg)

\* The current key, then the previous ones.
verifyKeys(c) == <<c.key>> \o c.previousKeys

-----------------------------------------------------------------------------
(* claims.go *)

\* Mutant: a renewed token may outlive the session.
newClaims_Uncapped(c, user, authTime, now) ==
  [user |-> user, exp |-> now + c.expirationTime, iat |-> now, nbf |-> now,
   auth |-> IF authTime = Nil THEN now ELSE authTime, iss |-> c.issuer, aud |-> c.audience]

newClaims(c, user, authTime, now) ==
  LET auth == IF authTime = Nil THEN now ELSE authTime
      exp  == now + c.expirationTime
      hard == auth + c.maxSessionLifetime
  IN  [user |-> user, exp |-> IF c.maxSessionLifetime > 0 /\ hard < exp THEN hard ELSE exp,
       iat |-> now, nbf |-> now, auth |-> auth, iss |-> c.issuer, aud |-> c.audience]

\* NumericDate's MarshalJSON: whole seconds.
MarshalClaims(claims) ==
  [claims EXCEPT !.exp = Seconds(@), !.iat = Seconds(@), !.nbf = Seconds(@), !.auth = IF @ = Nil THEN Nil ELSE Seconds(@)]

-----------------------------------------------------------------------------
(* token.go.  A token is its header, what signed it, its claims and its size. *)

computeSignature(alg, key, header, claims) == [alg |-> alg, key |-> key, header |-> header, claims |-> claims]

PlainHeader(alg) == [alg |-> alg, crit |-> FALSE, dup |-> FALSE, json |-> TRUE]

TokenSize(claims) == claims.user[2]

signToken(c, claims) ==
  LET wire == MarshalClaims(claims)
      token == [segments |-> 3, header |-> PlainHeader(c.alg), claims |-> wire,
                sig |-> computeSignature(c.alg, c.key, PlainHeader(c.alg), wire), size |-> TokenSize(wire)]
  IN  IF token.size > c.maxTokenBytes THEN [ok |-> FALSE] ELSE [ok |-> TRUE, token |-> token]

\* The header is one object with no member twice.
decodeJOSEHeader(h) == IF ~h.json THEN "malformed" ELSE IF h.dup THEN "duplicate" ELSE "none"

checkHeader(c, h) ==
  IF decodeJOSEHeader(h) # "none" THEN decodeJOSEHeader(h)
  ELSE IF h.crit THEN "crit" ELSE IF h.alg # c.alg THEN "method" ELSE "none"

verifySignature(c, t) ==
  \E i \in DOMAIN verifyKeys(c) : t.sig = computeSignature(c.alg, verifyKeys(c)[i], t.header, t.claims)

validateClaims(c, claims, now) ==
  IF claims.exp = Nil THEN "no_expiration"
  ELSE IF now >= claims.exp + c.clockSkewLeeway THEN "expired"
  ELSE IF claims.nbf # Nil /\ now + c.clockSkewLeeway < claims.nbf THEN "not_yet"
  ELSE IF c.issuer # "" /\ claims.iss # c.issuer THEN "issuer"
  ELSE IF ~(c.audience \subseteq claims.aud) THEN "audience" ELSE "none"

parseToken(c, t, now) ==
  IF t.size > c.maxTokenBytes THEN "too_large"
  ELSE IF t.segments # 3 THEN "malformed"
  ELSE IF checkHeader(c, t.header) # "none" THEN checkHeader(c, t.header)
  ELSE IF ~verifySignature(c, t) THEN "signature"
  ELSE validateClaims(c, t.claims, now)

\* Would the token be refused as expired at once?
expiredOnIssue(c, exp, now) == exp # Nil /\ now >= Seconds(exp) + c.clockSkewLeeway

-----------------------------------------------------------------------------
(* handlers.go *)

\* The header as it came: absent, another scheme or nothing after it, or a token.
checkToken(c, auth, now) ==
  IF auth.kind = "absent" THEN "missing_header"
  ELSE IF auth.kind = "other" THEN "missing_token"
  ELSE parseToken(c, auth.token, now)

Answer(status, challenge) == [status |-> status, challenge |-> challenge, issued |-> {}]
writeUnauthorized(err) ==
  Answer(401, IF err \in {"missing_header", "missing_token"} THEN "Bearer" ELSE "invalid_token")

sendTokenResponse(c, claims) ==
  LET s == signToken(c, claims)
  IN  IF ~s.ok THEN Answer(500, "none") ELSE [Answer(200, "none") EXCEPT !.issued = {s.token}]

\* A body that is too long is told apart from one that is wrong or has more after it.
LoginHandler(c, body, verdict, user, now) ==
  IF body = "too_large" THEN Answer(413, "none")
  ELSE IF body \in {"invalid", "trailing"} THEN Answer(400, "none")
  ELSE IF verdict = "error" THEN Answer(500, "none")
  ELSE IF verdict = "no" THEN Answer(401, "none")
  ELSE sendTokenResponse(c, newClaims(c, user, Nil, now))

RenewHandler(c, auth, now) ==
  LET err    == checkToken(c, auth, now)
      claims == auth.token.claims
      start  == IF claims.auth # Nil THEN claims.auth ELSE claims.iat
      renewed == newClaims(c, claims.user, start, now)
  IN  IF err # "none" THEN writeUnauthorized(err)
      ELSE IF claims.exp - now > c.renewTime THEN Answer(400, "none")
      ELSE IF c.maxSessionLifetime > 0 /\ (start = Nil \/ now - start > c.maxSessionLifetime)
           THEN writeUnauthorized("session")
      ELSE IF expiredOnIssue(c, renewed.exp, now) THEN writeUnauthorized("session")
      ELSE sendTokenResponse(c, renewed)

\* IsAuthorized, and Middleware before the next handler.
IsAuthorized(c, auth, now) ==
  LET err == checkToken(c, auth, now) IN IF err = "none" THEN Answer(200, "none") ELSE writeUnauthorized(err)

-----------------------------------------------------------------------------

Conf == Configs[session.deployed]

\* The answer a to a request, with the logins that led to a token.
Reply(op, auth, a, logins) ==
  [session EXCEPT !.last = [op |-> op, auth |-> auth, status |-> a.status, challenge |-> a.challenge, issued |-> a.issued],
             !.tokens = @ \cup a.issued, !.logins = @ \cup logins]

NoAuth == [kind |-> "absent"]

Quiet == [op |-> "none", auth |-> NoAuth, status |-> 0, challenge |-> "none", issued |-> {}]

Init ==
  /\ validate(Configs[1])
  /\ session = [now |-> 0, deployed |-> 1, tokens |-> {}, logins |-> {}, last |-> Quiet]

Tick == session.now < MaxNow /\ session' = [session EXCEPT !.now = @ + 1]

\* The next deployment; one that New refuses stays undeployed.
Deploy ==
  /\ session.deployed < Len(Configs)
  /\ validate(Configs[session.deployed + 1])
  /\ session' = [session EXCEPT !.deployed = @ + 1]

Room == Cardinality(session.tokens) < MaxTokens

Login == \E user \in Users, body \in {"ok", "too_large", "invalid", "trailing"}, verdict \in {"yes", "no", "error"} :
  /\ Room
  /\ LET a == LoginHandler(Conf, body, verdict, user, session.now)
     IN  session' = Reply("login", NoAuth, a, IF a.issued # {} THEN {<<user, session.now>>} ELSE {})

\* IssueToken: the caller has verified the user.
IssueToken == \E user \in Users :
  /\ Room
  /\ LET s == signToken(Conf, newClaims(Conf, user, Nil, session.now))
     IN  s.ok /\ session' = Reply("issue", NoAuth, [Answer(200, "none") EXCEPT !.issued = {s.token}], {<<user, session.now>>})

\* A token of another issuer that has the key: no auth_time, and other claims may be missing.
ForeignToken == \E user \in Users, k \in Keys, exp, nbf, iat \in {Nil, session.now} :
  LET claims == [user |-> user, exp |-> IF exp = Nil THEN Nil ELSE Seconds(exp) + 2 * PerSecond,
                 iat |-> IF iat = Nil THEN Nil ELSE Seconds(iat), nbf |-> IF nbf = Nil THEN Nil ELSE Seconds(nbf) + PerSecond,
                 auth |-> Nil, iss |-> Conf.issuer, aud |-> Conf.audience]
  IN  /\ session.tokens = {}
      /\ session' = [session EXCEPT !.tokens = @ \cup {[segments |-> 3, header |-> PlainHeader(Conf.alg), claims |-> claims,
                              sig |-> computeSignature(Conf.alg, k, PlainHeader(Conf.alg), claims), size |-> 1]},
                          !.logins = @ \cup {<<user, session.now>>}]

\* What reaches a handler: a token as it was issued, or one damaged on the way.
Damaged(t) ==
  {[t EXCEPT !.segments = 2], [t EXCEPT !.header.alg = "none"], [t EXCEPT !.header.crit = TRUE],
   [t EXCEPT !.header.dup = TRUE], [t EXCEPT !.header.json = FALSE], [t EXCEPT !.claims.exp = MaxNow],
   [t EXCEPT !.size = Conf.maxTokenBytes + 1]}
Presented == {[kind |-> "token", token |-> t] : t \in session.tokens \cup UNION {Damaged(x) : x \in session.tokens}}
             \cup {[kind |-> "absent"], [kind |-> "other"]}

Renew == \E auth \in Presented : Room /\ session' = Reply("renew", auth, RenewHandler(Conf, auth, session.now), {})

Authorize == \E auth \in Presented : session' = Reply("authorize", auth, IsAuthorized(Conf, auth, session.now), {})

Answered == session' = [session EXCEPT !.last = Quiet]

Next ==
  \/ session.last.op = "none" /\ (Tick \/ Deploy \/ Login \/ IssueToken \/ ForeignToken \/ Renew \/ Authorize)
  \/ session.last.op # "none" /\ Answered

Spec == Init /\ [][Next]_session

-----------------------------------------------------------------------------
(* Properties *)

Accepted == session.last.op \in {"authorize", "renew"} /\ session.last.status = 200
Token == session.last.auth.token
\* The deployments so far; did they all bound a session?
Deployed == {Configs[i] : i \in 1..session.deployed}
Bounded == \A c \in Deployed : c.maxSessionLifetime > 0

\* Only a token that is in circulation as issued is ever accepted, for a user who logged in no
\* longer ago than a session may last, as some deployment has it; a token handed out is good at once; and one that is
\* still good is not refused, whatever was deployed since, while its key is known.
SessionsHold ==
  LET c == Conf
      intact == session.last.auth.kind = "token" /\ Token \in session.tokens
  IN  /\ Accepted => intact /\ \E l \in session.logins : l[1] = Token.claims.user
      /\ Accepted /\ Token.claims.auth # Nil /\ Bounded =>
           \E l \in session.logins, d \in Deployed :
             l[1] = Token.claims.user /\ session.now < l[2] + d.maxSessionLifetime + c.clockSkewLeeway
      /\ \A t \in session.last.issued : parseToken(c, t, session.now) = "none"
      /\ session.last.op = "authorize" /\ intact /\ Token.claims.auth # Nil /\ Token.header.alg = c.alg
           /\ Token.sig.key \in Range(verifyKeys(c)) /\ session.now < Token.claims.exp
           /\ c.issuer \in {"", Token.claims.iss} /\ c.audience \subseteq Token.claims.aud
           /\ Token.size <= c.maxTokenBytes
         => session.last.status = 200

=============================================================================
