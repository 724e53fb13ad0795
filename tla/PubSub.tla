-------------------------------- MODULE PubSub --------------------------------
(***************************************************************************)
(* pkg/redis and pkg/valkey: keys with an expiry, and a subscription that  *)
(* is received from while the client is closed or loses its connection.    *)
(* The server and the client libraries are external: go-redis buffers      *)
(* messages and closes its channel with the PubSub; valkey-go calls back   *)
(* for each message until its context or the connection ends, and the      *)
(* goroutine of subscribe then closes the channel.                         *)
(***************************************************************************)
EXTENDS Integers, Sequences, FiniteSets

CONSTANTS
  Kinds,     \* the clients: "redis", "valkey"
  Receivers, \* goroutines that call Receive
  MaxMessages, \* bound on the messages published
  Expiries,  \* durations given to Set
  Millisecond, Second  \* in the unit of Expiries

ASSUME ExpiryAssumption ==
  Expiries \subseteq Int /\ Millisecond \in Nat \ {0} /\ Second \in Nat \ {0} /\ MaxMessages \in Nat

VARIABLES
  backend, subscribed,       \* the client: "redis" or "valkey", with a subscription or without
  stored, ttl, asked, found, \* a key: what it holds, the expiry it got and the one asked for, the last GetData's error
  conn,                      \* the connection: "up", "broken" or "closed"
  feed, published, offered,  \* the messages on their way, how many were published, the one the callback offers
  msgch, suberr, subctx,     \* the subscription: its channel, the error it ended with, its context
  closeFlag, closing, closeErr, closes, closeResults, \* Close: the flag, how far it is, its outcome, how often it closed, what its calls returned
  recv, recvctx, received,   \* the receivers, their contexts, and what they got, in the order they got it
  dropped, reason            \* history: messages dropped, and whether the reason of a loss was "set" when it was read, or "raced"

keyVars == <<stored, ttl, asked, found>>
flowVars == <<conn, feed, published, offered>>
endVars == <<msgch, suberr, subctx>>
closeVars == <<closeFlag, closing, closeErr, closes, closeResults>>
recvVars == <<recv, recvctx, received, reason>>
subVars == <<backend, subscribed, keyVars, flowVars, endVars, closeVars, recvVars, dropped>>

NoExpiry == 0

-----------------------------------------------------------------------------
(* Construction *)

\* An injected client needs no address; a socket's path has no port.
validAddr(o) == o.set /\ IF o.network = "unix" \/ (o.network = "" /\ o.addr = "path") THEN o.addr # "" ELSE o.addr \in {"host:port", ":port"}
validInitAddress(o) == o.set /\ o.addr = "host:port"

loadConfigOf(valid, o) ==
  IF ~o.injected /\ ~valid THEN "ErrInvalidOptions" ELSE IF "" \in o.channels THEN "ErrInvalidChannelName"
  ELSE IF ~o.encodes THEN "ErrNilEncodeFunc" ELSE IF ~o.decodes THEN "ErrNilDecodeFunc" ELSE ""

RedisLoadConfig(o) == loadConfigOf(validAddr(o), o)
ValkeyLoadConfig(o) == loadConfigOf(validInitAddress(o), o)

Options == [set : BOOLEAN, network : {"", "unix"}, addr : {"", "path", ":port", "host:port"}, injected : BOOLEAN,
            channels : SUBSET {"", "c"}, encodes : BOOLEAN, decodes : BOOLEAN]

-----------------------------------------------------------------------------
(* Keys *)

\* Mutant: every expiry is rounded down to milliseconds, so a short one becomes none.
ValkeySet_Truncates(exp) == IF exp <= 0 THEN NoExpiry ELSE (exp \div Millisecond) * Millisecond

\* EX counts seconds and PX milliseconds; less than one is one.
ValkeySet(exp) ==
  CASE exp <= 0 -> NoExpiry
    [] exp > 0 /\ exp < Millisecond -> Millisecond
    [] exp >= Millisecond /\ exp % Second = 0 -> (exp \div Second) * Second
    [] OTHER -> (exp \div Millisecond) * Millisecond

\* go-redis does the same with what Set passes on.
RedisSet(exp) ==
  IF exp <= 0 THEN NoExpiry ELSE IF exp < Millisecond THEN Millisecond ELSE (exp \div Millisecond) * Millisecond

-----------------------------------------------------------------------------
(* The client *)

Start(kind, subscribes) ==
  /\ backend = kind /\ subscribed = subscribes
  /\ stored = "none" /\ ttl = NoExpiry /\ asked = 0 /\ found = "nil"
  /\ conn = "up" /\ feed = <<>> /\ published = 0 /\ offered = 0
  /\ msgch = "open" /\ suberr = "unset" /\ subctx = "live"
  /\ closeFlag = FALSE /\ closing = "no" /\ closeErr = "nil" /\ closes = 0 /\ closeResults = {}
  /\ recv = [r \in Receivers |-> "idle"] /\ recvctx = [r \in Receivers |-> "live"] /\ received = <<>>
  /\ dropped = {} /\ reason = "never"

SubInit == \E kind \in Kinds, o \in Options :
  /\ (IF kind = "redis" THEN RedisLoadConfig(o) ELSE ValkeyLoadConfig(o)) = ""
  /\ Start(kind, o.channels # {})

Redis == backend = "redis"

\* Keys and subscriptions do not meet: the model has a client for each.
SetData == \E exp \in Expiries, good \in BOOLEAN :
  /\ ~subscribed /\ stored = "none" /\ asked = 0 /\ exp # 0
  /\ stored' = IF good THEN "value" ELSE "undecodable"
  /\ asked' = exp
  /\ ttl' = IF Redis THEN RedisSet(exp) ELSE ValkeySet(exp)
  /\ UNCHANGED <<backend, subscribed, found, flowVars, endVars, closeVars, recvVars, dropped>>
\* A missing key is told from one that cannot be decoded.
GetData ==
  /\ asked # 0 /\ ~subscribed
  /\ found' = IF stored = "none" THEN "ErrKeyNotFound" ELSE IF stored = "undecodable" THEN "undecodable" ELSE "nil"
  /\ UNCHANGED <<backend, subscribed, stored, ttl, asked, flowVars, endVars, closeVars, recvVars, dropped>>
Del ==
  /\ stored # "none"
  /\ stored' = "none" /\ ttl' = NoExpiry /\ found' = "nil"
  /\ UNCHANGED <<backend, subscribed, asked, flowVars, endVars, closeVars, recvVars, dropped>>

\* The server publishes; the connection may break.
Publish ==
  /\ subscribed /\ conn = "up" /\ published < MaxMessages
  /\ published' = published + 1 /\ feed' = Append(feed, published + 1)
  /\ UNCHANGED <<backend, subscribed, keyVars, conn, offered, endVars, closeVars, recvVars, dropped>>
Break ==
  /\ subscribed /\ conn = "up" /\ ~Redis
  /\ conn' = "broken"
  /\ UNCHANGED <<backend, subscribed, keyVars, feed, published, offered, endVars, closeVars, recvVars, dropped>>

\* The callback of subscribe offers one message at a time to whoever receives next, unless
\* the subscription is over: then it drops the message.
Callback ==
  /\ ~Redis /\ offered = 0 /\ feed # <<>> /\ msgch = "open" /\ suberr = "unset"
  /\ offered' = Head(feed) /\ feed' = Tail(feed)
  /\ UNCHANGED <<backend, subscribed, keyVars, conn, published, endVars, closeVars, recvVars, dropped>>
Drop ==
  /\ offered # 0 /\ subctx = "done"
  /\ offered' = 0 /\ dropped' = dropped \cup {offered}
  /\ UNCHANGED <<backend, subscribed, keyVars, conn, feed, published, endVars, closeVars, recvVars>>

\* Mutant: the channel is closed before the error is there to read.
subscribe_EarlyClose ==
  /\ ~Redis /\ offered = 0 /\ (subctx = "done" \/ conn = "broken") /\ msgch = "open"
  /\ msgch' = "closed"
  /\ UNCHANGED <<backend, subscribed, keyVars, flowVars, suberr, subctx, closeVars, recvVars, dropped>>

\* The goroutine of subscribe: Receive returns, its error is kept, and the channel is closed.
subscribe ==
  /\ ~Redis /\ msgch = "open"
  /\ \/ /\ offered = 0 /\ (subctx = "done" \/ conn = "broken") /\ suberr = "unset"
        /\ suberr' = IF subctx = "done" THEN "cancelled" ELSE "lost"
        /\ UNCHANGED msgch
     \/ /\ suberr # "unset"
        /\ msgch' = "closed"
        /\ UNCHANGED suberr
  /\ UNCHANGED <<backend, subscribed, keyVars, flowVars, subctx, closeVars, recvVars, dropped>>

\* A receiver changes its place, and nothing else happens.
RecvMoves(r, place) ==
  /\ recv' = [recv EXCEPT ![r] = place]
  /\ UNCHANGED <<backend, subscribed, keyVars, conn, published, endVars, closeVars, recvctx, dropped>>

\* Receive: no subscription is an error at once.
Receive == \E r \in Receivers :
  /\ recv[r] = "idle"
  /\ RecvMoves(r, IF subscribed THEN "waiting" ELSE "ErrNoSubscription")
  /\ UNCHANGED <<feed, offered, received, reason>>

\* A case of the select that is ready.
ReceiveDone == \E r \in Receivers :
  /\ recv[r] = "waiting" /\ recvctx[r] = "done"
  /\ RecvMoves(r, "terminated")
  /\ UNCHANGED <<feed, offered, received, reason>>
ReceiveMessage == \E r \in Receivers :
  /\ recv[r] = "waiting"
  /\ RecvMoves(r, "message")
  /\ \/ ~Redis /\ offered # 0 /\ received' = Append(received, offered) /\ offered' = 0 /\ UNCHANGED feed
     \/ Redis /\ feed # <<>> /\ received' = Append(received, Head(feed)) /\ feed' = Tail(feed) /\ UNCHANGED offered
  /\ UNCHANGED reason

\* The channel is closed: after Close that is all there is to say, or else the error says why.
ReceiveClosed == \E r \in Receivers :
  /\ recv[r] = "waiting" /\ msgch = "closed" /\ (Redis => feed = <<>>)
  /\ RecvMoves(r, IF Redis \/ closeFlag \/ suberr = "unset" THEN "ErrSubscriptionClosed" ELSE suberr)
  /\ reason' = IF Redis \/ closeFlag THEN reason ELSE IF suberr = "unset" THEN "raced" ELSE "set"
  /\ UNCHANGED <<feed, offered, received>>

\* The caller is done with an answer, or its context ends.
Again == \E r \in Receivers :
  /\ recv[r] = "message"
  /\ RecvMoves(r, "idle")
  /\ UNCHANGED <<feed, offered, received, reason>>
CancelReceive == \E r \in Receivers :
  /\ recvctx[r] = "live" /\ recv[r] = "waiting"
  /\ recvctx' = [recvctx EXCEPT ![r] = "done"]
  /\ UNCHANGED <<backend, subscribed, keyVars, flowVars, endVars, closeVars, recv, received, reason, dropped>>

\* valkey's Close, once: the flag, then the subscription, then the client.
ValkeyClose ==
  /\ ~Redis
  /\ \/ /\ closing = "no"
        /\ closing' = "cancel" /\ closeFlag' = TRUE
        /\ UNCHANGED <<subctx, conn, closes>>
     \/ /\ closing = "cancel"
        /\ closing' = "client" /\ subctx' = IF subscribed THEN "done" ELSE subctx
        /\ UNCHANGED <<closeFlag, conn, closes>>
     \/ /\ closing = "client"
        /\ closing' = "done" /\ conn' = "closed" /\ closes' = closes + 1
        /\ UNCHANGED <<closeFlag, subctx>>
  /\ UNCHANGED <<backend, subscribed, keyVars, feed, published, offered, msgch, suberr, closeErr, closeResults, recvVars, dropped>>

\* redis's Close, once: the client is closed even if the PubSub could not be, and the outcome
\* is what every call returns.
RedisClose == \E pubsub, client \in BOOLEAN :
  /\ Redis
  /\ \/ /\ closing = "no"
        /\ closing' = "done" /\ conn' = "closed" /\ closes' = closes + 1
        /\ msgch' = IF subscribed THEN "closed" ELSE msgch
        /\ closeErr' = IF (subscribed => pubsub) /\ client THEN "nil" ELSE "failed"
        /\ UNCHANGED closeResults
     \/ /\ closing = "done"
        /\ closeResults' = closeResults \cup {closeErr}
        /\ UNCHANGED <<closing, conn, closes, msgch, closeErr>>
  /\ UNCHANGED <<backend, subscribed, keyVars, feed, published, offered, suberr, subctx, closeFlag, recvVars, dropped>>

SubNext ==
  \/ SetData \/ GetData \/ Del \/ Publish \/ Break \/ Callback \/ Drop \/ subscribe \/ Receive \/ ReceiveDone \/ ReceiveMessage
  \/ ReceiveClosed \/ Again \/ CancelReceive \/ ValkeyClose \/ RedisClose

SubSpec == SubInit /\ [][SubNext]_subVars

-----------------------------------------------------------------------------
(* Properties *)

Seen(s) == {s[i] : i \in DOMAIN s}

\* Every message goes to one receiver, and the receivers together get them in the order they
\* came, until the subscription is closed; the reason of a loss is read after it was written, a
\* closed client never passes its own cancellation off as one. A key set to expire does expire,
\* and not later than asked unless that is under a millisecond; a client is closed once, and
\* every Close has the same result.
SubscriptionsHold ==
  /\ \A i, j \in DOMAIN received : i < j => received[i] < received[j]
  /\ Seen(received) \cap dropped = {}
  /\ dropped # {} => subctx = "done"
  /\ subctx = "live" /\ ~Redis => Seen(received) \cup Seen(feed) \cup ({offered} \ {0}) = 1..published
  /\ reason # "raced"
  /\ \A r \in Receivers : recv[r] # "cancelled"
  /\ (asked > 0 /\ stored # "none") => (ttl # NoExpiry /\ (ttl <= asked \/ ttl = Millisecond))
  /\ found = "undecodable" => stored = "undecodable"
  /\ closes <= 1 /\ Cardinality(closeResults) <= 1

=============================================================================
