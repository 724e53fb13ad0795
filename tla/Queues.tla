-------------------------------- MODULE Queues --------------------------------
(***************************************************************************)
(* pkg/kafka and pkg/sqs: a producer, a broker that outlives its clients   *)
(* and a consumer that crashes and starts again; and pkg/s3's listings,    *)
(* which a server hands out page by page.                                  *)
(* A message is a number; those in Bad cannot be decoded.  A send may      *)
(* fail before or after the broker has the message; the caller does not    *)
(* know which and sends again.                                             *)
(***************************************************************************)
EXTENDS Integers, SequencesExt, FiniteSetsExt

CONSTANTS
  Clients,   \* the configurations: see ClientType
  Messages,  \* the messages to send, in order
  Bad,       \* those among them that cannot be decoded
  MaxSends,  \* bound on the attempts to send
  MaxCrashes \* bound on the crashes of the consumer

VARIABLES
  client,                      \* the configuration
  log, sent, acked, tries,     \* what the broker has; the producer: messages done with, acknowledged, attempts
  committed, pos, readerClosed, \* a Kafka reader: the group's offset (0 if it has none) and its own
  joined, skipped,             \* history: where the last reader of a group without an offset began, and the
                               \* messages the caller got an error for
  inflight, deleted,           \* SQS: every handle given out, and what was deleted
  held, handle, processed, crashes, outcome, \* the consumer: its message and handle, what was processed, its lives, the last answer
  nextToken, list, listed          \* a listing: the token to ask with, the keys so far, is it complete?

producerVars == <<log, sent, acked, tries>>
readerVars == <<committed, pos, readerClosed, joined, skipped>>
sqsVars == <<inflight, deleted>>
consumerVars == <<held, handle, processed, crashes, outcome>>
listVars == <<nextToken, list, listed>>
queueVars == <<client, producerVars, readerVars, sqsVars, consumerVars, listVars>>

ClientType == [kind : {"kafka", "sqs", "s3"}, group : BOOLEAN, startOffset : {"first", "last"}, fetch : BOOLEAN, dedup : BOOLEAN]

ASSUME QueueAssumption == Clients \subseteq ClientType /\ Messages \in Seq(Nat) /\ MaxSends \in Nat /\ MaxCrashes \in Nat

\* Limits in the code's units are 2^31 ms, 20 s and 43200 s.
MaxSessionTimeout == 2
MaxWait == 2
MaxVisibility == 2
Brokers == <<"b1", "b2">>

-----------------------------------------------------------------------------
(* Construction: the first thing wrong, "" if nothing is *)

\* One with a space in it stands for any blank string.
validateBrokers(brokers) == IF brokers = <<>> \/ \E i \in DOMAIN brokers : brokers[i] \in {"", " "} THEN "ErrInvalidOptions" ELSE ""
validateTopic(topic) == IF topic = "" THEN "ErrInvalidOptions" ELSE ""
validateSessionTimeout(t) == IF t <= 0 \/ t >= MaxSessionTimeout THEN "ErrInvalidOptions" ELSE ""
FirstOf(errs) == LET bad == SelectSeq(errs, LAMBDA e : e # "") IN IF bad = <<>> THEN "" ELSE Head(bad)

validateConsumer(c, brokers, topic) ==
  FirstOf(<<IF c.codec = "nil" THEN "ErrNilDecodeFunc" ELSE "", validateBrokers(brokers), validateTopic(topic),
            validateSessionTimeout(c.sessionTimeout)>>)

validateProducer(c, brokers, topic) ==
  FirstOf(<<IF c.codec = "nil" THEN "ErrNilEncodeFunc" ELSE "", validateBrokers(brokers), validateTopic(topic),
            IF c.batchSize < 0 \/ c.batchTimeout <= 0 \/ c.requiredAcks \notin {-1, 0, 1} THEN "ErrInvalidOptions" ELSE "">>)

validateQueueURL(url) == IF url \in {"unparsable", "no host"} THEN "ErrInvalidQueueURL" ELSE ""
regexFifoID(id) == id \notin {"", "two words"}
loadConfig(c) ==
  FirstOf(<<IF c.encode = "nil" THEN "ErrNilEncodeFunc" ELSE "", IF c.decode = "nil" THEN "ErrNilDecodeFunc" ELSE "",
            IF c.wait \notin 0..MaxWait THEN "ErrInvalidWaitTime" ELSE "",
            IF c.visibility \notin 0..MaxVisibility THEN "ErrInvalidVisibilityTimeout" ELSE "">>)

\* A group belongs to a FIFO queue, and every FIFO queue needs one.
newSQS(url, group, c) ==
  FirstOf(<<validateQueueURL(url), IF url = "fifo" /\ ~regexFifoID(group) THEN "ErrMissingMessageGroupID" ELSE "",
            IF url # "fifo" /\ group # "" THEN "ErrUnexpectedMessageGroupID" ELSE "", loadConfig(c)>>)

\* Only a FIFO queue takes an identifier.
SendWithDeduplicationID(fifo, id) == IF ~fifo THEN "ErrDedupIDNotAllowed" ELSE IF ~regexFifoID(id) THEN "ErrInvalidDedupID" ELSE ""

KafkaParams == [brokers : {<<>>, <<" ">>, Brokers}, topic : {"", "t"}, codec : {"nil", "fn"}, sessionTimeout : 0..MaxSessionTimeout,
                batchSize : {-1, 0}, batchTimeout : {0, 1}, requiredAcks : -1..2]
SQSParams == [url : {"unparsable", "no host", "standard", "fifo"}, group : {"", "two words", "g"}, encode : {"nil", "fn"},
              decode : {"nil", "fn"}, wait : -1..MaxWait + 1, visibility : -1..MaxVisibility + 1]

\* Some parameters are accepted; a deduplicating client needs a FIFO queue.
Constructed(c) ==
  CASE c.kind = "kafka" -> \E p \in KafkaParams : validateConsumer(p, p.brokers, p.topic) = "" /\ validateProducer(p, p.brokers, p.topic) = ""
    [] c.kind = "sqs" -> \E p \in SQSParams : /\ newSQS(p.url, p.group, p) = ""
                                             /\ c.dedup => SendWithDeduplicationID(p.url = "fifo", "id") = ""
    [] OTHER -> TRUE

-----------------------------------------------------------------------------
(* State *)

QueueIdle(c) ==
  /\ client = c
  /\ log = <<>> /\ sent = 0 /\ acked = {} /\ tries = 0
  /\ committed = 0 /\ pos = 0 /\ readerClosed = FALSE /\ joined = 0 /\ skipped = {}
  /\ inflight = {} /\ deleted = {}
  /\ held = 0 /\ handle = 0 /\ processed = <<>> /\ crashes = 0 /\ outcome = "new"
  /\ nextToken = 0 /\ list = <<>> /\ listed = FALSE

QueueInit == \E c \in Clients : Constructed(c) /\ QueueIdle(c)

Kafka == client.kind = "kafka"
SQS == client.kind = "sqs"
S3 == client.kind = "s3"
Current == Messages[sent + 1]
Offsets == DOMAIN log

-----------------------------------------------------------------------------
(* Producers *)

\* What the broker makes of a message it gets: with a deduplication identifier, one it has
\* already is accepted and dropped.
Delivered(m) == IF client.dedup /\ m \in ToSet(log) THEN log ELSE Append(log, m)

\* SendData: encoded, then sent; an error leaves the caller with the message.
Send == \E arrives, acks \in BOOLEAN :
  /\ ~S3 /\ sent < Len(Messages) /\ tries < MaxSends
  /\ acks => arrives
  /\ tries' = tries + 1
  /\ log' = IF arrives THEN Delivered(Current) ELSE log
  /\ sent' = IF acks THEN sent + 1 ELSE sent
  /\ acked' = IF acks THEN acked \cup {Current} ELSE acked
  /\ UNCHANGED <<client, readerVars, sqsVars, consumerVars, listVars>>

\* The caller gives up on a message.
GiveUp ==
  /\ ~S3 /\ sent < Len(Messages) /\ tries > 0
  /\ sent' = sent + 1
  /\ UNCHANGED <<client, log, acked, tries, readerVars, sqsVars, consumerVars, listVars>>

-----------------------------------------------------------------------------
(* Kafka consumers *)

Decodes(m) == m \notin Bad

\* A reader that may read, of a client that commits by itself, or by CommitMessages.
Reads(fetches) == Kafka /\ client.fetch = fetches /\ ~readerClosed /\ held = 0 /\ pos < Len(log)

\* Receive: reading a message commits it in a group, before the caller has it.
KafkaReceive(commits) ==
  /\ pos' = pos + 1
  /\ committed' = IF client.group /\ commits THEN pos + 1 ELSE committed
  /\ UNCHANGED <<client, producerVars, readerClosed, joined, sqsVars, handle, processed, crashes, listVars>>

\* ReceiveData: a message that cannot be decoded is gone all the same, and so is one whose commit
\* fails, with or without effect: the reader has moved on and the caller has the error.
ReceiveData == \E read, commits \in BOOLEAN :
  /\ Reads(FALSE)
  /\ read => commits
  /\ ~read => client.group
  /\ KafkaReceive(commits)
  /\ IF read /\ Decodes(log[pos + 1]) THEN held' = pos + 1 /\ outcome' = "ok" /\ UNCHANGED skipped
     ELSE held' = 0 /\ outcome' = (IF read THEN "undecodable" ELSE "unread") /\ skipped' = skipped \cup {pos + 1}

\* Mutant: the message is read as Receive reads it.
FetchMessage_Reads ==
  /\ Reads(TRUE)
  /\ KafkaReceive(TRUE)
  /\ held' = pos + 1 /\ outcome' = "ok" /\ UNCHANGED skipped

FetchMessage ==
  /\ Reads(TRUE)
  /\ pos' = pos + 1 /\ held' = pos + 1 /\ outcome' = "ok"
  /\ UNCHANGED <<client, producerVars, committed, readerClosed, joined, skipped, sqsVars, handle, processed, crashes, listVars>>

\* The work of the consumer's present life on the message it holds.
Work == [offset |-> held, handle |-> handle, life |-> crashes]

\* The caller has done its work with the message it holds.
Process ==
  /\ held # 0 /\ \A i \in DOMAIN processed : processed[i] # Work
  /\ processed' = Append(processed, Work)
  /\ UNCHANGED <<client, producerVars, readerVars, sqsVars, held, handle, crashes, outcome, listVars>>

Done == processed # <<>> /\ Last(processed) = Work

\* The caller of FetchMessage commits what it processed; without a group that is an error.
CommitMessages == \E fails \in BOOLEAN :
  /\ Kafka /\ client.fetch /\ held # 0 /\ Done
  /\ IF fails \/ ~client.group THEN outcome' = "uncommitted" /\ UNCHANGED committed
     ELSE outcome' = "ok" /\ committed' = IF held > committed THEN held ELSE committed
  /\ held' = 0
  /\ UNCHANGED <<client, producerVars, pos, readerClosed, joined, skipped, sqsVars, handle, processed, crashes, listVars>>

\* The caller of Receive moves on.
Release ==
  /\ Kafka /\ ~client.fetch /\ held # 0 /\ Done
  /\ held' = 0
  /\ UNCHANGED <<client, producerVars, readerVars, sqsVars, handle, processed, crashes, outcome, listVars>>

\* Reading ends with the reader: io.EOF is reported as ErrConsumerClosed.
Close ==
  /\ Kafka /\ ~readerClosed
  /\ readerClosed' = TRUE
  /\ UNCHANGED <<client, producerVars, committed, pos, joined, skipped, sqsVars, consumerVars, listVars>>
Answers(answer) ==
  /\ outcome' = answer
  /\ UNCHANGED <<client, producerVars, readerVars, sqsVars, held, handle, processed, crashes, listVars>>
ReadAfterClose == Kafka /\ readerClosed /\ outcome # "ErrConsumerClosed" /\ Answers("ErrConsumerClosed")

\* Receive or FetchMessage ends with its context, or the broker fails: nothing was read.
ReadFails == Kafka /\ ~readerClosed /\ held = 0 /\ outcome # "unread" /\ Answers("unread")

\* One broker that answers is enough.
healthCheck == \E up \in SUBSET ToSet(Brokers) :
  LET asked == {i \in DOMAIN Brokers : \A j \in 1..(i - 1) : Brokers[j] \notin up}
  IN  /\ Kafka /\ ~readerClosed /\ sent = 0 /\ outcome = "new"
      /\ Answers(IF \E i \in asked : Brokers[i] \in up THEN "healthy" ELSE "unreachable")

\* Where a reader begins: at what its group has committed; without a group at the first message,
\* and with a group that has committed nothing at the first or, by default, after the last one.
startOffset ==
  IF ~client.group \/ client.startOffset = "first" \/ committed > 0 THEN committed ELSE Len(log)

\* The consumer dies, and another one starts.
NewConsumer ==
  /\ ~S3 /\ crashes < MaxCrashes
  /\ crashes' = crashes + 1 /\ held' = 0 /\ handle' = 0 /\ readerClosed' = FALSE /\ pos' = startOffset /\ outcome' = "new"
  /\ joined' = IF committed = 0 THEN startOffset ELSE joined
  /\ UNCHANGED <<client, producerVars, committed, skipped, sqsVars, processed, listVars>>

-----------------------------------------------------------------------------
(* SQS consumers *)

\* The messages that are neither deleted nor hidden.
Visible == {o \in Offsets : o \notin deleted /\ \A f \in inflight : f.offset = o => ~f.hidden}

\* One of them comes with a handle of its own; none is the empty handle and no error. One that
\* cannot be decoded comes with its handle too.
SQSReceive ==
  /\ SQS /\ held = 0
  /\ \/ /\ outcome # "none"
        /\ handle' = 0 /\ outcome' = "none"
        /\ UNCHANGED <<inflight, held>>
     \/ \E o \in Visible :
          LET h == Cardinality(inflight) + 1
          IN  /\ h <= MaxSends + MaxCrashes
              /\ inflight' = inflight \cup {[offset |-> o, handle |-> h, hidden |-> TRUE]}
              /\ held' = o /\ handle' = h
              /\ outcome' = IF Decodes(log[o]) THEN "ok" ELSE "undecodable"
  /\ UNCHANGED <<client, producerVars, readerVars, deleted, processed, crashes, listVars>>

\* The visibility timeout passes, whoever holds the message.
Reappear == \E f \in inflight :
  /\ SQS /\ f.hidden
  /\ inflight' = (inflight \ {f}) \cup {[f EXCEPT !.hidden = FALSE]}
  /\ UNCHANGED <<client, producerVars, readerVars, deleted, consumerVars, listVars>>

\* The empty handle is nothing to delete.
SQSDelete == \E fails \in BOOLEAN :
  /\ SQS /\ (held # 0 => Done \/ outcome = "undecodable") /\ outcome # "deleted"
  /\ held' = 0 /\ handle' = 0
  /\ outcome' = IF fails /\ handle # 0 THEN "undeleted" ELSE "deleted"
  /\ deleted' = IF handle = 0 \/ fails THEN deleted ELSE deleted \cup {f.offset : f \in {g \in inflight : g.handle = handle}}
  /\ UNCHANGED <<client, producerVars, readerVars, inflight, processed, crashes, listVars>>

-----------------------------------------------------------------------------
(* S3 listings: pages of one key; a token is the last key of a page *)

KeyCount == Len(Messages)

\* A page is the last one without the flag or a token, or with the token it was asked by.
nextContinuationToken(page, current) ==
  IF ~page.truncated \/ page.token = 0 \/ page.token = current THEN 0 ELSE page.token

appendObjects(objects, page) == objects \o page.keys

\* The page after a token; the last has a token or none, and a server may repeat a token.
Pages(after) ==
  LET more == after + 1 < KeyCount
  IN  {[keys |-> IF after < KeyCount THEN <<after + 1>> ELSE <<>>, truncated |-> more, token |-> t] :
         t \in IF more THEN {after + 1} ELSE {0, after + 1}}
      \cup (IF after = 0 THEN {} ELSE {[keys |-> <<>>, truncated |-> TRUE, token |-> after]})

ListObjects == \E page \in Pages(nextToken) :
  /\ S3 /\ ~listed
  /\ list' = appendObjects(list, page)
  /\ nextToken' = nextContinuationToken(page, nextToken)
  /\ listed' = (nextToken' = 0)
  /\ outcome' = IF page.keys = <<>> /\ page.truncated THEN "stuck" ELSE "ok"
  /\ UNCHANGED <<client, producerVars, readerVars, sqsVars, held, handle, processed, crashes>>

QueueNext ==
  \/ Send \/ GiveUp \/ ReceiveData \/ FetchMessage \/ Process \/ CommitMessages \/ Release \/ Close \/ ReadAfterClose \/ ReadFails
  \/ healthCheck \/ NewConsumer \/ SQSReceive \/ Reappear \/ SQSDelete \/ ListObjects

QueueSpec == QueueInit /\ [][QueueNext]_queueVars

-----------------------------------------------------------------------------
(* Properties *)

Processed == {processed[i].offset : i \in DOMAIN processed}
Times(o) == Cardinality({i \in DOMAIN processed : processed[i].offset = o})

\* In a group Receive is at most once, whatever crashes, and FetchMessage at least once from where the
\* group began: what is committed from there on was processed (see UncommittedIsRedelivered for where
\* it begins). No message SQS has is lost before its consumer processed it, or could not decode it,
\* and deleted it. An acknowledged message is with the broker, and a deduplicated one once however
\* often it is sent. A listing is the keys, each once and in order, unless the server repeats a token.
DeliveryIsAsPromised ==
  /\ Kafka /\ client.group /\ ~client.fetch => \A o \in Offsets : Times(o) <= 1
  /\ Kafka /\ client.group /\ ~client.fetch /\ crashes = 0 => 1..committed \subseteq Processed \cup skipped \cup {held}
  /\ Kafka /\ client.fetch => (joined + 1)..committed \subseteq Processed /\ skipped = {}
  /\ client.startOffset = "first" => joined = 0
  /\ SQS => \A o \in deleted : o \in Processed \/ log[o] \in Bad
  /\ acked \subseteq ToSet(log)
  /\ client.dedup => Cardinality(ToSet(log)) = Len(log)
  /\ listed => IsPrefix(list, [i \in 1..KeyCount |-> i]) /\ (outcome # "stuck" => Len(list) = KeyCount)

\* "uncommitted messages are redelivered after a rebalance or restart" (FetchMessage): the message a
\* consumer of a group held when it died is still ahead of the next one, unless it was committed.
UncommittedIsRedelivered ==
  [][Kafka /\ client.group /\ client.fetch /\ crashes' # crashes /\ held > committed => pos' < held]_queueVars

=============================================================================
