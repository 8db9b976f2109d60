----------------------------- MODULE Realtime -----------------------------
(* Realtime events: RealtimePublisher puts them on a channel, and           *)
(* stream_pubsub carries them to websocket clients, dropping malformed      *)
(* messages and those whose idempotency key it has marked as seen, and      *)
(* counting all it does in one record that the sessions of the process      *)
(* share. The channels backend is the framework's: it replays its last      *)
(* messages to a new subscription and then queues what is published.        *)
EXTENDS Naturals, Sequences, FiniteSets

CONSTANTS
  Sockets,        \* websocket connections
  Keys,           \* idempotency keys
  MaxKeys,        \* _MAX_DEDUP_KEYS
  History,        \* messages that the backend replays
  MaxPublished,   \* bound on the messages published
  MaxSessions     \* bound on the sessions begun

ASSUME RealtimeAssumption ==
  /\ IsFiniteSet(Sockets)
  /\ MaxKeys \in Nat \ {0} /\ History \in Nat /\ MaxPublished \in Nat /\ MaxSessions \in Nat

VARIABLES
  backendUp,      \* whether the channels backend has been started
  published,      \* the messages the backend has taken
  stream,         \* stream[s]: the session of socket s
  metrics,        \* _STREAM_METRICS
  sessions,       \* history: sessions begun
  cut,            \* history: sessions that ended while a message was being sent
  wasReset        \* history: whether the metrics were reset

realtimeVars == <<backendUp, published, stream, metrics, sessions, cut, wasReset>>

\* A message is told by what stream_pubsub makes of it: its key, or that it has none, or
\* that it cannot be decoded.
Messages == Keys \cup {"plain", "malformed"}

\* queue: what the subscription holds; seen: seen_keys; sending: the message in send_json;
\* sent: history, the messages the client has received
Closed == [open |-> FALSE, queue |-> <<>>, seen |-> <<>>, sending |-> <<>>, sent |-> <<>>]
Session == [open : BOOLEAN, queue : Seq(Messages), seen : Seq(Keys),
            sending : Seq(Messages), sent : Seq(Messages)]
Counters == {"active", "received", "delivered", "malformed", "deduplicated",
             "disconnects", "errors"}

RealtimeTypeOK ==
  /\ backendUp \in BOOLEAN
  /\ published \in Seq(Messages)
  /\ stream \in [Sockets -> Session]
  /\ metrics \in [Counters -> Nat]
  /\ sessions \in Nat /\ cut \in Nat
  /\ wasReset \in BOOLEAN

RealtimeInit ==
  /\ backendUp = FALSE
  /\ published = <<>>
  /\ stream = [s \in Sockets |-> Closed]
  /\ metrics = [c \in Counters |-> 0]
  /\ sessions = 0 /\ cut = 0
  /\ wasReset = FALSE

----------------------------------------------------------------------------
Open == {s \in Sockets : stream[s].open}
InFlight == {s \in Open : stream[s].sending # <<>>}
SessionIs(s, state) == stream' = [stream EXCEPT ![s] = state]
Count(cs) == metrics' = [c \in Counters |-> IF c \in cs THEN metrics[c] + 1 ELSE metrics[c]]
Last(n, seq) == SubSeq(seq, IF Len(seq) > n THEN Len(seq) - n + 1 ELSE 1, Len(seq))

StartBackend ==
  /\ ~backendUp
  /\ backendUp' = TRUE
  /\ UNCHANGED <<published, stream, metrics, sessions, cut, wasReset>>

\* publish_event. Before the backend is started the event is dropped without a word, and
\* nothing changes.
Publish(m) ==
  /\ backendUp /\ Len(published) < MaxPublished
  /\ published' = Append(published, m)
  /\ stream' = [s \in Sockets |->
                  IF s \in Open THEN [stream[s] EXCEPT !.queue = Append(@, m)] ELSE stream[s]]
  /\ UNCHANGED <<backendUp, metrics, sessions, cut, wasReset>>

\* stream_pubsub begins: the gauge goes up and the subscription starts
Connect(s) ==
  /\ ~stream[s].open /\ backendUp /\ sessions < MaxSessions
  /\ sessions' = sessions + 1
  /\ SessionIs(s, [Closed EXCEPT !.open = TRUE, !.queue = Last(History, published)])
  /\ Count({"active"})
  /\ UNCHANGED <<backendUp, published, cut, wasReset>>

\* The subscription cannot be started: the gauge has gone up and comes down again
ConnectFails(s) ==
  /\ ~stream[s].open /\ sessions < MaxSessions
  /\ sessions' = sessions + 1
  /\ Count({"errors"})
  /\ UNCHANGED <<backendUp, published, stream, cut, wasReset>>

Message(s) == Head(stream[s].queue)
Dequeued(s) == [stream[s] EXCEPT !.queue = Tail(@)]
Ready(s) == stream[s].open /\ stream[s].queue # <<>> /\ stream[s].sending = <<>>
Seen(s) == {stream[s].seen[i] : i \in 1..Len(stream[s].seen)}

\* _decode_message finds nothing to decode
SkipMalformed(s) ==
  /\ Ready(s) /\ Message(s) = "malformed"
  /\ SessionIs(s, Dequeued(s))
  /\ Count({"received", "malformed"})
  /\ UNCHANGED <<backendUp, published, sessions, cut, wasReset>>

\* Mutant of SkipDuplicate: it is counted as received after the check.
SkipUncounted(s) ==
  /\ Ready(s) /\ Message(s) \in Seen(s)
  /\ SessionIs(s, Dequeued(s))
  /\ Count({"deduplicated"})
  /\ UNCHANGED <<backendUp, published, sessions, cut, wasReset>>

SkipDuplicate(s) ==
  /\ Ready(s) /\ Message(s) \in Seen(s)
  /\ SessionIs(s, Dequeued(s))
  /\ Count({"received", "deduplicated"})
  /\ UNCHANGED <<backendUp, published, sessions, cut, wasReset>>

\* Mutant of Remember: the window is one short.
RememberLess(s) ==
  IF Message(s) \in Keys THEN Last(MaxKeys - 1, Append(stream[s].seen, Message(s)))
  ELSE stream[s].seen

\* The key is marked as seen, and beyond MaxKeys the oldest is forgotten
Remember(s) ==
  IF Message(s) \in Keys THEN Last(MaxKeys, Append(stream[s].seen, Message(s)))
  ELSE stream[s].seen

\* A message that is to be delivered: marked before the await of send_json
Take(s) ==
  /\ Ready(s) /\ Message(s) # "malformed" /\ Message(s) \notin Seen(s)
  /\ SessionIs(s, [Dequeued(s) EXCEPT !.seen = Remember(s), !.sending = <<Message(s)>>])
  /\ Count({"received"})
  /\ UNCHANGED <<backendUp, published, sessions, cut, wasReset>>

Sent(s) ==
  /\ s \in InFlight
  /\ SessionIs(s, [stream[s] EXCEPT !.sent = @ \o stream[s].sending, !.sending = <<>>])
  /\ Count({"delivered"})
  /\ UNCHANGED <<backendUp, published, sessions, cut, wasReset>>

\* The two mutants of End: the gauge comes down in the handlers of the exceptions only; it
\* may go below 0.
EndHandled(s, how) ==
  /\ s \in Open
  /\ SessionIs(s, Closed)
  /\ metrics' = IF how = "cancelled" THEN metrics
                ELSE [metrics EXCEPT ![how] = @ + 1, !["active"] = @ - 1]
  /\ UNCHANGED <<backendUp, published, sessions, cut, wasReset>>
EndUnclamped(s, how) ==
  /\ s \in Open
  /\ SessionIs(s, Closed)
  /\ metrics' = [metrics EXCEPT !["active"] = @ - 1]
  /\ UNCHANGED <<backendUp, published, sessions, cut, wasReset>>

\* The session ends, whether or not a message is being sent: the client has gone
\* ("disconnects"), an error ("errors"), or the task is cancelled ("cancelled", which is
\* not counted). The finally brings the gauge down, never below 0.
End(s, how) ==
  /\ s \in Open
  /\ SessionIs(s, Closed)
  /\ metrics' = [c \in Counters |->
                   IF c = "active" THEN (IF metrics[c] = 0 THEN 0 ELSE metrics[c] - 1)
                   ELSE IF c = how THEN metrics[c] + 1 ELSE metrics[c]]
  /\ cut' = IF s \in InFlight THEN cut + 1 ELSE cut
  /\ UNCHANGED <<backendUp, published, sessions, wasReset>>

\* reset_realtime_stream_metrics, sessions open or not (once, as a bound)
ResetMetrics ==
  /\ ~wasReset
  /\ metrics' = [c \in Counters |-> 0]
  /\ wasReset' = TRUE
  /\ UNCHANGED <<backendUp, published, stream, sessions, cut>>

RealtimeNext ==
  \/ StartBackend \/ ResetMetrics
  \/ \E m \in Messages : Publish(m)
  \/ \E s \in Sockets :
       \/ Connect(s) \/ ConnectFails(s)
       \/ SkipMalformed(s) \/ SkipDuplicate(s) \/ Take(s) \/ Sent(s)
       \/ \E how \in {"disconnects", "errors", "cancelled"} : End(s, how)

RealtimeSpec == RealtimeInit /\ [][RealtimeNext]_realtimeVars

----------------------------------------------------------------------------
\* The gauge of open streams never exceeds them, and is their number until the metrics are
\* reset with streams open: however a session ends, cancelled included, it comes down once.
ActiveBounded ==
  /\ metrics["active"] <= Cardinality(Open)
  /\ ~wasReset => metrics["active"] = Cardinality(Open)

\* Until a reset, each message that stream_pubsub received is accounted for once: delivered,
\* malformed, deduplicated, in send_json, or lost with the session that was sending it.
CountsAddUp ==
  ~wasReset => metrics["received"] = metrics["delivered"] + metrics["malformed"]
                 + metrics["deduplicated"] + Cardinality(InFlight) + cut

NoRepeatWithinWindow ==
  \A s \in Sockets : \A i, j \in 1..Len(stream[s].sent) :
    i < j /\ stream[s].sent[i] = stream[s].sent[j] /\ stream[s].sent[i] \in Keys
      => MaxKeys <= Cardinality({stream[s].sent[k] : k \in (i + 1)..(j - 1)}
                                  \cap (Keys \ {stream[s].sent[i]}))
SeenWasSent ==
  \A s \in Open :
    Seen(s) \subseteq {stream[s].sent[i] : i \in 1..Len(stream[s].sent)}
                    \cup {stream[s].sending[i] : i \in 1..Len(stream[s].sending)}

\* stream_pubsub delivers a key again only when at least MaxKeys other keys came between;
\* and though a key is marked before its message is sent, it drops as a duplicate only what
\* this client was sent, or is being sent: a failed send ends the session, and the marks go
\* with it.
Deduplicates == NoRepeatWithinWindow /\ SeenWasSent

============================================================================
