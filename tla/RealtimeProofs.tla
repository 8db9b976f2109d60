--------------------------- MODULE RealtimeProofs ---------------------------
(* Theorems about Realtime, for any number of sockets, sessions and messages *)
(* and any window of keys.                                                   *)
(*                                                                           *)
(* ActiveBounded and CountsAddUp are inductive on top of the types: every    *)
(* step counts, in the one record that the sessions share, what it does to   *)
(* the sets of open sessions and of those that are sending. Deduplicates     *)
(* needs what the window of keys is (Window): a key that was taken is still  *)
(* in it, or MaxKeys others were taken after it.                             *)
EXTENDS Realtime, FiniteSetTheorems, SequenceTheorems, TLAPS

RealtimeInv == RealtimeTypeOK /\ ActiveBounded /\ CountsAddUp

-----------------------------------------------------------------------------
(* Counting.                                                                  *)

\* The sets that the counters follow are finite.
LEMMA FiniteSockets ==
  ASSUME RealtimeTypeOK
  PROVE  /\ IsFiniteSet(Open) /\ IsFiniteSet(InFlight)
         /\ Cardinality(Open) \in Nat /\ Cardinality(InFlight) \in Nat
         /\ Open \subseteq Sockets /\ InFlight \subseteq Open
<1>1. Open \subseteq Sockets /\ InFlight \subseteq Open
  BY DEF Open, InFlight
<1>2. QED
  BY <1>1, FS_Subset, FS_CardinalityType, RealtimeAssumption DEF RealtimeAssumption

\* A session is added to a set, or leaves it.
LEMMA OneMore ==
  ASSUME NEW S, IsFiniteSet(S), NEW x
  PROVE  /\ x \notin S => Cardinality(S \cup {x}) = Cardinality(S) + 1
         /\ x \in S => Cardinality(S \ {x}) = Cardinality(S) - 1 /\ Cardinality(S) > 0
<1>1. Cardinality(S) \in Nat /\ Cardinality(S \ {x}) \in Nat
  BY FS_RemoveElement, FS_CardinalityType
<1>2. QED BY <1>1, FS_AddElement, FS_RemoveElement

\* What counting does to the record.
LEMMA Counted ==
  ASSUME RealtimeTypeOK, NEW cs, Count(cs)
  PROVE  /\ metrics' \in [Counters -> Nat]
         /\ \A c \in Counters : metrics'[c] = IF c \in cs THEN metrics[c] + 1 ELSE metrics[c]
  BY DEF RealtimeTypeOK, Count

\* One session changes.
LEMMA OneSession ==
  ASSUME RealtimeTypeOK, NEW s \in Sockets, NEW q \in Session, SessionIs(s, q)
  PROVE  /\ stream' \in [Sockets -> Session]
         /\ Open' = IF q.open THEN Open \cup {s} ELSE Open \ {s}
         /\ InFlight' = IF q.open /\ q.sending # <<>> THEN InFlight \cup {s} ELSE InFlight \ {s}
<1>1. /\ stream \in [Sockets -> Session] /\ stream' \in [Sockets -> Session]
      /\ stream'[s] = q /\ \A t \in Sockets \ {s} : stream'[t] = stream[t]
  BY DEF RealtimeTypeOK, SessionIs
<1>2. Open' = IF q.open THEN Open \cup {s} ELSE Open \ {s}
  BY <1>1 DEF Open
<1>3. InFlight' = IF q.open /\ q.sending # <<>> THEN InFlight \cup {s} ELSE InFlight \ {s}
  BY <1>1 DEF InFlight, Open
<1>4. QED BY <1>1, <1>2, <1>3

\* What is counted in cs when session s becomes q: a message is dropped, or it is taken to be
\* sent, or it has been sent.
Follows(s, q, cs) ==
  \/ cs = {"received", "malformed"} /\ q.sending = stream[s].sending
  \/ cs = {"received", "deduplicated"} /\ q.sending = stream[s].sending
  \/ cs = {"received"} /\ stream[s].sending = <<>> /\ q.sending # <<>>
  \/ cs = {"delivered"} /\ stream[s].sending # <<>> /\ q.sending = <<>>

\* A step of a session that neither begins nor ends it: the counters follow InFlight.
LEMMA SessionCounts ==
  ASSUME RealtimeInv, NEW s \in Sockets, NEW q \in Session, SessionIs(s, q),
         stream[s].open, q.open, NEW cs, Count(cs), "active" \notin cs,
         UNCHANGED <<backendUp, published, sessions, cut, wasReset>>,
         Follows(s, q, cs)
  PROVE  RealtimeInv'
<1>1. RealtimeTypeOK /\ s \in Open /\ IsFiniteSet(InFlight) /\ Cardinality(InFlight) \in Nat
  BY FiniteSockets DEF RealtimeInv, Open
<1>2. /\ stream' \in [Sockets -> Session] /\ Open' = Open
      /\ InFlight' = IF q.sending # <<>> THEN InFlight \cup {s} ELSE InFlight \ {s}
  <2>1. /\ stream' \in [Sockets -> Session] /\ Open' = Open \cup {s}
        /\ InFlight' = IF q.sending # <<>> THEN InFlight \cup {s} ELSE InFlight \ {s}
    BY <1>1, OneSession
  <2>2. QED BY <1>1, <2>1
<1>3. /\ metrics' \in [Counters -> Nat] /\ metrics \in [Counters -> Nat] /\ cut \in Nat
      /\ \A c \in Counters : metrics'[c] = IF c \in cs THEN metrics[c] + 1 ELSE metrics[c]
  BY <1>1, Counted DEF RealtimeTypeOK
<1>4. RealtimeTypeOK'
  <2>1. UNCHANGED <<backendUp, published, sessions, cut, wasReset>>
    OBVIOUS
  <2>2. QED BY <1>1, <1>2, <1>3, <2>1 DEF RealtimeTypeOK
<1>5. ActiveBounded'
  BY <1>2, <1>3 DEF RealtimeInv, ActiveBounded, Counters
<1>6. CountsAddUp'
  <2>1. /\ metrics["received"] \in Nat /\ metrics["delivered"] \in Nat
        /\ metrics["malformed"] \in Nat /\ metrics["deduplicated"] \in Nat
        /\ wasReset' = wasReset /\ cut' = cut
    BY <1>3 DEF Counters
  <2>2. ~wasReset => metrics["received"] = metrics["delivered"] + metrics["malformed"]
                       + metrics["deduplicated"] + Cardinality(InFlight) + cut
    BY DEF RealtimeInv, CountsAddUp
  <2>3. CASE cs = {"received", "malformed"} /\ q.sending = stream[s].sending
    <3>1. /\ metrics'["received"] = metrics["received"] + 1
          /\ metrics'["delivered"] = metrics["delivered"]
          /\ metrics'["malformed"] = metrics["malformed"] + 1
          /\ metrics'["deduplicated"] = metrics["deduplicated"]
      BY <1>3, <2>3 DEF Counters
    <3>2. InFlight' = InFlight
      BY <1>1, <1>2, <2>3 DEF InFlight
    <3>3. Cardinality(InFlight') = Cardinality(InFlight)
      BY <3>2
    <3>4. QED BY <1>1, <1>3, <2>1, <2>2, <3>1, <3>3 DEF CountsAddUp
  <2>4. CASE cs = {"received", "deduplicated"} /\ q.sending = stream[s].sending
    <3>1. /\ metrics'["received"] = metrics["received"] + 1
          /\ metrics'["delivered"] = metrics["delivered"]
          /\ metrics'["malformed"] = metrics["malformed"]
          /\ metrics'["deduplicated"] = metrics["deduplicated"] + 1
      BY <1>3, <2>4 DEF Counters
    <3>2. InFlight' = InFlight
      BY <1>1, <1>2, <2>4 DEF InFlight
    <3>3. Cardinality(InFlight') = Cardinality(InFlight)
      BY <3>2
    <3>4. QED BY <1>1, <1>3, <2>1, <2>2, <3>1, <3>3 DEF CountsAddUp
  <2>5. CASE cs = {"received"} /\ stream[s].sending = <<>> /\ q.sending # <<>>
    <3>1. /\ metrics'["received"] = metrics["received"] + 1
          /\ metrics'["delivered"] = metrics["delivered"]
          /\ metrics'["malformed"] = metrics["malformed"]
          /\ metrics'["deduplicated"] = metrics["deduplicated"]
      BY <1>3, <2>5 DEF Counters
    <3>2. s \notin InFlight /\ InFlight' = InFlight \cup {s}
      BY <1>2, <2>5 DEF InFlight
    <3>3. Cardinality(InFlight') = Cardinality(InFlight) + 1
      BY <1>1, <3>2, OneMore
    <3>4. QED BY <1>1, <1>3, <2>1, <2>2, <3>1, <3>3 DEF CountsAddUp
  <2>6. CASE cs = {"delivered"} /\ stream[s].sending # <<>> /\ q.sending = <<>>
    <3>1. /\ metrics'["received"] = metrics["received"]
          /\ metrics'["delivered"] = metrics["delivered"] + 1
          /\ metrics'["malformed"] = metrics["malformed"]
          /\ metrics'["deduplicated"] = metrics["deduplicated"]
      BY <1>3, <2>6 DEF Counters
    <3>2. s \in InFlight /\ InFlight' = InFlight \ {s}
      BY <1>1, <1>2, <2>6 DEF InFlight
    <3>3. Cardinality(InFlight') = Cardinality(InFlight) - 1
      BY <1>1, <3>2, OneMore
    <3>4. QED BY <1>1, <1>3, <2>1, <2>2, <3>1, <3>3 DEF CountsAddUp
  <2>7. QED BY <2>3, <2>4, <2>5, <2>6 DEF Follows
<1>7. QED BY <1>4, <1>5, <1>6 DEF RealtimeInv

-----------------------------------------------------------------------------
(* Sessions.                                                                  *)

\* The end of a sequence is a sequence of the same things.
LEMMA LastType ==
  ASSUME NEW S, NEW seq \in Seq(S), NEW n \in Nat PROVE Last(n, seq) \in Seq(S)
<1> DEFINE first == IF Len(seq) > n THEN Len(seq) - n + 1 ELSE 1
<1>1. first \in Int /\ Len(seq) \in Int /\ first >= 1 /\ \A i \in 1..Len(seq) : seq[i] \in S
  BY LenProperties
<1>2. \A i \in first..Len(seq) : seq[i] \in S
  BY <1>1
<1> HIDE DEF first
<1>3. SubSeq(seq, first, Len(seq)) \in Seq(S)
  BY <1>1, <1>2, SubSeqProperties
<1>4. QED BY <1>3 DEF Last, first

\* Closed is a session, and one that begins is too.
LEMMA ClosedSession ==
  /\ Closed \in Session /\ ~Closed.open
  /\ \A h \in Seq(Messages) :
       LET q == [Closed EXCEPT !.open = TRUE, !.queue = h]
       IN  q \in Session /\ q.open /\ q.sending = <<>>
<1>1. <<>> \in Seq(Messages) /\ <<>> \in Seq(Keys)
  BY EmptySeq
<1>2. QED BY <1>1 DEF Closed, Session

\* A session whose queue has a message, and the same without it.
LEMMA ReadySession ==
  ASSUME RealtimeTypeOK, NEW s \in Sockets, Ready(s)
  PROVE  /\ stream[s] \in Session /\ stream[s].open /\ stream[s].sending = <<>>
         /\ Message(s) \in Messages
         /\ Dequeued(s) \in Session /\ Dequeued(s).open /\ Dequeued(s).sending = <<>>
<1>1. /\ stream[s] \in Session /\ stream[s].open /\ stream[s].sending = <<>>
      /\ stream[s].queue \in Seq(Messages) /\ stream[s].queue # <<>>
  BY DEF RealtimeTypeOK, Ready, Session
<1> DEFINE rest == Tail(stream[s].queue)
<1>2. Head(stream[s].queue) \in Messages /\ rest \in Seq(Messages)
  BY <1>1, HeadTailProperties
<1>3. Dequeued(s) = [stream[s] EXCEPT !.queue = rest]
  BY DEF Dequeued
<1> HIDE DEF rest
<1>4. QED BY <1>1, <1>2, <1>3 DEF Message, Session

\* Every step that handles a message keeps the invariant.
LEMMA HandleInv ==
  ASSUME RealtimeInv, NEW s \in Sockets,
         SkipMalformed(s) \/ SkipDuplicate(s) \/ Take(s) \/ Sent(s)
  PROVE  RealtimeInv'
<1>1. RealtimeTypeOK
  BY DEF RealtimeInv
<1>2. CASE SkipMalformed(s)
  <2>1. /\ Ready(s) /\ SessionIs(s, Dequeued(s)) /\ Count({"received", "malformed"})
        /\ UNCHANGED <<backendUp, published, sessions, cut, wasReset>>
    BY <1>2 DEF SkipMalformed
  <2> DEFINE cs == {"received", "malformed"}   q == Dequeued(s)
  <2>2. "active" \notin cs
    OBVIOUS
  <2>3. /\ q \in Session /\ q.open /\ stream[s].open /\ q.sending = stream[s].sending
        /\ SessionIs(s, q) /\ Count(cs) /\ Follows(s, q, cs)
    BY <1>1, <2>1, ReadySession DEF Follows
  <2> HIDE DEF cs, q
  <2>4. QED BY <2>1, <2>2, <2>3, SessionCounts
<1>3. CASE SkipDuplicate(s)
  <2>1. /\ Ready(s) /\ SessionIs(s, Dequeued(s)) /\ Count({"received", "deduplicated"})
        /\ UNCHANGED <<backendUp, published, sessions, cut, wasReset>>
    BY <1>3 DEF SkipDuplicate
  <2> DEFINE cs == {"received", "deduplicated"}   q == Dequeued(s)
  <2>2. "active" \notin cs
    OBVIOUS
  <2>3. /\ q \in Session /\ q.open /\ stream[s].open /\ q.sending = stream[s].sending
        /\ SessionIs(s, q) /\ Count(cs) /\ Follows(s, q, cs)
    BY <1>1, <2>1, ReadySession DEF Follows
  <2> HIDE DEF cs, q
  <2>4. QED BY <2>1, <2>2, <2>3, SessionCounts
<1>4. CASE Take(s)
  <2> DEFINE now == <<Message(s)>>   keys == Remember(s)   cs == {"received"}
             q == [Dequeued(s) EXCEPT !.seen = keys, !.sending = now]
  <2>1. /\ Ready(s) /\ SessionIs(s, q) /\ Count(cs)
        /\ UNCHANGED <<backendUp, published, sessions, cut, wasReset>>
    BY <1>4 DEF Take
  <2>2. now \in Seq(Messages) /\ now # <<>>
    BY <1>1, <2>1, ReadySession
  <2>3. keys \in Seq(Keys)
    <3>1. stream[s].seen \in Seq(Keys) /\ MaxKeys \in Nat
      BY <1>1, RealtimeAssumption DEF RealtimeTypeOK, Session, RealtimeAssumption
    <3>2. Message(s) \in Keys => Append(stream[s].seen, Message(s)) \in Seq(Keys)
      BY <3>1, AppendProperties
    <3>3. QED BY <3>1, <3>2, LastType DEF Remember
  <2>4. "active" \notin cs /\ cs = {"received"}
    OBVIOUS
  <2> HIDE DEF now, keys, cs
  <2>5. q \in Session /\ q.open /\ q.sending # <<>>
    BY <1>1, <2>1, <2>2, <2>3, ReadySession DEF Session
  <2>6. stream[s].open /\ stream[s].sending = <<>>
    BY <1>1, <2>1, ReadySession
  <2> HIDE DEF q
  <2>7. QED BY <2>1, <2>4, <2>5, <2>6, SessionCounts DEF Follows
<1>5. CASE Sent(s)
  <2> DEFINE all == stream[s].sent \o stream[s].sending   cs == {"delivered"}
             q == [stream[s] EXCEPT !.sent = all, !.sending = <<>>]
  <2>1. /\ s \in InFlight /\ SessionIs(s, q) /\ Count(cs)
        /\ UNCHANGED <<backendUp, published, sessions, cut, wasReset>>
    BY <1>5 DEF Sent
  <2>2. stream[s] \in Session /\ stream[s].open /\ stream[s].sending # <<>>
    BY <1>1, <2>1 DEF InFlight, Open, RealtimeTypeOK
  <2>3. all \in Seq(Messages) /\ <<>> \in Seq(Messages)
    BY <2>2, ConcatProperties, EmptySeq DEF Session
  <2>4. "active" \notin cs /\ cs = {"delivered"}
    OBVIOUS
  <2> HIDE DEF all, cs
  <2>5. q \in Session /\ q.open /\ q.sending = <<>>
    BY <2>2, <2>3 DEF Session
  <2> HIDE DEF q
  <2>6. QED BY <2>1, <2>2, <2>4, <2>5, SessionCounts DEF Follows
<1>6. QED BY <1>2, <1>3, <1>4, <1>5

\* A session begins, or its subscription cannot be started.
LEMMA ConnectInv ==
  ASSUME RealtimeInv, NEW s \in Sockets, Connect(s) \/ ConnectFails(s) PROVE RealtimeInv'
<1>1. /\ RealtimeTypeOK /\ IsFiniteSet(Open) /\ Cardinality(Open) \in Nat
      /\ s \notin Open /\ s \notin InFlight
      /\ metrics \in [Counters -> Nat] /\ sessions \in Nat /\ sessions' = sessions + 1
  BY FiniteSockets DEF RealtimeInv, Connect, ConnectFails, Open, InFlight, RealtimeTypeOK
<1>2. CASE Connect(s)
  <2> DEFINE h == Last(History, published)
             q == [Closed EXCEPT !.open = TRUE, !.queue = h]
  <2>1. SessionIs(s, q) /\ Count({"active"}) /\ UNCHANGED <<backendUp, published, cut, wasReset>>
    BY <1>2 DEF Connect
  <2>2. h \in Seq(Messages)
    BY <1>1, LastType, RealtimeAssumption DEF RealtimeTypeOK, RealtimeAssumption
  <2> HIDE DEF h
  <2>3. q \in Session /\ q.open /\ q.sending = <<>>
    BY <2>2, ClosedSession
  <2> HIDE DEF q
  <2>4. /\ stream' \in [Sockets -> Session] /\ Open' = Open \cup {s} /\ InFlight' = InFlight \ {s}
    BY <1>1, <2>1, <2>3, OneSession
  <2>5. InFlight' = InFlight /\ Cardinality(Open') = Cardinality(Open) + 1
    BY <1>1, <2>4, OneMore
  <2>6. /\ metrics' \in [Counters -> Nat]
        /\ \A c \in Counters : metrics'[c] = IF c = "active" THEN metrics[c] + 1 ELSE metrics[c]
    BY <1>1, <2>1, Counted
  <2>7. RealtimeTypeOK'
    BY <1>1, <2>1, <2>4, <2>6 DEF RealtimeTypeOK
  <2>8. metrics'["active"] = metrics["active"] + 1 /\ metrics["active"] \in Nat
    BY <1>1, <2>6 DEF Counters
  <2>9. ActiveBounded' /\ CountsAddUp'
    BY <1>1, <2>1, <2>5, <2>6, <2>8 DEF RealtimeInv, ActiveBounded, CountsAddUp, Counters
  <2>10. QED BY <2>7, <2>9 DEF RealtimeInv
<1>3. CASE ConnectFails(s)
  <2>1. Count({"errors"}) /\ UNCHANGED <<backendUp, published, stream, cut, wasReset>>
    BY <1>3 DEF ConnectFails
  <2>2. /\ metrics' \in [Counters -> Nat]
        /\ \A c \in Counters : metrics'[c] = IF c = "errors" THEN metrics[c] + 1 ELSE metrics[c]
    BY <1>1, <2>1, Counted
  <2>3. Open' = Open /\ InFlight' = InFlight
    BY <2>1 DEF Open, InFlight
  <2>4. RealtimeTypeOK'
    BY <1>1, <2>1, <2>2 DEF RealtimeTypeOK
  <2>5. ActiveBounded' /\ CountsAddUp'
    BY <2>1, <2>2, <2>3 DEF RealtimeInv, ActiveBounded, CountsAddUp, Counters
  <2>6. QED BY <2>4, <2>5 DEF RealtimeInv
<1>4. QED BY <1>2, <1>3

\* A session ends, however it does: the finally brings the gauge down once.
LEMMA EndInv ==
  ASSUME RealtimeInv, NEW s \in Sockets, NEW how \in {"disconnects", "errors", "cancelled"},
         End(s, how)
  PROVE  RealtimeInv'
<1>1. /\ RealtimeTypeOK /\ s \in Open
      /\ IsFiniteSet(Open) /\ Cardinality(Open) \in Nat
      /\ IsFiniteSet(InFlight) /\ Cardinality(InFlight) \in Nat
      /\ metrics \in [Counters -> Nat] /\ cut \in Nat
  BY FiniteSockets DEF RealtimeInv, End, RealtimeTypeOK
<1>2. /\ SessionIs(s, Closed) /\ UNCHANGED <<backendUp, published, sessions, wasReset>>
      /\ cut' = IF s \in InFlight THEN cut + 1 ELSE cut
  BY DEF End
<1>3. stream' \in [Sockets -> Session] /\ Open' = Open \ {s} /\ InFlight' = InFlight \ {s}
  BY <1>1, <1>2, OneSession, ClosedSession
<1>4. /\ Cardinality(Open') = Cardinality(Open) - 1 /\ Cardinality(Open) > 0
      /\ Cardinality(InFlight') + cut' = Cardinality(InFlight) + cut /\ cut' \in Nat
      /\ Cardinality(InFlight') \in Nat
  <2>1. Cardinality(Open') = Cardinality(Open) - 1 /\ Cardinality(Open) > 0
    BY <1>1, <1>3, OneMore
  <2>2. CASE s \in InFlight
    BY <1>1, <1>2, <1>3, <2>2, OneMore
  <2>3. CASE s \notin InFlight
    <3>1. InFlight' = InFlight /\ cut' = cut
      BY <1>2, <1>3, <2>3
    <3>2. Cardinality(InFlight') = Cardinality(InFlight)
      BY <3>1
    <3>3. QED BY <1>1, <2>1, <3>1, <3>2
  <2>4. QED BY <2>1, <2>2, <2>3
<1>5. /\ metrics' \in [Counters -> Nat]
      /\ metrics'["active"] = IF metrics["active"] = 0 THEN 0 ELSE metrics["active"] - 1
      /\ \A c \in {"received", "delivered", "malformed", "deduplicated"} : metrics'[c] = metrics[c]
      /\ \A c \in Counters : metrics[c] \in Nat
  BY <1>1 DEF End, Counters
<1>6. RealtimeTypeOK'
  BY <1>1, <1>2, <1>3, <1>4, <1>5 DEF RealtimeTypeOK
<1>7. ActiveBounded'
  BY <1>1, <1>2, <1>4, <1>5 DEF RealtimeInv, ActiveBounded, Counters
<1>8. CountsAddUp'
  BY <1>1, <1>2, <1>4, <1>5 DEF RealtimeInv, CountsAddUp, Counters
<1>9. QED BY <1>6, <1>7, <1>8 DEF RealtimeInv

\* The backend, a publication and a reset of the metrics.
LEMMA RestInv ==
  ASSUME RealtimeInv, StartBackend \/ ResetMetrics \/ \E m \in Messages : Publish(m)
  PROVE  RealtimeInv'
<1>1. RealtimeTypeOK
  BY DEF RealtimeInv
<1>2. CASE StartBackend
  <2>1. UNCHANGED <<published, stream, metrics, sessions, cut, wasReset>> /\ backendUp' \in BOOLEAN
    BY <1>2 DEF StartBackend
  <2>2. Open' = Open /\ InFlight' = InFlight
    BY <2>1 DEF Open, InFlight
  <2>3. QED BY <1>1, <2>1, <2>2 DEF RealtimeInv, RealtimeTypeOK, ActiveBounded, CountsAddUp
<1>3. CASE ResetMetrics
  <2>1. /\ UNCHANGED <<backendUp, published, stream, sessions, cut>> /\ wasReset' = TRUE
        /\ metrics' \in [Counters -> Nat] /\ metrics'["active"] = 0
    BY <1>3 DEF ResetMetrics, Counters
  <2>2. Open' = Open /\ Cardinality(Open) \in Nat
    BY <1>1, <2>1, FiniteSockets DEF Open
  <2>3. QED BY <1>1, <2>1, <2>2 DEF RealtimeInv, RealtimeTypeOK, ActiveBounded, CountsAddUp
<1>4. ASSUME NEW m \in Messages, Publish(m) PROVE RealtimeInv'
  <2>1. /\ UNCHANGED <<backendUp, metrics, sessions, cut, wasReset>>
        /\ published' = Append(published, m) /\ published \in Seq(Messages)
    BY <1>1, <1>4 DEF Publish, RealtimeTypeOK
  <2>2. ASSUME NEW s \in Sockets
        PROVE  /\ stream'[s] \in Session /\ stream'[s].open = stream[s].open
               /\ stream'[s].sending = stream[s].sending
    <3> DEFINE longer == Append(stream[s].queue, m)
    <3>1. stream[s] \in Session
      BY <1>1 DEF RealtimeTypeOK
    <3>2. longer \in Seq(Messages)
      BY <3>1, AppendProperties DEF Session
    <3>3. stream'[s] = IF s \in Open THEN [stream[s] EXCEPT !.queue = longer] ELSE stream[s]
      BY <1>4 DEF Publish
    <3> HIDE DEF longer
    <3>4. QED BY <3>1, <3>2, <3>3 DEF Session
  <2>3. stream' \in [Sockets -> Session]
    <3>1. stream' = [s \in Sockets |-> stream'[s]]
      BY <1>4 DEF Publish
    <3>2. QED BY <2>2, <3>1
  <2>4. Open' = Open /\ InFlight' = InFlight
    BY <2>2 DEF Open, InFlight
  <2>5. RealtimeTypeOK'
    BY <1>1, <2>1, <2>3, AppendProperties DEF RealtimeTypeOK
  <2>6. QED BY <2>1, <2>4, <2>5 DEF RealtimeInv, ActiveBounded, CountsAddUp
<1>5. QED BY <1>2, <1>3, <1>4

-----------------------------------------------------------------------------
\* No session is open before the first.
LEMMA InitInv == RealtimeInit => RealtimeInv
<1> SUFFICES ASSUME RealtimeInit PROVE RealtimeInv
  OBVIOUS
<1>1. RealtimeTypeOK
  BY ClosedSession, EmptySeq DEF RealtimeInit, RealtimeTypeOK
<1>2. Open = {} /\ InFlight = {}
  BY ClosedSession DEF RealtimeInit, Open, InFlight
<1>3. Cardinality(Open) = 0 /\ Cardinality(InFlight) = 0
  BY <1>2, FS_EmptySet
<1>4. QED BY <1>1, <1>3 DEF RealtimeInit, RealtimeInv, ActiveBounded, CountsAddUp, Counters

\* A step of any kind, or none.
LEMMA StepInv == RealtimeInv /\ [RealtimeNext]_realtimeVars => RealtimeInv'
<1>1. ASSUME RealtimeInv, RealtimeNext PROVE RealtimeInv'
  BY <1>1, HandleInv, ConnectInv, EndInv, RestInv DEF RealtimeNext
<1>2. ASSUME RealtimeInv, UNCHANGED realtimeVars PROVE RealtimeInv'
  BY <1>2 DEF realtimeVars, RealtimeInv, RealtimeTypeOK, ActiveBounded, CountsAddUp, Open, InFlight
<1>3. QED BY <1>1, <1>2

\* The invariant holds of every behaviour.
LEMMA RealtimeInvHolds == RealtimeSpec => []RealtimeInv
<1>1. QED BY InitInv, StepInv, PTL DEF RealtimeSpec

\* Every variable of the streams keeps its type: queues and windows hold messages and keys,
\* and no counter falls below zero.
THEOREM RealtimeTypeCorrect == RealtimeSpec => []RealtimeTypeOK
<1>1. RealtimeInv => RealtimeTypeOK
  BY DEF RealtimeInv
<1>2. QED BY <1>1, RealtimeInvHolds, PTL

\* The gauge of stream_pubsub is the number of open sessions until a reset, and never above.
THEOREM ActiveBoundedHolds == RealtimeSpec => []ActiveBounded
<1>1. RealtimeInv => ActiveBounded
  BY DEF RealtimeInv
<1>2. QED BY <1>1, RealtimeInvHolds, PTL

\* Until a reset every message that stream_pubsub received is accounted for once.
THEOREM CountsAddUpHolds == RealtimeSpec => []CountsAddUp
<1>1. RealtimeInv => CountsAddUp
  BY DEF RealtimeInv
<1>2. QED BY <1>1, RealtimeInvHolds, PTL

-----------------------------------------------------------------------------
(* The window of keys.                                                        *)

\* The messages that a session has taken to deliver, in order.
TakenUp(q) == q.sent \o q.sending

\* The keys between two places of a sequence, other than the first one's, and that there are
\* as many as the window holds.
Others(out, i, j) == {out[k] : k \in (i + 1)..(j - 1)} \cap (Keys \ {out[i]})
Far(out, i, j) == MaxKeys <= Cardinality(Others(out, i, j))

Apart(out) ==
  \A i, j \in 1..Len(out) : i < j /\ out[i] = out[j] /\ out[i] \in Keys => Far(out, i, j)

\* The key at i is in the window, and what stands behind it there was taken after it.
Remembered(out, seen, i) ==
  \E a \in 1..Len(seen) :
    /\ seen[a] = out[i]
    /\ \A b \in (a + 1)..Len(seen) : seen[b] \in Others(out, i, Len(out) + 1)

\* The window is what has been taken, each key once, and a key that was taken is still in
\* it unless MaxKeys others were taken since.
Window(out, seen) ==
  /\ Len(seen) <= MaxKeys
  /\ \A a, b \in 1..Len(seen) : seen[a] = seen[b] => a = b
  /\ \A a \in 1..Len(seen) : \E i \in 1..Len(out) : out[i] = seen[a]
  /\ Apart(out)
  /\ \A i \in 1..Len(out) :
       out[i] \in Keys => Far(out, i, Len(out) + 1) \/ Remembered(out, seen, i)

WindowInv == \A s \in Sockets : Window(TakenUp(stream[s]), stream[s].seen)

\* The keys between two places are finitely many, and no fewer when the second moves away.
LEMMA OthersGrow ==
  ASSUME NEW out, NEW longer, NEW i \in Nat, NEW j \in Nat, NEW l \in Nat, j <= l,
         longer[i] = out[i], \A k \in (i + 1)..(j - 1) : longer[k] = out[k]
  PROVE  /\ IsFiniteSet(Others(longer, i, l))
         /\ Others(out, i, j) \subseteq Others(longer, i, l)
         /\ Far(out, i, j) => Far(longer, i, l)
<1> DEFINE D == (i + 1)..(l - 1)   f == [k \in D |-> longer[k]]   R == {longer[k] : k \in D}
<1>1. IsFiniteSet(D)
  BY FS_Interval
<1>2. f \in Surjection(D, R)
  BY DEF Surjection
<1>3. IsFiniteSet(R)
  BY <1>1, <1>2, FS_Surjection
<1>4. Others(longer, i, l) \subseteq R
  BY DEF Others
<1>5. IsFiniteSet(Others(longer, i, l))
  BY <1>3, <1>4, FS_Subset
<1>6. Others(out, i, j) \subseteq Others(longer, i, l)
  BY DEF Others
<1>7. /\ Cardinality(Others(out, i, j)) <= Cardinality(Others(longer, i, l))
      /\ Cardinality(Others(out, i, j)) \in Nat /\ Cardinality(Others(longer, i, l)) \in Nat
  BY <1>5, <1>6, FS_Subset, FS_CardinalityType
<1>8. QED BY <1>5, <1>6, <1>7, RealtimeAssumption DEF Far, RealtimeAssumption

\* Two sequences have the same first n places.
Alike(out, longer, n) == \A k \in 1..n : longer[k] = out[k]

\* Sequences that are alike in n places: what is between two of these is the same.
LEMMA OthersAppended ==
  ASSUME NEW out, NEW longer, NEW n \in Nat, Alike(out, longer, n),
         NEW i \in 1..n, NEW j \in 1..(n + 1), NEW l \in Nat, j <= l
  PROVE  /\ IsFiniteSet(Others(longer, i, l))
         /\ Others(out, i, j) \subseteq Others(longer, i, l)
         /\ Far(out, i, j) => Far(longer, i, l)
<1>1. i \in Nat /\ j \in Nat /\ longer[i] = out[i]
  BY DEF Alike
<1>2. \A k \in (i + 1)..(j - 1) : longer[k] = out[k]
  <2>1. (i + 1)..(j - 1) \subseteq 1..n
    OBVIOUS
  <2>2. QED BY <2>1 DEF Alike
<1>3. QED BY <1>1, <1>2, OthersGrow

\* A sequence of different things has no more of them than a finite set that holds them.
LEMMA Distinct ==
  ASSUME NEW seq, NEW n \in Nat, NEW S, IsFiniteSet(S),
         \A a \in 1..n : seq[a] \in S,
         \A a, b \in 1..n : seq[a] = seq[b] => a = b
  PROVE  n <= Cardinality(S)
<1> DEFINE f == [a \in 1..n |-> seq[a]]
<1>1. f \in Injection(1..n, S)
  BY DEF Injection, IsInjective
<1>2. Cardinality(1..n) <= Cardinality(S)
  BY <1>1, FS_Injection
<1>3. QED BY <1>2, FS_Interval

\* The end of a sequence, from its first or its second place.
LEMMA SubSeqFrom ==
  ASSUME NEW S, NEW seq \in Seq(S), NEW n \in Nat, Len(seq) = n + 1
  PROVE  /\ Len(SubSeq(seq, 1, Len(seq))) = n + 1
         /\ \A a \in 1..(n + 1) : SubSeq(seq, 1, Len(seq))[a] = seq[a]
         /\ Len(SubSeq(seq, 2, Len(seq))) = n
         /\ \A a \in 1..n : SubSeq(seq, 2, Len(seq))[a] = seq[a + 1]
<1>1. \A i \in 1..(n + 1) : seq[i] \in S
  BY LenProperties
<1>2. \A i \in 2..(n + 1) : seq[i] \in S
  BY <1>1
<1>3. /\ Len(SubSeq(seq, 1, n + 1)) = n + 1
      /\ \A a \in 1..(n + 1) : SubSeq(seq, 1, n + 1)[a] = seq[a]
  <2>1. /\ Len(SubSeq(seq, 1, n + 1)) = (IF 1 <= n + 1 THEN n + 1 - 1 + 1 ELSE 0)
        /\ \A a \in 1..(n + 1 - 1 + 1) : SubSeq(seq, 1, n + 1)[a] = seq[1 + a - 1]
    BY <1>1, SubSeqProperties
  <2>2. \A a \in 1..(n + 1) : 1 + a - 1 = a
    OBVIOUS
  <2>3. n + 1 - 1 + 1 = n + 1 /\ 1 <= n + 1
    OBVIOUS
  <2>4. QED BY <2>1, <2>2, <2>3
<1>4. /\ Len(SubSeq(seq, 2, n + 1)) = n
      /\ \A a \in 1..n : SubSeq(seq, 2, n + 1)[a] = seq[a + 1]
  <2>1. /\ Len(SubSeq(seq, 2, n + 1)) = (IF 2 <= n + 1 THEN n + 1 - 2 + 1 ELSE 0)
        /\ \A a \in 1..(n + 1 - 2 + 1) : SubSeq(seq, 2, n + 1)[a] = seq[2 + a - 1]
    BY <1>2, SubSeqProperties
  <2>2. \A a \in 1..n : 2 + a - 1 = a + 1
    OBVIOUS
  <2>3. n + 1 - 2 + 1 = n /\ (~(2 <= n + 1) => n = 0)
    OBVIOUS
  <2>4. QED BY <2>1, <2>2, <2>3
<1>5. QED BY <1>3, <1>4

\* What the window becomes with one more key: the oldest goes when it is full.
LEMMA LastAppended ==
  ASSUME NEW seen \in Seq(Keys), Len(seen) <= MaxKeys, NEW m \in Keys
  PROVE  LET new == Last(MaxKeys, Append(seen, m))
             gone == IF Len(seen) = MaxKeys THEN 1 ELSE 0
         IN  /\ Len(new) = Len(seen) + 1 - gone
             /\ \A a \in 1..Len(new) :
                  new[a] = IF a + gone = Len(seen) + 1 THEN m ELSE seen[a + gone]
<1> DEFINE all == Append(seen, m)   new == Last(MaxKeys, all)
           gone == IF Len(seen) = MaxKeys THEN 1 ELSE 0
<1>1. Len(seen) \in Nat /\ MaxKeys \in Nat \ {0} /\ Len(seen) <= MaxKeys
  BY LenProperties, RealtimeAssumption DEF RealtimeAssumption
<1>2. /\ all \in Seq(Keys) /\ Len(all) = Len(seen) + 1
      /\ \A i \in 1..Len(seen) : all[i] = seen[i]
      /\ all[Len(seen) + 1] = m
  BY AppendProperties
<1> HIDE DEF all
<1>3. CASE Len(seen) = MaxKeys
  <2>1. gone = 1 /\ new = SubSeq(all, 2, Len(all))
    <3>1. Len(all) > MaxKeys /\ Len(all) - MaxKeys + 1 = 2
      BY <1>1, <1>2, <1>3
    <3>2. QED BY <1>3, <3>1 DEF Last
  <2> HIDE DEF new, gone
  <2>2. /\ Len(SubSeq(all, 2, Len(all))) = MaxKeys
        /\ \A a \in 1..MaxKeys : SubSeq(all, 2, Len(all))[a] = all[a + 1]
    BY <1>1, <1>2, <1>3, SubSeqFrom
  <2>3. Len(new) = Len(seen) + 1 - gone
    BY <1>1, <1>3, <2>1, <2>2
  <2>4. ASSUME NEW a \in 1..Len(new)
        PROVE  new[a] = IF a + gone = Len(seen) + 1 THEN m ELSE seen[a + gone]
    <3>1. a \in 1..MaxKeys /\ new[a] = all[a + 1] /\ a + 1 \in 1..(Len(seen) + 1)
      BY <1>1, <1>3, <2>1, <2>2
    <3>2. CASE a + 1 = Len(seen) + 1
      BY <1>2, <2>1, <3>1, <3>2
    <3>3. CASE a + 1 # Len(seen) + 1
      <4>1. a + 1 \in 1..Len(seen)
        BY <1>1, <3>1, <3>3
      <4>2. QED BY <1>2, <2>1, <3>1, <3>3, <4>1
    <3>4. QED BY <3>2, <3>3
  <2>5. QED BY <2>3, <2>4 DEF new, all, gone
<1>4. CASE Len(seen) # MaxKeys
  <2>1. gone = 0 /\ new = SubSeq(all, 1, Len(all))
    <3>1. ~(Len(all) > MaxKeys)
      BY <1>1, <1>2, <1>4
    <3>2. QED BY <1>4, <3>1 DEF Last
  <2> HIDE DEF new, gone
  <2>2. /\ Len(SubSeq(all, 1, Len(all))) = Len(seen) + 1
        /\ \A a \in 1..(Len(seen) + 1) : SubSeq(all, 1, Len(all))[a] = all[a]
    BY <1>1, <1>2, SubSeqFrom
  <2>3. Len(new) = Len(seen) + 1 - gone
    BY <1>1, <2>1, <2>2
  <2>4. ASSUME NEW a \in 1..Len(new)
        PROVE  new[a] = IF a + gone = Len(seen) + 1 THEN m ELSE seen[a + gone]
    <3>1. a + gone = a /\ a \in 1..(Len(seen) + 1) /\ new[a] = all[a]
      BY <1>1, <2>1, <2>2
    <3>2. CASE a = Len(seen) + 1
      BY <1>2, <3>1, <3>2
    <3>3. CASE a # Len(seen) + 1
      <4>1. a \in 1..Len(seen)
        BY <1>1, <3>1, <3>3
      <4>2. QED BY <1>2, <3>1, <3>3, <4>1
    <3>4. QED BY <3>2, <3>3
  <2>5. QED BY <2>3, <2>4 DEF new, all, gone
<1>5. QED BY <1>3, <1>4

\* A message without a key leaves the window as it is.
LEMMA TakePlain ==
  ASSUME NEW out \in Seq(Messages), NEW seen \in Seq(Keys), Window(out, seen),
         NEW m \in Messages \ Keys
  PROVE  Window(Append(out, m), seen)
<1> DEFINE longer == Append(out, m)
<1>1. /\ Len(out) \in Nat /\ Len(seen) \in Nat /\ Len(longer) = Len(out) + 1
      /\ \A i \in 1..Len(out) : longer[i] = out[i]
      /\ longer[Len(out) + 1] = m /\ Alike(out, longer, Len(out))
  BY AppendProperties, LenProperties DEF Alike
<1> HIDE DEF longer
<1>2. ASSUME NEW a \in 1..Len(seen) PROVE \E i \in 1..Len(longer) : longer[i] = seen[a]
  <2>1. PICK i \in 1..Len(out) : out[i] = seen[a]
    BY DEF Window
  <2>2. QED BY <1>1, <2>1
<1>3. Apart(longer)
  <2> SUFFICES ASSUME NEW i \in 1..Len(longer), NEW j \in 1..Len(longer), i < j,
                      longer[i] = longer[j], longer[i] \in Keys
               PROVE  Far(longer, i, j)
    BY DEF Apart
  <2>1. i \in 1..Len(out) /\ j \in 1..Len(out)
    BY <1>1
  <2>2. Far(out, i, j)
    BY <1>1, <2>1 DEF Window, Apart
  <2>3. QED BY <1>1, <2>1, <2>2, OthersAppended
<1>4. ASSUME NEW i \in 1..Len(longer), longer[i] \in Keys
      PROVE  Far(longer, i, Len(longer) + 1) \/ Remembered(longer, seen, i)
  <2>1. i \in 1..Len(out) /\ longer[i] = out[i] /\ out[i] \in Keys
    BY <1>1, <1>4
  <2>2. /\ Others(out, i, Len(out) + 1) \subseteq Others(longer, i, Len(longer) + 1)
        /\ Far(out, i, Len(out) + 1) => Far(longer, i, Len(longer) + 1)
    BY <1>1, <2>1, OthersAppended
  <2>3. Far(out, i, Len(out) + 1) \/ Remembered(out, seen, i)
    BY <2>1 DEF Window
  <2>4. QED BY <2>1, <2>2, <2>3 DEF Remembered
<1>5. QED BY <1>2, <1>3, <1>4 DEF Window, longer

\* A key that is not in the window is marked in it: where it was taken before, MaxKeys
\* others came between, and the one it drives out has MaxKeys behind it.
LEMMA TakeKey ==
  ASSUME NEW out \in Seq(Messages), NEW seen \in Seq(Keys), Window(out, seen),
         NEW m \in Keys, \A a \in 1..Len(seen) : seen[a] # m
  PROVE  Window(Append(out, m), Last(MaxKeys, Append(seen, m)))
<1> DEFINE longer == Append(out, m)   new == Last(MaxKeys, Append(seen, m))
           gone == IF Len(seen) = MaxKeys THEN 1 ELSE 0
<1>1. /\ Len(out) \in Nat /\ Len(longer) = Len(out) + 1
      /\ \A i \in 1..Len(out) : longer[i] = out[i]
      /\ longer[Len(out) + 1] = m /\ Alike(out, longer, Len(out))
  BY AppendProperties, LenProperties DEF Messages, Alike
<1>2. /\ Len(seen) \in Nat /\ MaxKeys \in Nat \ {0} /\ Len(seen) <= MaxKeys
      /\ gone \in {0, 1} /\ (gone = 1 <=> Len(seen) = MaxKeys)
  BY LenProperties, RealtimeAssumption DEF RealtimeAssumption, Window
<1>3. /\ Len(new) = Len(seen) + 1 - gone
      /\ \A a \in 1..Len(new) :
           new[a] = IF a + gone = Len(seen) + 1 THEN m ELSE seen[a + gone]
  BY <1>2, LastAppended
<1> HIDE DEF longer, new, gone
<1>4. ASSUME NEW a \in 1..Len(new)
      PROVE  \/ a + gone = Len(seen) + 1 /\ new[a] = m
             \/ a + gone \in 1..Len(seen) /\ new[a] = seen[a + gone]
  BY <1>2, <1>3
<1>5. Len(new) <= MaxKeys
  BY <1>2, <1>3
<1>6. \A a, b \in 1..Len(new) : new[a] = new[b] => a = b
  <2> SUFFICES ASSUME NEW a \in 1..Len(new), NEW b \in 1..Len(new), new[a] = new[b]
               PROVE  a + gone = b + gone
    BY <1>2
  <2>1. \A c, d \in 1..Len(seen) : seen[c] = seen[d] => c = d
    BY DEF Window
  <2>2. QED BY <1>4, <2>1
<1>7. \A a \in 1..Len(new) : \E i \in 1..Len(longer) : longer[i] = new[a]
  <2> SUFFICES ASSUME NEW a \in 1..Len(new)
               PROVE  \E i \in 1..Len(longer) : longer[i] = new[a]
    OBVIOUS
  <2>1. CASE new[a] = m
    BY <1>1, <2>1
  <2>2. CASE a + gone \in 1..Len(seen) /\ new[a] = seen[a + gone]
    <3>1. PICK i \in 1..Len(out) : out[i] = seen[a + gone]
      BY <2>2 DEF Window
    <3>2. QED BY <1>1, <2>2, <3>1
  <2>3. QED BY <1>4, <2>1, <2>2
<1>8. Apart(longer)
  <2> SUFFICES ASSUME NEW i \in 1..Len(longer), NEW j \in 1..Len(longer), i < j,
                      longer[i] = longer[j], longer[i] \in Keys
               PROVE  Far(longer, i, j)
    BY DEF Apart
  <2>1. i \in 1..Len(out) /\ longer[i] = out[i]
    BY <1>1
  <2>2. CASE j \in 1..Len(out)
    <3>1. Far(out, i, j)
      BY <1>1, <2>1, <2>2 DEF Window, Apart
    <3>2. QED BY <1>1, <2>1, <2>2, <3>1, OthersAppended
  <2>3. CASE j = Len(out) + 1
    <3>1. out[i] = m /\ ~Remembered(out, seen, i)
      BY <1>1, <2>1, <2>3 DEF Remembered
    <3>2. Far(out, i, Len(out) + 1)
      BY <2>1, <3>1 DEF Window
    <3>3. QED BY <1>1, <2>1, <2>3, <3>2, OthersAppended
  <2>4. QED BY <1>1, <2>2, <2>3
<1>9. ASSUME NEW i \in 1..Len(longer), longer[i] \in Keys
      PROVE  Far(longer, i, Len(longer) + 1) \/ Remembered(longer, new, i)
  <2>1. CASE i = Len(out) + 1
    <3>1. Len(new) \in 1..Len(new) /\ new[Len(new)] = m
      BY <1>2, <1>3
    <3>2. (Len(new) + 1)..Len(new) = {}
      BY <1>2, <1>3
    <3>3. QED BY <1>1, <2>1, <3>1, <3>2 DEF Remembered
  <2>2. CASE i \in 1..Len(out) /\ Far(out, i, Len(out) + 1)
    BY <1>1, <2>2, OthersAppended
  <2>3. CASE i \in 1..Len(out) /\ Remembered(out, seen, i)
    <3> DEFINE after == Others(longer, i, Len(longer) + 1)
    <3>1. /\ longer[i] = out[i] /\ IsFiniteSet(after)
          /\ Others(out, i, Len(out) + 1) \subseteq after
      BY <1>1, <2>3, OthersAppended
    <3>2. PICK a \in 1..Len(seen) :
            /\ seen[a] = out[i]
            /\ \A b \in (a + 1)..Len(seen) : seen[b] \in Others(out, i, Len(out) + 1)
      BY <2>3 DEF Remembered
    <3>3. m \in after
      <4>1. Len(out) + 1 \in (i + 1)..((Len(longer) + 1) - 1) /\ m # longer[i]
        BY <1>1, <2>3, <3>1, <3>2
      <4>2. QED BY <1>1, <4>1 DEF Others
    <3> HIDE DEF after
    <3>4. ASSUME NEW b \in 1..Len(new), b + gone > a PROVE new[b] \in after
      <4>1. CASE new[b] = m
        BY <3>3, <4>1
      <4>2. CASE b + gone \in 1..Len(seen) /\ new[b] = seen[b + gone]
        <5>1. b + gone \in (a + 1)..Len(seen)
          BY <3>4, <4>2
        <5>2. seen[b + gone] \in after
          BY <3>1, <3>2, <5>1
        <5>3. QED BY <4>2, <5>2
      <4>3. QED BY <1>4, <4>1, <4>2
    <3>5. CASE a - gone \in 1..Len(new)
      <4>1. new[a - gone] = longer[i]
        BY <1>2, <1>3, <3>1, <3>2, <3>5
      <4>2. \A b \in ((a - gone) + 1)..Len(new) : new[b] \in after
        BY <1>2, <1>3, <3>4, <3>5
      <4>3. QED BY <3>5, <4>1, <4>2 DEF Remembered, after
    <3>6. CASE a - gone \notin 1..Len(new)
      <4>1. a = 1 /\ gone = 1 /\ Len(new) = MaxKeys
        BY <1>2, <1>3, <3>6
      <4>2. \A b \in 1..MaxKeys : new[b] \in after
        BY <1>2, <3>4, <4>1
      <4>3. MaxKeys <= Cardinality(after)
        BY <1>2, <1>6, <3>1, <4>1, <4>2, Distinct
      <4>4. QED BY <4>3 DEF Far, after
    <3>7. QED BY <3>5, <3>6
  <2>4. i \in 1..Len(out) \/ i = Len(out) + 1
    BY <1>1
  <2>5. i \in 1..Len(out) => Far(out, i, Len(out) + 1) \/ Remembered(out, seen, i)
    BY <1>1, <1>9 DEF Window
  <2>6. QED BY <2>1, <2>2, <2>3, <2>4, <2>5
<1>10. QED BY <1>5, <1>6, <1>7, <1>8, <1>9 DEF Window, longer, new

\* Sessions keep the window: one of them moves, and the others stay.
LEMMA OneWindow ==
  ASSUME RealtimeTypeOK, WindowInv, NEW s \in Sockets, NEW q, SessionIs(s, q),
         Window(TakenUp(q), q.seen)
  PROVE  WindowInv'
<1>1. \A t \in Sockets : stream'[t] = IF t = s THEN q ELSE stream[t]
  BY DEF RealtimeTypeOK, SessionIs
<1>2. ASSUME NEW t \in Sockets PROVE Window(TakenUp(stream'[t]), stream'[t].seen)
  BY <1>1 DEF WindowInv
<1>3. QED BY <1>2 DEF WindowInv

\* Nothing was taken, and nothing is in the window.
LEMMA EmptyWindow == Window(<<>> \o <<>>, <<>>)
<1>1. <<>> \o <<>> = <<>> /\ Len(<<>>) = 0 /\ 1..0 = {}
  BY EmptySeq, ConcatEmptySeq
<1>2. QED BY <1>1, RealtimeAssumption DEF Window, Apart, RealtimeAssumption

\* A session that took a message which is not in its window.
LEMMA TakeWindow ==
  ASSUME RealtimeTypeOK, WindowInv, NEW s \in Sockets, Take(s) PROVE WindowInv'
<1> DEFINE old == stream[s]   m == Message(s)   keys == Remember(s)
           q == [Dequeued(s) EXCEPT !.seen = keys, !.sending = <<m>>]
<1>1. /\ Ready(s) /\ SessionIs(s, q) /\ m \notin Seen(s)
      /\ old \in Session /\ old.sending = <<>> /\ m \in Messages
      /\ Dequeued(s) \in Session
  BY ReadySession DEF Take
<1>2. /\ old.sent \in Seq(Messages) /\ old.seen \in Seq(Keys)
      /\ q.sent = old.sent /\ q.sending = <<m>> /\ q.seen = keys
  BY <1>1 DEF Dequeued, Session
<1>3. TakenUp(old) = old.sent /\ TakenUp(q) = Append(old.sent, m)
  <2> HIDE DEF old, m, q
  <2>1. old.sent \o <<>> = old.sent /\ old.sent \o <<m>> = Append(old.sent, m)
    BY <1>1, <1>2, ConcatEmptySeq, AppendIsConcat
  <2>2. QED BY <1>1, <1>2, <2>1 DEF TakenUp
<1>4. Window(old.sent, old.seen)
  BY <1>3 DEF WindowInv
<1>5. \A a \in 1..Len(old.seen) : old.seen[a] # m
  BY <1>1 DEF Seen
<1>6. keys = IF m \in Keys THEN Last(MaxKeys, Append(old.seen, m)) ELSE old.seen
  BY DEF Remember
<1> HIDE DEF old, m, keys, q
<1>7. Window(Append(old.sent, m), keys)
  <2>1. CASE m \in Keys
    BY <1>2, <1>4, <1>5, <1>6, <2>1, TakeKey
  <2>2. CASE m \notin Keys
    BY <1>1, <1>2, <1>4, <1>6, <2>2, TakePlain
  <2>3. QED BY <2>1, <2>2
<1>8. Window(TakenUp(q), q.seen)
  BY <1>2, <1>3, <1>7
<1>9. QED BY <1>1, <1>8, OneWindow

\* A step that leaves what each session has taken, and its window.
LEMMA SameWindow ==
  ASSUME WindowInv,
         \A t \in Sockets : /\ TakenUp(stream'[t]) = TakenUp(stream[t])
                            /\ stream'[t].seen = stream[t].seen
  PROVE  WindowInv'
<1>1. ASSUME NEW t \in Sockets PROVE Window(TakenUp(stream'[t]), stream'[t].seen)
  BY <1>1 DEF WindowInv
<1>2. QED BY <1>1 DEF WindowInv

\* A message that is dropped was not taken; one that has been sent was.
LEMMA PassWindow ==
  ASSUME RealtimeTypeOK, WindowInv, NEW s \in Sockets,
         SkipMalformed(s) \/ SkipDuplicate(s) \/ Sent(s)
  PROVE  WindowInv'
<1> DEFINE old == stream[s]
<1>1. old \in Session
  BY DEF RealtimeTypeOK
<1>2. Window(TakenUp(old), old.seen)
  BY DEF WindowInv
<1>3. CASE SkipMalformed(s) \/ SkipDuplicate(s)
  <2> DEFINE q == Dequeued(s)
  <2>1. SessionIs(s, q)
    BY <1>3 DEF SkipMalformed, SkipDuplicate
  <2>2. q.sent = old.sent /\ q.sending = old.sending /\ q.seen = old.seen
    BY <1>1 DEF Dequeued, Session
  <2>3. Window(TakenUp(q), q.seen)
    BY <1>2, <2>2 DEF TakenUp
  <2> HIDE DEF q, old
  <2>4. QED BY <2>1, <2>3, OneWindow
<1>4. CASE Sent(s)
  <2> DEFINE all == TakenUp(old)   q == [old EXCEPT !.sent = all, !.sending = <<>>]
  <2>1. SessionIs(s, q)
    BY <1>4 DEF Sent, TakenUp
  <2>2. all \in Seq(Messages)
    BY <1>1, ConcatProperties DEF TakenUp, Session
  <2> HIDE DEF all
  <2>3. q.sent = all /\ q.sending = <<>> /\ q.seen = old.seen
    BY <1>1 DEF Session
  <2>4. TakenUp(q) = all
    BY <2>2, <2>3, ConcatEmptySeq DEF TakenUp
  <2>5. Window(TakenUp(q), q.seen)
    BY <1>2, <2>3, <2>4 DEF all
  <2> HIDE DEF q, old
  <2>6. QED BY <2>1, <2>5, OneWindow
<1>5. QED BY <1>3, <1>4

\* A session begins with an empty window, and closed it has one.
LEMMA OpenCloseWindow ==
  ASSUME RealtimeTypeOK, WindowInv, NEW s \in Sockets,
         Connect(s) \/ \E how \in {"disconnects", "errors", "cancelled"} : End(s, how)
  PROVE  WindowInv'
<1> DEFINE h == Last(History, published)
           q == [Closed EXCEPT !.open = TRUE, !.queue = h]
<1>1. SessionIs(s, q) \/ SessionIs(s, Closed)
  BY DEF Connect, End
<1> HIDE DEF h
<1>2. /\ q.sent = <<>> /\ q.sending = <<>> /\ q.seen = <<>>
      /\ Closed.sent = <<>> /\ Closed.sending = <<>> /\ Closed.seen = <<>>
  BY DEF Closed
<1> HIDE DEF q
<1>3. Window(TakenUp(q), q.seen) /\ Window(TakenUp(Closed), Closed.seen)
  BY <1>2, EmptyWindow DEF TakenUp
<1>4. QED BY <1>1, <1>3, OneWindow

\* A publication is queued, and the steps that are not of a session leave them.
LEMMA OthersWindow ==
  ASSUME RealtimeTypeOK, WindowInv,
         \/ UNCHANGED stream
         \/ \E m \in Messages : Publish(m)
  PROVE  WindowInv'
<1>1. CASE UNCHANGED stream
  BY <1>1, SameWindow
<1>2. ASSUME NEW m \in Messages, Publish(m) PROVE WindowInv'
  <2>1. ASSUME NEW t \in Sockets
        PROVE  /\ TakenUp(stream'[t]) = TakenUp(stream[t])
               /\ stream'[t].seen = stream[t].seen
    <3> DEFINE longer == Append(stream[t].queue, m)
    <3>1. stream'[t] = IF t \in Open THEN [stream[t] EXCEPT !.queue = longer] ELSE stream[t]
      BY <1>2 DEF Publish
    <3> HIDE DEF longer
    <3>2. stream[t] \in Session
      BY DEF RealtimeTypeOK
    <3>3. /\ stream'[t].sent = stream[t].sent /\ stream'[t].sending = stream[t].sending
          /\ stream'[t].seen = stream[t].seen
      BY <3>1, <3>2 DEF Session
    <3>4. QED BY <3>3 DEF TakenUp
  <2>2. QED BY <2>1, SameWindow
<1>3. QED BY <1>1, <1>2

\* The window begins and stays.
LEMMA WindowInvHolds == RealtimeSpec => []WindowInv
<1>1. RealtimeInit => WindowInv
  <2> SUFFICES ASSUME RealtimeInit, NEW s \in Sockets
               PROVE  Window(TakenUp(stream[s]), stream[s].seen)
    BY DEF WindowInv
  <2>1. stream[s].sent = <<>> /\ stream[s].sending = <<>> /\ stream[s].seen = <<>>
    BY DEF RealtimeInit, Closed
  <2>2. QED BY <2>1, EmptyWindow DEF TakenUp
<1>2. RealtimeTypeOK /\ WindowInv /\ [RealtimeNext]_realtimeVars => WindowInv'
  <2> SUFFICES ASSUME RealtimeTypeOK, WindowInv, [RealtimeNext]_realtimeVars PROVE WindowInv'
    OBVIOUS
  <2>1. CASE UNCHANGED realtimeVars
    BY <2>1, OthersWindow DEF realtimeVars
  <2>2. CASE StartBackend \/ ResetMetrics \/ \E m \in Messages : Publish(m)
    BY <2>2, OthersWindow DEF StartBackend, ResetMetrics
  <2>3. ASSUME NEW s \in Sockets,
               \/ Connect(s) \/ ConnectFails(s)
               \/ SkipMalformed(s) \/ SkipDuplicate(s) \/ Take(s) \/ Sent(s)
               \/ \E how \in {"disconnects", "errors", "cancelled"} : End(s, how)
        PROVE  WindowInv'
    <3>1. CASE ConnectFails(s)
      BY <3>1, OthersWindow DEF ConnectFails
    <3>2. QED BY <2>3, <3>1, TakeWindow, PassWindow, OpenCloseWindow
  <2>4. QED BY <2>1, <2>2, <2>3 DEF RealtimeNext
<1>3. RealtimeInv => RealtimeTypeOK
  BY DEF RealtimeInv
<1>4. QED BY <1>1, <1>2, <1>3, RealtimeInvHolds, PTL DEF RealtimeSpec

\* What a session has taken is what it has sent, and then what it is sending.
LEMMA TakenOrder ==
  ASSUME NEW q \in Session
  PROVE  /\ Len(q.sent) \in Nat /\ Len(TakenUp(q)) \in Nat /\ Len(q.sent) <= Len(TakenUp(q))
         /\ \A i \in 1..Len(q.sent) : TakenUp(q)[i] = q.sent[i]
         /\ \A i \in 1..Len(TakenUp(q)) :
              \/ \E k \in 1..Len(q.sent) : q.sent[k] = TakenUp(q)[i]
              \/ \E k \in 1..Len(q.sending) : q.sending[k] = TakenUp(q)[i]
<1> DEFINE a == q.sent   b == q.sending   all == a \o b
<1>1. a \in Seq(Messages) /\ b \in Seq(Messages) /\ TakenUp(q) = all
  BY DEF Session, TakenUp
<1> HIDE DEF a, b
<1>2. Len(a) \in Nat /\ Len(b) \in Nat
  BY <1>1, LenProperties
<1>3. /\ Len(all) = Len(a) + Len(b)
      /\ \A i \in 1..(Len(a) + Len(b)) : all[i] = IF i <= Len(a) THEN a[i] ELSE b[i - Len(a)]
  BY <1>1, ConcatProperties
<1> HIDE DEF all
<1>4. \A i \in 1..Len(a) : all[i] = a[i]
  BY <1>2, <1>3
<1>5. ASSUME NEW i \in 1..Len(all)
      PROVE  \/ \E k \in 1..Len(a) : a[k] = all[i]
             \/ \E k \in 1..Len(b) : b[k] = all[i]
  <2>1. CASE i <= Len(a)
    BY <1>2, <1>3, <2>1
  <2>2. CASE ~(i <= Len(a))
    <3>1. i - Len(a) \in 1..Len(b) /\ all[i] = b[i - Len(a)]
      BY <1>2, <1>3, <2>2
    <3>2. QED BY <3>1
  <2>3. QED BY <2>1, <2>2
<1>6. Len(a) <= Len(all) /\ Len(all) \in Nat
  BY <1>2, <1>3
<1>7. QED BY <1>1, <1>2, <1>4, <1>5, <1>6 DEF a, b

\* What the window says of what a client has been sent is Deduplicates.
LEMMA WindowDeduplicates == RealtimeTypeOK /\ WindowInv => Deduplicates
<1> SUFFICES ASSUME RealtimeTypeOK, WindowInv PROVE Deduplicates
  OBVIOUS
<1>1. ASSUME NEW s \in Sockets
      PROVE  stream[s] \in Session /\ Window(TakenUp(stream[s]), stream[s].seen)
  BY DEF RealtimeTypeOK, WindowInv
<1>2. NoRepeatWithinWindow
  <2> SUFFICES ASSUME NEW s \in Sockets,
                      NEW i \in 1..Len(stream[s].sent), NEW j \in 1..Len(stream[s].sent),
                      i < j, stream[s].sent[i] = stream[s].sent[j], stream[s].sent[i] \in Keys
               PROVE  MaxKeys <= Cardinality({stream[s].sent[k] : k \in (i + 1)..(j - 1)}
                                               \cap (Keys \ {stream[s].sent[i]}))
    BY DEF NoRepeatWithinWindow
  <2> DEFINE sent == stream[s].sent   all == TakenUp(stream[s])
  <2>1. /\ Len(sent) \in Nat /\ Len(sent) <= Len(all) /\ Len(all) \in Nat
        /\ Alike(all, sent, Len(sent)) /\ Apart(all)
        /\ i \in 1..Len(sent) /\ j \in 1..(Len(sent) + 1) /\ j \in Nat
        /\ \A k \in 1..Len(sent) : all[k] = sent[k]
    BY <1>1, TakenOrder DEF Window, Alike
  <2>2. Far(all, i, j)
    BY <2>1 DEF Apart
  <2> HIDE DEF all
  <2> HIDE DEF sent
  <2>3. Far(sent, i, j)
    BY <2>1, <2>2, OthersAppended
  <2> USE DEF sent
  <2>4. QED BY <2>3 DEF Far, Others
<1>3. SeenWasSent
  <2> SUFFICES ASSUME NEW s \in Sockets, NEW a \in 1..Len(stream[s].seen)
               PROVE  \/ \E i \in 1..Len(stream[s].sent) : stream[s].sent[i] = stream[s].seen[a]
                      \/ \E i \in 1..Len(stream[s].sending) :
                           stream[s].sending[i] = stream[s].seen[a]
    BY DEF SeenWasSent, Seen, Open
  <2> DEFINE q == stream[s]
  <2>1. q \in Session /\ Window(TakenUp(q), q.seen)
    BY <1>1
  <2> HIDE DEF q
  <2>2. PICK i \in 1..Len(TakenUp(q)) : TakenUp(q)[i] = q.seen[a]
    BY <2>1 DEF Window, q
  <2>3. \/ \E k \in 1..Len(q.sent) : q.sent[k] = TakenUp(q)[i]
        \/ \E k \in 1..Len(q.sending) : q.sending[k] = TakenUp(q)[i]
    BY <2>1, TakenOrder
  <2>4. QED BY <2>2, <2>3 DEF q
<1>4. QED BY <1>2, <1>3 DEF Deduplicates

\* stream_pubsub sends a key again only when at least MaxKeys other keys came between, and
\* drops as a duplicate only what this client was sent or is being sent, for any number of
\* clients and keys, any length of the window and any messages that come.
THEOREM DeduplicatesHolds == RealtimeSpec => []Deduplicates
<1>1. RealtimeInv => RealtimeTypeOK
  BY DEF RealtimeInv
<1>2. QED BY <1>1, RealtimeInvHolds, WindowInvHolds, WindowDeduplicates, PTL

=============================================================================
