--------------------------- MODULE EventBusProofs ---------------------------
(***************************************************************************)
(* Proofs about EventBus, for any numbers of events, replicas, attempts,   *)
(* prefetched deliveries and crashes.  The inductive invariant IInv says   *)
(* where the one live copy of an event can be and, for each place, how     *)
(* often the event may have been attempted and handled so far.             *)
(***************************************************************************)
EXTENDS EventBus, SequenceTheorems, TLAPS

\* The history of crashes is read as its variables everywhere below.
USE DEF crashVars

\* What handleMessage has established when it stands at a stage.
StageFacts ==
  \A d \in inflight :
    /\ d.stage = "nack" => d.attempt < MaxAttempts
    /\ d.stage = "ack" => handled[d.event] > 0
    /\ d.stage = "ackDLQ" => DeadLettered(d.event) /\ Exhausted(d.event)

\* Only events the broker routed are live, and nothing ran for the others.
OnlyPublished ==
  \A e \in Events :
    /\ Live(e) => e \in published
    /\ e \notin published => runs[e] = 0 /\ handled[e] = 0

\* A retry that only a process remembers is also in the dead letter queue.
RetryBackedUp == \A t \in timers : DeadLettered(t.event)

\* Invocations so far, by the place of the live copy.
RunsSoFar ==
  /\ \A i \in DOMAIN queue : runs[queue[i].event] <= queue[i].attempt - 1 + cut[queue[i].event]
  /\ \A d \in inflight :
       /\ d.stage # "orphan" => runs[d.event] <= d.attempt + cut[d.event]
       /\ d.stage = "orphan" => runs[d.event] <= d.attempt - 1 + cut[d.event]
  /\ \A t \in timers : runs[t.event] <= t.attempt - 1 + cut[t.event]

\* Completed invocations so far, by the place of the live copy.
HandledSoFar ==
  /\ \A i \in DOMAIN queue : handled[queue[i].event] <= unacked[queue[i].event]
  /\ \A d \in inflight : d.stage # "ack" => handled[d.event] <= unacked[d.event]
  /\ \A t \in timers : handled[t.event] <= unacked[t.event]

\* An event that is nowhere live any more has come to its end: it was handled, its
\* attempts are used up, or its armed retry died with the process that held it.
EndsHaveReasons ==
  \A e \in published : Live(e) \/ handled[e] > 0 \/ Exhausted(e) \/ e \in forgotten

IInv ==
  /\ TypeOK
  /\ StageFacts
  /\ OnlyPublished
  /\ OneLiveCopy
  /\ RetryBackedUp
  /\ EveryEventAccounted
  /\ EndsHaveReasons
  /\ RunsSoFar
  /\ InvocationsBounded
  /\ HandledSoFar
  /\ DuplicatesNeedCrashes

-----------------------------------------------------------------------------
(* The three operations on the main queue.                                 *)

LEMMA AppendFacts ==
  ASSUME NEW S, NEW q \in Seq(S), NEW m \in S
  PROVE  /\ Append(q, m) \in Seq(S)
         /\ DOMAIN Append(q, m) = DOMAIN q \union {Len(q) + 1}
         /\ Len(q) + 1 \notin DOMAIN q
         /\ \A i \in DOMAIN q : Append(q, m)[i] = q[i]
         /\ Append(q, m)[Len(q) + 1] = m
  OBVIOUS

LEMMA TailFacts ==
  ASSUME NEW S, NEW q \in Seq(S), q # <<>>
  PROVE  /\ Head(q) \in S /\ 1 \in DOMAIN q /\ q[1] = Head(q)
         /\ Tail(q) \in Seq(S)
         /\ \A i \in DOMAIN Tail(q) : i \in Nat /\ i + 1 \in DOMAIN q /\ i + 1 # 1
                                      /\ Tail(q)[i] = q[i + 1]
         /\ \A i \in DOMAIN q : i # 1 => i - 1 \in DOMAIN Tail(q) /\ Tail(q)[i - 1] = q[i]
  BY HeadTailProperties

LEMMA PushFacts ==
  ASSUME NEW S, NEW q \in Seq(S), NEW m \in S
  PROVE  /\ <<m>> \o q \in Seq(S)
         /\ 1 \in DOMAIN (<<m>> \o q) /\ (<<m>> \o q)[1] = m
         /\ \A i \in DOMAIN (<<m>> \o q) :
              i \in Nat /\ (i = 1 \/ (i - 1 \in DOMAIN q /\ (<<m>> \o q)[i] = q[i - 1]))
         /\ \A i \in DOMAIN q :
              i \in Nat /\ i + 1 \in DOMAIN (<<m>> \o q) /\ (<<m>> \o q)[i + 1] = q[i]
  BY ConcatProperties

LEMMA QueueTyped ==
  ASSUME TypeOK
  PROVE  \A i \in DOMAIN queue : /\ queue[i].event \in Events
                                /\ queue[i].attempt \in Nat
                                /\ runs[queue[i].event] \in Nat
                                /\ handled[queue[i].event] \in Nat
  <1>1. ASSUME NEW i \in DOMAIN queue PROVE queue[i] \in Message
    BY ElementOfSeq, LenProperties DEF TypeOK
  <1>2. ASSUME NEW m \in Message PROVE m.event \in Events /\ m.attempt \in Nat
    BY MaxAttemptsAssumption DEF Message, Attempts
  <1>3. ASSUME NEW e \in Events PROVE runs[e] \in Nat /\ handled[e] \in Nat
    BY DEF TypeOK
  <1> QED BY <1>1, <1>2, <1>3

-----------------------------------------------------------------------------
LEMMA InitIInv == Init => IInv
  <1> SUFFICES ASSUME Init PROVE IInv
    OBVIOUS
  <1>1. TypeOK
    <2>1. queue \in Seq(Message)
      BY EmptySeq DEF Init
    <2>2. bound \in BOOLEAN
      BY DEF Init
    <2>3. crashes \in 0 .. MaxCrashes
      BY MaxCrashesAssumption DEF Init
    <2>4. /\ runs \in [Events -> Nat] /\ handled \in [Events -> Nat]
          /\ cut \in [Events -> Nat] /\ unacked \in [Events -> Nat] /\ forgotten \subseteq Events
      BY DEF Init
    <2> QED BY <2>1, <2>2, <2>3, <2>4 DEF Init, TypeOK
  <1>2. /\ queue = <<>> /\ DOMAIN queue = {} /\ inflight = {} /\ timers = {}
        /\ published = {}
        /\ \A e \in Events : cut[e] = 0 /\ unacked[e] = 0
        /\ \A e \in Events : runs[e] = 0 /\ handled[e] = 0
    BY DEF Init
  <1>3. StageFacts /\ OnlyPublished /\ OneLiveCopy /\ RetryBackedUp /\ EveryEventAccounted
        /\ EndsHaveReasons
    BY <1>2
    DEF StageFacts, OnlyPublished, OneLiveCopy, RetryBackedUp, EveryEventAccounted, EndsHaveReasons,
        Exhausted, Live, Queued, InFlight, Armed
  <1>4. RunsSoFar /\ InvocationsBounded /\ HandledSoFar /\ DuplicatesNeedCrashes
    BY <1>2, MaxAttemptsAssumption
    DEF RunsSoFar, InvocationsBounded, HandledSoFar, DuplicatesNeedCrashes
  <1> QED BY <1>1, <1>3, <1>4 DEF IInv

LEMMA SubscribeIInv == ASSUME IInv, Subscribe PROVE IInv'
  BY DEF IInv, Subscribe, historyVars, TypeOK, StageFacts, OnlyPublished, OneLiveCopy,
         RetryBackedUp, EveryEventAccounted, EndsHaveReasons, Exhausted, RunsSoFar,
         InvocationsBounded, HandledSoFar, DuplicatesNeedCrashes, Live, Queued, InFlight, Armed,
         DeadLettered

LEMMA PublishIInv == ASSUME IInv, NEW e \in Events, Publish(e) PROVE IInv'
  <1> USE DEF IInv, historyVars
  <1>1. CASE ~bound
    <2>1. /\ UNCHANGED <<bound, published, queue, inflight, timers, dlq, runs, handled>>
          /\ UNCHANGED crashVars
      BY <1>1 DEF Publish
    <2>2. TypeOK'
      BY <1>1, <2>1 DEF Publish, TypeOK
    <2> QED
      BY <2>1, <2>2
      DEF StageFacts, OnlyPublished, OneLiveCopy, RetryBackedUp, EveryEventAccounted,
          EndsHaveReasons, Exhausted, RunsSoFar, InvocationsBounded, HandledSoFar,
          DuplicatesNeedCrashes, Live, Queued, InFlight, Armed, DeadLettered
  <1>2. CASE bound
    <2> DEFINE m == [event |-> e, attempt |-> 1]
    <2>1. m \in Message /\ queue \in Seq(Message)
      BY MaxAttemptsAssumption DEF TypeOK, Message, Attempts
    <2>2. /\ queue' = Append(queue, m) /\ e \notin published
          /\ published' = published \union {e}
          /\ UNCHANGED <<bound, dropped, inflight, timers, dlq, runs, handled>>
          /\ UNCHANGED crashVars
      BY <1>2 DEF Publish
    <2> HIDE DEF m
    <2>3. /\ queue' \in Seq(Message)
          /\ DOMAIN queue' = DOMAIN queue \union {Len(queue) + 1}
          /\ Len(queue) + 1 \notin DOMAIN queue
          /\ \A i \in DOMAIN queue : queue'[i] = queue[i]
          /\ queue'[Len(queue) + 1] = m
      BY <2>1, <2>2, AppendFacts
    <2>4. m.event = e /\ m.attempt = 1
      BY DEF m
    <2>5. ~Queued(e) /\ ~InFlight(e) /\ ~Armed(e) /\ runs[e] = 0 /\ handled[e] = 0
      BY <2>2 DEF OnlyPublished, Live
    <2>6. TypeOK'
      BY <2>2, <2>3 DEF TypeOK
    <2>7. \A x \in Events : /\ Queued(x)' <=> Queued(x) \/ x = e
                            /\ InFlight(x)' <=> InFlight(x)
                            /\ Armed(x)' <=> Armed(x)
                            /\ DeadLettered(x)' <=> DeadLettered(x)
      BY <2>2, <2>3, <2>4 DEF Queued, InFlight, Armed, DeadLettered, Exhausted
    <2>8. (StageFacts /\ RetryBackedUp)'
      BY <2>2, <2>7 DEF StageFacts, RetryBackedUp, DeadLettered, Exhausted
    <2>9. (OnlyPublished /\ EveryEventAccounted /\ EndsHaveReasons)'
      BY <2>2, <2>7, <2>5
      DEF OnlyPublished, EveryEventAccounted, EndsHaveReasons, Exhausted, Live, TypeOK
    <2>10. OneLiveCopy'
      BY <2>2, <2>3, <2>4, <2>5, <2>7 DEF OneLiveCopy, Queued
    <2>11. (RunsSoFar /\ HandledSoFar)'
      BY <2>2, <2>3, <2>4, <2>5 DEF RunsSoFar, HandledSoFar, TypeOK
    <2>12. (InvocationsBounded /\ DuplicatesNeedCrashes)'
      BY <2>2 DEF InvocationsBounded, DuplicatesNeedCrashes
    <2> QED BY <2>6, <2>8, <2>9, <2>10, <2>11, <2>12
  <1> QED BY <1>1, <1>2

LEMMA DeliverIInv == ASSUME IInv, NEW c \in Consumers, Deliver(c) PROVE IInv'
  <1> USE DEF IInv
  <1> DEFINE m == Head(queue)
             d == [event |-> m.event, attempt |-> m.attempt, consumer |-> c, stage |-> "handler"]
  <1>1. /\ m \in Message /\ 1 \in DOMAIN queue /\ queue[1] = m
        /\ Tail(queue) \in Seq(Message)
        /\ \A i \in DOMAIN Tail(queue) : i \in Nat /\ i + 1 \in DOMAIN queue /\ i + 1 # 1
                                         /\ Tail(queue)[i] = queue[i + 1]
        /\ \A i \in DOMAIN queue :
             i # 1 => i - 1 \in DOMAIN Tail(queue) /\ Tail(queue)[i - 1] = queue[i]
    BY TailFacts DEF TypeOK, Deliver
  <1>2. /\ inflight' = inflight \union {d}
        /\ queue' = Tail(queue)
        /\ runs' = [runs EXCEPT ![m.event] = @ + 1]
        /\ UNCHANGED <<bound, published, dropped, timers, dlq, handled>>
        /\ UNCHANGED crashVars
    BY DEF Deliver, brokerVars
  <1>3. /\ m.event \in Events /\ m.attempt \in Attempts /\ d \in Delivery
        /\ d.event = m.event /\ d.attempt = m.attempt /\ d.stage = "handler"
    BY <1>1 DEF Message, Delivery, Stages
  <1> HIDE DEF m, d
  <1>4. Queued(m.event) /\ ~InFlight(m.event) /\ ~Armed(m.event) /\ m.event \in published
    BY <1>1, <1>3 DEF OneLiveCopy, OnlyPublished, Live, Queued
  <1>5. TypeOK'
    BY <1>1, <1>2, <1>3 DEF TypeOK
  <1>6. \A x \in Events : /\ Queued(x)' <=> Queued(x) /\ x # m.event
                          /\ InFlight(x)' <=> InFlight(x) \/ x = m.event
                          /\ Armed(x)' <=> Armed(x)
                          /\ DeadLettered(x)' <=> DeadLettered(x)
    <2>1. \A x \in Events : Queued(x)' => Queued(x) /\ x # m.event
      BY <1>1, <1>2 DEF Queued, OneLiveCopy
    <2>2. \A x \in Events : Queued(x) /\ x # m.event => Queued(x)'
      BY <1>1, <1>2 DEF Queued
    <2>3. \A x \in Events : InFlight(x)' <=> InFlight(x) \/ x = m.event
      BY <1>2, <1>3 DEF InFlight
    <2> QED BY <1>2, <2>1, <2>2, <2>3 DEF Armed, DeadLettered, Exhausted
  <1>7. (StageFacts /\ RetryBackedUp)'
    BY <1>2, <1>3, <1>6 DEF StageFacts, RetryBackedUp, DeadLettered, Exhausted
  <1>8. (OnlyPublished /\ EveryEventAccounted /\ EndsHaveReasons)'
    BY <1>2, <1>4, <1>6
    DEF OnlyPublished, EveryEventAccounted, EndsHaveReasons, Exhausted, Live, TypeOK
  <1>9. OneLiveCopy'
    <2>1. \A i, j \in DOMAIN queue' : queue'[i].event = queue'[j].event => i = j
      BY <1>1, <1>2 DEF OneLiveCopy
    <2>2. \A d1, d2 \in inflight' : d1.event = d2.event => d1 = d2
      BY <1>2, <1>3, <1>4 DEF OneLiveCopy, InFlight
    <2> QED BY <1>2, <1>4, <1>6, <2>1, <2>2 DEF OneLiveCopy
  <1>10. \A x \in Events : runs'[x] = IF x = m.event THEN runs[x] + 1 ELSE runs[x]
    BY <1>2, <1>3 DEF TypeOK
  <1>11. runs[m.event] <= m.attempt - 1 + cut[m.event] /\ handled[m.event] <= unacked[m.event]
    BY <1>1 DEF RunsSoFar, HandledSoFar
  <1>12. RunsSoFar'
    <2>1. \A i \in DOMAIN queue' : queue'[i] \in Message /\ queue'[i].event # m.event
      BY <1>1, <1>2 DEF OneLiveCopy
    <2>2. \A i \in DOMAIN queue' :
           runs'[queue'[i].event] <= queue'[i].attempt - 1 + cut'[queue'[i].event]
      BY <1>1, <1>2, <1>10, <2>1 DEF RunsSoFar, Message
    <2>3. \A x \in inflight : x.event \in Events /\ x.event # m.event
      BY <1>4 DEF InFlight, TypeOK, Delivery
    <2>4. runs'[d.event] <= d.attempt + cut'[d.event]
      BY <1>2, <1>3, <1>10, <1>11 DEF TypeOK, Attempts
    <2>5. \A t \in timers : t.event \in Events /\ t.event # m.event
      BY <1>4 DEF Armed, TypeOK, Timer
    <2> QED BY <1>2, <1>3, <1>10, <2>2, <2>3, <2>4, <2>5 DEF RunsSoFar
  <1>13. HandledSoFar'
    <2>1. \A i \in DOMAIN queue' : handled[queue'[i].event] <= unacked[queue'[i].event]
      BY <1>1, <1>2 DEF HandledSoFar
    <2> QED BY <1>2, <1>3, <1>11, <2>1 DEF HandledSoFar
  <1>14. (InvocationsBounded /\ DuplicatesNeedCrashes)'
    <2>1. m.attempt \in Nat /\ m.attempt <= MaxAttempts /\ MaxAttempts \in Nat
      BY <1>3, MaxAttemptsAssumption DEF Attempts
    <2>2. runs[m.event] \in Nat /\ cut[m.event] \in Nat
      BY <1>3 DEF TypeOK
    <2>3. runs[m.event] + 1 <= MaxAttempts + cut[m.event]
      BY <1>11, <2>1, <2>2
    <2> QED BY <1>2, <1>10, <2>3 DEF InvocationsBounded, DuplicatesNeedCrashes
  <1> QED BY <1>5, <1>7, <1>8, <1>9, <1>12, <1>13, <1>14

-----------------------------------------------------------------------------
(* The steps of handleMessage.                                             *)

\* Moving a delivery to another stage leaves every copy where it was.
LEMMA MovedFacts ==
  ASSUME TypeOK, OneLiveCopy, NEW d \in inflight, NEW s \in Stages, inflight' = Moved(d, s)
  PROVE  /\ inflight' \subseteq Delivery
         /\ \A x \in inflight' : \/ x \in inflight /\ x.event # d.event
                                 \/ x = At(d, s)
         /\ At(d, s) \in inflight' /\ At(d, s).stage = s
         /\ At(d, s).event = d.event /\ At(d, s).attempt = d.attempt
         /\ \A x \in inflight : x # d => x \in inflight'
         /\ \A e : InFlight(e)' <=> InFlight(e)
         /\ \A d1, d2 \in inflight' : d1.event = d2.event => d1 = d2
  <1>1. /\ At(d, s) \in Delivery /\ At(d, s).stage = s
        /\ At(d, s).event = d.event /\ At(d, s).attempt = d.attempt
    BY DEF TypeOK, Delivery, At
  <1>2. inflight' = (inflight \ {d}) \union {At(d, s)}
    BY DEF Moved
  <1>3. \A x \in inflight : x.event = d.event => x = d
    BY DEF OneLiveCopy
  <1> HIDE DEF Moved
  <1>4. inflight' \subseteq Delivery
    BY <1>1, <1>2 DEF TypeOK
  <1>5. \A x \in inflight' : (x \in inflight /\ x.event # d.event) \/ x = At(d, s)
    BY <1>2, <1>3
  <1>6. \A e : InFlight(e)' <=> InFlight(e)
    BY <1>1, <1>2 DEF InFlight
  <1>7. \A d1, d2 \in inflight' : d1.event = d2.event => d1 = d2
    BY <1>1, <1>5 DEF OneLiveCopy
  <1> QED BY <1>1, <1>2, <1>4, <1>5, <1>6, <1>7

LEMMA HandlerReturnsIInv == ASSUME IInv, NEW d \in inflight, HandlerReturns(d) PROVE IInv'
  <1> USE DEF IInv
  <1>1. /\ inflight' = Moved(d, "ack") /\ d.stage = "handler" /\ "ack" \in Stages
        /\ handled' = [handled EXCEPT ![d.event] = @ + 1]
        /\ UNCHANGED <<bound, published, dropped, queue, timers, dlq, runs>>
        /\ UNCHANGED crashVars
    BY DEF HandlerReturns, brokerVars, Stages
  <1>2. /\ inflight' \subseteq Delivery
        /\ \A x \in inflight' : \/ x \in inflight /\ x.event # d.event
                                \/ x = At(d, "ack")
        /\ At(d, "ack") \in inflight' /\ At(d, "ack").stage = "ack"
        /\ At(d, "ack").event = d.event /\ At(d, "ack").attempt = d.attempt
        /\ \A e : InFlight(e)' <=> InFlight(e)
        /\ \A d1, d2 \in inflight' : d1.event = d2.event => d1 = d2
    BY <1>1, MovedFacts
  <1>3. d \in Delivery /\ d.event \in Events /\ d.attempt \in Attempts
    BY DEF TypeOK, Delivery
  <1>4. \A e \in Events : handled'[e] = IF e = d.event THEN handled[e] + 1 ELSE handled[e]
    BY <1>1, <1>3 DEF TypeOK
  <1>5. /\ handled[d.event] \in Nat /\ handled[d.event] <= unacked[d.event]
        /\ d.event \in published /\ ~Queued(d.event) /\ ~Armed(d.event)
    BY <1>1, <1>3 DEF HandledSoFar, TypeOK, OnlyPublished, Live, InFlight, OneLiveCopy
  <1>6. TypeOK'
    BY <1>1, <1>2, <1>3 DEF TypeOK
  <1>7. \A e \in Events : /\ Queued(e)' <=> Queued(e)
                          /\ Armed(e)' <=> Armed(e)
                          /\ DeadLettered(e)' <=> DeadLettered(e)
    BY <1>1 DEF Queued, Armed, DeadLettered, Exhausted
  <1>8. StageFacts'
    <2>1. handled'[d.event] > 0
      BY <1>3, <1>4, <1>5
    <2>2. \A x \in inflight : x.event \in Events
      BY DEF TypeOK, Delivery
    <2> QED BY <1>1, <1>2, <1>3, <1>4, <2>1, <2>2 DEF StageFacts, DeadLettered, Exhausted
  <1>9. (RetryBackedUp /\ OnlyPublished /\ EveryEventAccounted /\ EndsHaveReasons /\ OneLiveCopy)'
    BY <1>1, <1>2, <1>3, <1>4, <1>5, <1>7
    DEF RetryBackedUp, OnlyPublished, EveryEventAccounted, EndsHaveReasons, Exhausted, OneLiveCopy,
        Live, DeadLettered, TypeOK
  <1>10. RunsSoFar'
    BY <1>1, <1>2 DEF RunsSoFar
  <1>11. HandledSoFar'
    <2>1. \A i \in DOMAIN queue : queue[i].event # d.event /\ queue[i].event \in Events
      BY <1>5, QueueTyped DEF Queued
    <2>2. \A t \in timers : t.event # d.event /\ t.event \in Events
      BY <1>5 DEF Armed, TypeOK, Timer
    <2>3. \A x \in inflight : x.event \in Events
      BY DEF TypeOK, Delivery
    <2> QED BY <1>1, <1>2, <1>4, <2>1, <2>2, <2>3 DEF HandledSoFar
  <1>12. (InvocationsBounded /\ DuplicatesNeedCrashes)'
    BY <1>1, <1>4, <1>5 DEF InvocationsBounded, DuplicatesNeedCrashes, TypeOK
  <1> QED BY <1>6, <1>8, <1>9, <1>10, <1>11, <1>12

LEMMA HandlerThrowsIInv == ASSUME IInv, NEW d \in inflight, HandlerThrows(d) PROVE IInv'
  <1> USE DEF IInv
  <1> DEFINE s == IF d.attempt < MaxAttempts THEN "nack" ELSE "sendToDLQ"
  <1>1. /\ inflight' = Moved(d, s) /\ d.stage = "handler" /\ s \in Stages
        /\ s \notin {"ack", "ackDLQ", "orphan"} /\ (s = "nack" => d.attempt < MaxAttempts)
        /\ UNCHANGED <<bound, published, dropped, queue, timers, dlq, runs, handled>>
        /\ UNCHANGED crashVars
    BY DEF HandlerThrows, brokerVars, historyVars, Stages
  <1> HIDE DEF s
  <1>2. /\ inflight' \subseteq Delivery
        /\ \A x \in inflight' : \/ x \in inflight /\ x.event # d.event
                                \/ x = At(d, s)
        /\ At(d, s).stage = s
        /\ At(d, s).event = d.event /\ At(d, s).attempt = d.attempt
        /\ \A e : InFlight(e)' <=> InFlight(e)
        /\ \A d1, d2 \in inflight' : d1.event = d2.event => d1 = d2
    BY <1>1, MovedFacts
  <1>3. TypeOK'
    BY <1>1, <1>2 DEF TypeOK
  <1>4. StageFacts'
    BY <1>1, <1>2 DEF StageFacts, DeadLettered, Exhausted
  <1>5. (RetryBackedUp /\ OnlyPublished /\ EveryEventAccounted /\ EndsHaveReasons /\ OneLiveCopy)'
    BY <1>1, <1>2
    DEF RetryBackedUp, OnlyPublished, EveryEventAccounted, EndsHaveReasons, Exhausted, OneLiveCopy,
        Live, Queued, Armed, DeadLettered
  <1>6. (RunsSoFar /\ HandledSoFar)'
    BY <1>1, <1>2 DEF RunsSoFar, HandledSoFar
  <1>7. (InvocationsBounded /\ DuplicatesNeedCrashes)'
    BY <1>1 DEF InvocationsBounded, DuplicatesNeedCrashes
  <1> QED BY <1>3, <1>4, <1>5, <1>6, <1>7

LEMMA SendToDLQIInv == ASSUME IInv, NEW d \in inflight, SendToDLQ(d) PROVE IInv'
  <1> USE DEF IInv
  <1> DEFINE x0 == [event |-> d.event, attempt |-> d.attempt, via |-> "exhausted"]
  <1>1. /\ inflight' = Moved(d, "ackDLQ") /\ d.stage = "sendToDLQ" /\ "ackDLQ" \in Stages
        /\ dlq' = dlq \union {x0} /\ x0.event = d.event /\ x0.via = "exhausted"
        /\ UNCHANGED <<bound, published, dropped, queue, timers, runs, handled>>
        /\ UNCHANGED crashVars
    BY DEF SendToDLQ, brokerVars, historyVars, Stages
  <1>2. /\ inflight' \subseteq Delivery
        /\ \A x \in inflight' : \/ x \in inflight /\ x.event # d.event
                                \/ x = At(d, "ackDLQ")
        /\ At(d, "ackDLQ").stage = "ackDLQ"
        /\ At(d, "ackDLQ").event = d.event /\ At(d, "ackDLQ").attempt = d.attempt
        /\ \A e : InFlight(e)' <=> InFlight(e)
        /\ \A d1, d2 \in inflight' : d1.event = d2.event => d1 = d2
    BY <1>1, MovedFacts
  <1>3. x0 \in DeadLetter
    BY DEF TypeOK, Delivery, DeadLetter
  <1> HIDE DEF x0
  <1>4. \A e : /\ DeadLettered(e)' <=> DeadLettered(e) \/ e = d.event
               /\ Exhausted(e)' <=> Exhausted(e) \/ e = d.event
    BY <1>1 DEF DeadLettered, Exhausted
  <1>5. TypeOK'
    BY <1>1, <1>2, <1>3 DEF TypeOK
  <1>6. (StageFacts /\ RetryBackedUp)'
    BY <1>1, <1>2, <1>4 DEF StageFacts, RetryBackedUp
  <1>7. (OnlyPublished /\ OneLiveCopy)'
    BY <1>1, <1>2 DEF OnlyPublished, OneLiveCopy, Live, Queued, Armed
  <1>8. (EveryEventAccounted /\ EndsHaveReasons)'
    BY <1>1, <1>2, <1>4 DEF EveryEventAccounted, EndsHaveReasons, Live, Queued, Armed
  <1>9. (RunsSoFar /\ HandledSoFar)'
    BY <1>1, <1>2 DEF RunsSoFar, HandledSoFar
  <1>10. (InvocationsBounded /\ DuplicatesNeedCrashes)'
    BY <1>1 DEF InvocationsBounded, DuplicatesNeedCrashes
  <1> QED BY <1>5, <1>6, <1>7, <1>9, <1>10, <1>8

LEMMA AckIInv == ASSUME IInv, NEW d \in inflight, Ack(d) PROVE IInv'
  <1> USE DEF IInv
  <1>1. /\ inflight' = inflight \ {d}
        /\ UNCHANGED <<bound, published, dropped, queue, timers, dlq, runs, handled>>
        /\ UNCHANGED crashVars
    BY DEF Ack, brokerVars, historyVars
  <1>2. handled[d.event] > 0 \/ (DeadLettered(d.event) /\ Exhausted(d.event))
    BY DEF Ack, StageFacts
  <1>3. TypeOK'
    BY <1>1 DEF TypeOK
  <1>4. (StageFacts /\ RetryBackedUp)'
    BY <1>1 DEF StageFacts, RetryBackedUp, DeadLettered, Exhausted
  <1>5. /\ \A e : e # d.event => (InFlight(e)' <=> InFlight(e))
        /\ \A e : Queued(e)' <=> Queued(e)
        /\ \A e : Armed(e)' <=> Armed(e)
        /\ \A e : DeadLettered(e)' <=> DeadLettered(e)
        /\ \A e : Exhausted(e)' <=> Exhausted(e)
    BY <1>1 DEF InFlight, Queued, Armed, DeadLettered, Exhausted
  <1>6. (EveryEventAccounted /\ EndsHaveReasons)'
    BY <1>1, <1>2, <1>5 DEF EveryEventAccounted, EndsHaveReasons, Live
  <1>7. (OnlyPublished /\ OneLiveCopy)'
    BY <1>1 DEF OnlyPublished, OneLiveCopy, Live, Queued, InFlight, Armed
  <1>8. (RunsSoFar /\ HandledSoFar /\ InvocationsBounded /\ DuplicatesNeedCrashes)'
    BY <1>1 DEF RunsSoFar, HandledSoFar, InvocationsBounded, DuplicatesNeedCrashes
  <1> QED BY <1>3, <1>4, <1>6, <1>7, <1>8

LEMMA NackIInv == ASSUME IInv, NEW d \in inflight, NackAndArmRetry(d) PROVE IInv'
  <1> USE DEF IInv
  <1> DEFINE x0 == [event |-> d.event, attempt |-> d.attempt, via |-> "nack"]
             t0 == [event |-> d.event, attempt |-> d.attempt + 1, consumer |-> d.consumer]
  <1>1. /\ inflight' = inflight \ {d} /\ d.stage = "nack"
        /\ dlq' = dlq \union {x0} /\ x0.event = d.event
        /\ timers' = timers \union {t0} /\ t0.event = d.event /\ t0.attempt = d.attempt + 1
        /\ UNCHANGED <<bound, published, dropped, queue, runs, handled>>
        /\ UNCHANGED crashVars
    BY DEF NackAndArmRetry, brokerVars, historyVars
  <1>2. d \in Delivery /\ d.event \in Events /\ d.attempt \in Attempts
    BY DEF TypeOK, Delivery
  <1>3. x0 \in DeadLetter /\ t0 \in Timer
    BY <1>1, <1>2, MaxAttemptsAssumption DEF StageFacts, Delivery, DeadLetter, Timer, Attempts
  <1> HIDE DEF x0, t0
  <1>4. /\ ~Queued(d.event) /\ ~Armed(d.event) /\ d.event \in published
        /\ \A x \in inflight : x.event = d.event => x = d
    BY <1>2 DEF OneLiveCopy, OnlyPublished, Live, InFlight
  <1>5. /\ \A e : DeadLettered(e)' <=> DeadLettered(e) \/ e = d.event
        /\ \A e : Armed(e)' <=> Armed(e) \/ e = d.event
        /\ \A e : InFlight(e)' <=> InFlight(e) /\ e # d.event
        /\ \A e : Queued(e)' <=> Queued(e)
    BY <1>1, <1>4 DEF DeadLettered, Exhausted, Armed, InFlight, Queued
  <1>6. TypeOK'
    BY <1>1, <1>3 DEF TypeOK
  <1>7. (StageFacts /\ RetryBackedUp)'
    BY <1>1, <1>5 DEF StageFacts, RetryBackedUp, Exhausted
  <1>8. (OnlyPublished /\ EveryEventAccounted /\ EndsHaveReasons)'
    BY <1>1, <1>4, <1>5 DEF OnlyPublished, EveryEventAccounted, EndsHaveReasons, Exhausted, Live
  <1>9. OneLiveCopy'
    <2>1. \A t1, t2 \in timers' : t1.event = t2.event => t1 = t2
      BY <1>1, <1>4 DEF OneLiveCopy, Armed
    <2> QED BY <1>1, <1>4, <1>5, <2>1 DEF OneLiveCopy
  <1>10. RunsSoFar'
    <2>1. runs[d.event] <= d.attempt + cut[d.event]
      BY <1>1 DEF RunsSoFar
    <2>2. runs[t0.event] <= t0.attempt - 1 + cut[t0.event]
      BY <1>1, <1>2, <2>1 DEF TypeOK, Attempts
    <2> QED BY <1>1, <2>2 DEF RunsSoFar
  <1>11. HandledSoFar'
    BY <1>1 DEF HandledSoFar
  <1>12. (InvocationsBounded /\ DuplicatesNeedCrashes)'
    BY <1>1 DEF InvocationsBounded, DuplicatesNeedCrashes
  <1> QED BY <1>6, <1>7, <1>8, <1>9, <1>10, <1>11, <1>12

LEMMA RepublishIInv == ASSUME IInv, NEW t \in timers, Republish(t) PROVE IInv'
  <1> USE DEF IInv
  <1> DEFINE m == [event |-> t.event, attempt |-> t.attempt]
  <1>1. /\ queue' = Append(queue, m) /\ timers' = timers \ {t}
        /\ m \in Message /\ m.event = t.event /\ m.attempt = t.attempt
        /\ UNCHANGED <<bound, published, dropped, inflight, dlq, runs, handled>>
        /\ UNCHANGED crashVars
    BY DEF Republish, brokerVars, historyVars, TypeOK, Timer, Message
  <1> HIDE DEF m
  <1>2. /\ queue' \in Seq(Message)
        /\ DOMAIN queue' = DOMAIN queue \union {Len(queue) + 1}
        /\ Len(queue) + 1 \notin DOMAIN queue
        /\ \A i \in DOMAIN queue : queue'[i] = queue[i]
        /\ queue'[Len(queue) + 1] = m
    BY <1>1, AppendFacts DEF TypeOK
  <1>3. /\ t.event \in Events /\ ~Queued(t.event) /\ ~InFlight(t.event)
        /\ t.event \in published /\ DeadLettered(t.event)
        /\ \A u \in timers : u.event = t.event => u = t
    BY DEF OneLiveCopy, OnlyPublished, Live, Armed, RetryBackedUp, TypeOK, Timer
  <1>4. /\ \A e : Queued(e)' <=> Queued(e) \/ e = t.event
        /\ \A e : Armed(e)' <=> Armed(e) /\ e # t.event
        /\ \A e : InFlight(e)' <=> InFlight(e)
        /\ \A e : DeadLettered(e)' <=> DeadLettered(e)
    BY <1>1, <1>2, <1>3 DEF Queued, Armed, InFlight, DeadLettered, Exhausted
  <1>5. TypeOK'
    BY <1>1, <1>2 DEF TypeOK
  <1>6. (StageFacts /\ RetryBackedUp)'
    BY <1>1, <1>4 DEF StageFacts, RetryBackedUp, Exhausted
  <1>7. (OnlyPublished /\ EveryEventAccounted /\ EndsHaveReasons)'
    BY <1>1, <1>3, <1>4 DEF OnlyPublished, EveryEventAccounted, EndsHaveReasons, Exhausted, Live
  <1>8. OneLiveCopy'
    <2>1. \A i, j \in DOMAIN queue' : queue'[i].event = queue'[j].event => i = j
      BY <1>1, <1>2, <1>3 DEF OneLiveCopy, Queued
    <2> QED BY <1>1, <1>3, <1>4, <2>1 DEF OneLiveCopy
  <1>9. (RunsSoFar /\ HandledSoFar)'
    BY <1>1, <1>2 DEF RunsSoFar, HandledSoFar
  <1>10. (InvocationsBounded /\ DuplicatesNeedCrashes)'
    BY <1>1 DEF InvocationsBounded, DuplicatesNeedCrashes
  <1> QED BY <1>5, <1>6, <1>7, <1>8, <1>9, <1>10

LEMMA RequeueIInv == ASSUME IInv, NEW d \in inflight, Requeue(d) PROVE IInv'
  <1> USE DEF IInv
  <1> DEFINE m == [event |-> d.event, attempt |-> d.attempt]
  <1>1. /\ inflight' = inflight \ {d} /\ d.stage = "orphan"
        /\ queue' = <<m>> \o queue
        /\ m \in Message /\ m.event = d.event /\ m.attempt = d.attempt
        /\ UNCHANGED <<bound, published, dropped, timers, dlq, runs, handled>>
        /\ UNCHANGED crashVars
    BY DEF Requeue, brokerVars, historyVars, TypeOK, Delivery, Message
  <1> HIDE DEF m
  <1>2. /\ queue' \in Seq(Message)
        /\ 1 \in DOMAIN queue' /\ queue'[1] = m
        /\ \A i \in DOMAIN queue' :
              i \in Nat /\ (i = 1 \/ (i - 1 \in DOMAIN queue /\ queue'[i] = queue[i - 1]))
        /\ \A i \in DOMAIN queue :
              i \in Nat /\ i + 1 \in DOMAIN queue' /\ queue'[i + 1] = queue[i]
    BY <1>1, PushFacts DEF TypeOK
  <1>3. /\ d.event \in Events /\ ~Queued(d.event) /\ ~Armed(d.event) /\ d.event \in published
        /\ \A x \in inflight : x.event = d.event => x = d
    BY DEF OneLiveCopy, OnlyPublished, Live, InFlight, TypeOK, Delivery
  <1>4. /\ \A e : Queued(e)' <=> Queued(e) \/ e = d.event
        /\ \A e : InFlight(e)' <=> InFlight(e) /\ e # d.event
        /\ \A e : Armed(e)' <=> Armed(e)
        /\ \A e : DeadLettered(e)' <=> DeadLettered(e)
    <2>1. \A e : Queued(e)' => Queued(e) \/ e = d.event
      BY <1>1, <1>2 DEF Queued
    <2>2. \A e : Queued(e) => Queued(e)'
      BY <1>2 DEF Queued
    <2>3. Queued(d.event)'
      BY <1>1, <1>2 DEF Queued
    <2> QED BY <1>1, <1>3, <2>1, <2>2, <2>3 DEF Armed, InFlight, DeadLettered, Exhausted
  <1>5. TypeOK'
    BY <1>1, <1>2 DEF TypeOK
  <1>6. (StageFacts /\ RetryBackedUp)'
    BY <1>1, <1>4 DEF StageFacts, RetryBackedUp, Exhausted
  <1>7. (OnlyPublished /\ EveryEventAccounted /\ EndsHaveReasons)'
    BY <1>1, <1>3, <1>4 DEF OnlyPublished, EveryEventAccounted, EndsHaveReasons, Exhausted, Live
  <1>8. OneLiveCopy'
    <2>1. \A i, j \in DOMAIN queue' : queue'[i].event = queue'[j].event => i = j
      BY <1>1, <1>2, <1>3 DEF OneLiveCopy, Queued
    <2> QED BY <1>1, <1>3, <1>4, <2>1 DEF OneLiveCopy
  <1>9. RunsSoFar'
    <2>1. \A i \in DOMAIN queue' :
           runs'[queue'[i].event] <= queue'[i].attempt - 1 + cut'[queue'[i].event]
      BY <1>1, <1>2 DEF RunsSoFar
    <2> QED BY <1>1, <2>1 DEF RunsSoFar
  <1>10. (RunsSoFar /\ HandledSoFar)'
    BY <1>1, <1>2, <1>9 DEF HandledSoFar
  <1>11. (InvocationsBounded /\ DuplicatesNeedCrashes)'
    BY <1>1 DEF InvocationsBounded, DuplicatesNeedCrashes
  <1> QED BY <1>5, <1>6, <1>7, <1>8, <1>10, <1>11

LEMMA CrashIInv == ASSUME IInv, NEW c \in Consumers, Crash(c) PROVE IInv'
  <1> USE DEF IInv
  <1>1. /\ crashes' \in 0 .. MaxCrashes
        /\ timers' = {t \in timers : t.consumer # c}
        /\ cut' = [e \in Events |-> IF Attempting(c, e, Stages) THEN cut[e] + 1 ELSE cut[e]]
        /\ unacked' = [e \in Events |->
                         IF Attempting(c, e, {"ack"}) THEN unacked[e] + 1 ELSE unacked[e]]
        /\ forgotten' = forgotten \union {t.event : t \in {x \in timers : x.consumer = c}}
        /\ UNCHANGED <<bound, published, dropped, queue, dlq, runs, handled>>
    BY MaxCrashesAssumption DEF Crash, brokerVars, TypeOK
  <1>2. /\ \A d \in inflight : At(d, "orphan") \in Delivery
        /\ \A d \in inflight : At(d, "orphan").stage = "orphan"
        /\ \A d \in inflight : At(d, "orphan").event = d.event
        /\ \A d \in inflight : At(d, "orphan").attempt = d.attempt
    BY DEF TypeOK, Delivery, At, Stages
  <1>3. /\ \A x \in inflight' : \E d \in inflight : x \in {d, At(d, "orphan")}
                                  /\ (d.consumer = c => x = At(d, "orphan"))
                                  /\ (d.consumer # c => x = d)
        /\ \A d \in inflight : d \in inflight' \/ At(d, "orphan") \in inflight'
    BY DEF Crash
  <1>4. inflight' \subseteq Delivery
    BY <1>2, <1>3 DEF TypeOK
  <1>5. /\ \A e : InFlight(e)' <=> InFlight(e)
        /\ \A e : Queued(e)' <=> Queued(e)
        /\ \A e : Armed(e)' => Armed(e)
        /\ \A e : DeadLettered(e)' <=> DeadLettered(e)
        /\ \A e : Exhausted(e)' <=> Exhausted(e)
    <2>1. \A e : InFlight(e)' => InFlight(e)
      BY <1>2, <1>3 DEF InFlight
    <2>2. \A e : InFlight(e) => InFlight(e)'
      BY <1>2, <1>3 DEF InFlight
    <2>3. \A e : Armed(e)' => Armed(e)
      BY <1>1 DEF Armed
    <2>4. \A e : DeadLettered(e)' <=> DeadLettered(e)
      BY <1>1 DEF DeadLettered
    <2>6. \A e : Exhausted(e)' <=> Exhausted(e)
      BY <1>1 DEF Exhausted
    <2>5. \A e : Queued(e)' <=> Queued(e)
      BY <1>1 DEF Queued
    <2> QED BY <2>1, <2>2, <2>3, <2>4, <2>5, <2>6
  <1>6. \A d \in inflight :
           /\ d.event \in Events /\ d.attempt \in Nat
           /\ runs[d.event] \in Nat /\ handled[d.event] \in Nat
    BY MaxAttemptsAssumption DEF TypeOK, Delivery, Attempts
  <1>7. \A e \in Events : /\ cut[e] \in Nat /\ cut'[e] \in Nat /\ cut[e] <= cut'[e]
                            /\ unacked[e] \in Nat /\ unacked'[e] \in Nat
                            /\ unacked[e] <= unacked'[e]
    BY <1>1 DEF TypeOK
  <1>8. ASSUME NEW d \in inflight, d.consumer = c, d.stage # "orphan"
         PROVE  /\ cut'[d.event] = cut[d.event] + 1
                /\ d.stage = "ack" => unacked'[d.event] = unacked[d.event] + 1
    <2>1. /\ Attempting(c, d.event, Stages)
          /\ d.stage = "ack" => Attempting(c, d.event, {"ack"})
      BY <1>8 DEF Attempting, Held, TypeOK, Delivery
    <2> QED BY <1>1, <1>6, <2>1
  <1>9. \A e : Armed(e) => Armed(e)' \/ e \in forgotten'
    BY <1>1 DEF Armed
  <1>10. TypeOK'
    <2>1. cut' \in [Events -> Nat] /\ unacked' \in [Events -> Nat]
      BY <1>1 DEF TypeOK
    <2>2. forgotten' \subseteq Events
      BY <1>1 DEF TypeOK, Timer
    <2> HIDE DEF Crash
    <2> QED BY <1>1, <1>4, <2>1, <2>2 DEF TypeOK
  <1>11. StageFacts'
    BY <1>1, <1>2, <1>3 DEF StageFacts, DeadLettered, Exhausted
  <1>12. RetryBackedUp'
    BY <1>1, <1>5 DEF RetryBackedUp
  <1>13. (OnlyPublished /\ EveryEventAccounted /\ EndsHaveReasons)'
    <2>1. (OnlyPublished /\ EveryEventAccounted)'
      BY <1>1, <1>5 DEF OnlyPublished, EveryEventAccounted, Live
    <2>2. forgotten \subseteq forgotten'
      BY <1>1
    <2>3. \A e : Live(e) => Live(e)' \/ e \in forgotten'
      BY <1>5, <1>9 DEF Live
    <2>4. EndsHaveReasons'
      BY <1>1, <1>5, <2>2, <2>3 DEF EndsHaveReasons
    <2> QED BY <2>1, <2>4
  <1>14. OneLiveCopy'
    <2>1. ASSUME NEW x1 \in inflight', NEW x2 \in inflight', x1.event = x2.event PROVE x1 = x2
      <3>1. PICK d1 \in inflight : /\ x1 \in {d1, At(d1, "orphan")}
                                  /\ (d1.consumer = c => x1 = At(d1, "orphan"))
                                  /\ (d1.consumer # c => x1 = d1)
        BY <1>3
      <3>2. PICK d2 \in inflight : /\ x2 \in {d2, At(d2, "orphan")}
                                  /\ (d2.consumer = c => x2 = At(d2, "orphan"))
                                  /\ (d2.consumer # c => x2 = d2)
        BY <1>3
      <3>3. x1.event = d1.event /\ x2.event = d2.event
        BY <1>2, <3>1, <3>2
      <3>4. d1 = d2
        BY <2>1, <3>3 DEF OneLiveCopy
      <3> QED BY <3>1, <3>2, <3>4
    <2> QED BY <1>1, <1>5, <2>1 DEF OneLiveCopy
  <1>15. RunsSoFar'
    <2>1. \A i \in DOMAIN queue' :
           runs'[queue'[i].event] <= queue'[i].attempt - 1 + cut'[queue'[i].event]
      <3> SUFFICES ASSUME NEW i \in DOMAIN queue
                   PROVE  runs[queue[i].event] <= queue[i].attempt - 1 + cut'[queue[i].event]
        BY <1>1
      <3>1. queue[i].event \in Events /\ queue[i].attempt \in Nat /\ runs[queue[i].event] \in Nat
        BY QueueTyped
      <3>2. runs[queue[i].event] <= queue[i].attempt - 1 + cut[queue[i].event]
        BY DEF RunsSoFar
      <3> QED BY <1>7, <3>1, <3>2
    <2>2. \A x \in inflight' :
            /\ x.stage # "orphan" => runs'[x.event] <= x.attempt + cut'[x.event]
            /\ x.stage = "orphan" => runs'[x.event] <= x.attempt - 1 + cut'[x.event]
      <3> SUFFICES ASSUME NEW x \in inflight'
                   PROVE  /\ x.stage # "orphan" => runs[x.event] <= x.attempt + cut'[x.event]
                          /\ x.stage = "orphan" => runs[x.event] <= x.attempt - 1 + cut'[x.event]
        BY <1>1
      <3>1. PICK d \in inflight : /\ x \in {d, At(d, "orphan")}
                                  /\ d.consumer = c => x = At(d, "orphan")
                                  /\ d.consumer # c => x = d
        BY <1>3
      <3>2. x.event = d.event /\ x.attempt = d.attempt
        BY <1>2, <3>1
      <3>3. /\ d.stage # "orphan" => runs[d.event] <= d.attempt + cut[d.event]
            /\ d.stage = "orphan" => runs[d.event] <= d.attempt - 1 + cut[d.event]
        BY DEF RunsSoFar
      <3>4. CASE d.consumer = c
        <4>1. x.stage = "orphan"
          BY <1>2, <3>1, <3>4
        <4> QED BY <1>6, <1>7, <1>8, <3>2, <3>3, <3>4, <4>1
      <3>5. CASE d.consumer # c
        BY <1>6, <1>7, <3>1, <3>3, <3>5
      <3> QED BY <3>4, <3>5
    <2>3. \A t \in timers' : runs'[t.event] <= t.attempt - 1 + cut'[t.event]
      <3> SUFFICES ASSUME NEW t \in timers PROVE runs[t.event] <= t.attempt - 1 + cut'[t.event]
        BY <1>1
      <3>1. t.event \in Events /\ t.attempt \in Nat /\ runs[t.event] \in Nat
        BY MaxAttemptsAssumption DEF TypeOK, Timer, Attempts
      <3>2. runs[t.event] <= t.attempt - 1 + cut[t.event]
        BY DEF RunsSoFar
      <3> QED BY <1>7, <3>1, <3>2
    <2> QED BY <2>1, <2>2, <2>3 DEF RunsSoFar
  <1>16. HandledSoFar'
    <2>1. \A i \in DOMAIN queue' : handled'[queue'[i].event] <= unacked'[queue'[i].event]
      <3> SUFFICES ASSUME NEW i \in DOMAIN queue
                   PROVE  handled[queue[i].event] <= unacked'[queue[i].event]
        BY <1>1
      <3>1. queue[i].event \in Events /\ handled[queue[i].event] \in Nat
        BY QueueTyped
      <3>2. handled[queue[i].event] <= unacked[queue[i].event]
        BY DEF HandledSoFar
      <3> QED BY <1>7, <3>1, <3>2
    <2>2. \A x \in inflight' : x.stage # "ack" => handled'[x.event] <= unacked'[x.event]
      <3> SUFFICES ASSUME NEW x \in inflight', x.stage # "ack"
                   PROVE  handled[x.event] <= unacked'[x.event]
        BY <1>1
      <3>1. PICK d \in inflight : /\ x \in {d, At(d, "orphan")}
                                  /\ d.consumer = c => x = At(d, "orphan")
                                  /\ d.consumer # c => x = d
        BY <1>3
      <3>2. x.event = d.event
        BY <1>2, <3>1
      <3>3. CASE d.stage # "ack"
        <4>1. handled[d.event] <= unacked[d.event]
          BY <3>3 DEF HandledSoFar
        <4> QED BY <1>6, <1>7, <3>2, <4>1
      <3>4. CASE d.stage = "ack"
        <4>1. d.consumer = c
          BY <3>1, <3>4
        <4>2. handled[d.event] <= 1 + unacked[d.event]
          BY <1>6 DEF DuplicatesNeedCrashes
        <4> QED BY <1>6, <1>7, <1>8, <3>2, <3>4, <4>1, <4>2
      <3> QED BY <3>3, <3>4
    <2>3. \A t \in timers' : handled'[t.event] <= unacked'[t.event]
      <3> SUFFICES ASSUME NEW t \in timers PROVE handled[t.event] <= unacked'[t.event]
        BY <1>1
      <3>1. t.event \in Events /\ handled[t.event] \in Nat
        BY DEF TypeOK, Timer
      <3>2. handled[t.event] <= unacked[t.event]
        BY DEF HandledSoFar
      <3> QED BY <1>7, <3>1, <3>2
    <2> QED BY <2>1, <2>2, <2>3 DEF HandledSoFar
  <1>17. (InvocationsBounded /\ DuplicatesNeedCrashes)'
    <2> SUFFICES ASSUME NEW e \in Events
                 PROVE  runs[e] <= MaxAttempts + cut'[e] /\ handled[e] <= 1 + unacked'[e]
      BY <1>1 DEF InvocationsBounded, DuplicatesNeedCrashes
    <2>1. runs[e] <= MaxAttempts + cut[e] /\ handled[e] <= 1 + unacked[e]
      BY DEF InvocationsBounded, DuplicatesNeedCrashes
    <2>2. runs[e] \in Nat /\ handled[e] \in Nat /\ MaxAttempts \in Nat
      BY MaxAttemptsAssumption DEF TypeOK
    <2> QED BY <1>7, <2>1, <2>2
  <1> QED BY <1>10, <1>11, <1>12, <1>13, <1>14, <1>15, <1>16, <1>17

-----------------------------------------------------------------------------
LEMMA StutterIInv == ASSUME IInv, UNCHANGED vars PROVE IInv'
  BY
  DEF IInv, vars, TypeOK, StageFacts, OnlyPublished, OneLiveCopy, RetryBackedUp,
      EveryEventAccounted, EndsHaveReasons, Exhausted, RunsSoFar, InvocationsBounded, HandledSoFar,
      DuplicatesNeedCrashes, Live, Queued, InFlight, Armed, DeadLettered

LEMMA NextIInv == ASSUME IInv, [Next]_vars PROVE IInv'
  BY SubscribeIInv, PublishIInv, DeliverIInv, HandlerReturnsIInv, HandlerThrowsIInv, AckIInv,
     NackIInv, SendToDLQIInv, RepublishIInv, RequeueIInv, CrashIInv, StutterIInv
  DEF Next, HandleStep

\* The inductive invariant holds in every reachable state of the subscription.
THEOREM InductiveInvariant == Spec => []IInv
  BY InitIInv, NextIInv, PTL DEF Spec

\* Every variable keeps its type; in particular no retry is ever armed or queued
\* with an attempt number above maxAttempts.
THEOREM TypeCorrect == Spec => []TypeOK
  BY InductiveInvariant, PTL DEF IInv

\* No event the broker routed is lost, for any crashes of any replicas.
THEOREM NoEventLost == Spec => []EveryEventAccounted
  BY InductiveInvariant, PTL DEF IInv

\* The retry scheme never forks an event.
THEOREM NeverForked == Spec => []OneLiveCopy
  BY InductiveInvariant, PTL DEF IInv

\* An event causes at most maxAttempts invocations of the handler, and one more for
\* each crash that cut short an attempt at this event.
THEOREM BoundedRetries == Spec => []InvocationsBounded
  BY InductiveInvariant, PTL DEF IInv

\* A handler completes at most once, and once more for each crash between its
\* completion and the acknowledgement of this event.
THEOREM BoundedDuplicates == Spec => []DuplicatesNeedCrashes
  BY InductiveInvariant, PTL DEF IInv

\* What RetriesRunToTheirEnd would leave behind: an event that is no longer live was
\* handled, or its last attempt was dead-lettered, or its own retry was armed in a
\* process that died.  No other way leads out of the retries.
THEOREM RetriesEndForAReason == Spec => []EndsHaveReasons
  BY InductiveInvariant, PTL DEF IInv

-----------------------------------------------------------------------------
(* What is left to do for an event.                                        *)

Places == Stages \union {"queue", "timer"}

\* Attempt a at event e stands at a place: in the queue, at a stage of its delivery, or
\* waiting for its timer.
Copy(e, a, p) ==
  \/ p = "queue" /\ \E i \in DOMAIN queue : queue[i].event = e /\ queue[i].attempt = a
  \/ p = "timer" /\ \E t \in timers : t.event = e /\ t.attempt = a
  \/ \E d \in inflight : d.event = e /\ d.attempt = a /\ d.stage = p

\* The steps that this attempt may still take before the next one.
StepsOf(p) ==
  CASE p \in {"timer", "orphan"} -> 6 [] p = "queue" -> 5 [] p = "handler" -> 4
    [] p = "sendToDLQ" -> 3 [] p = "nack" -> 2 [] p \in {"ack", "ackDLQ"} -> 1

Distance(a, p) == 6 * (MaxAttempts - a) + StepsOf(p)

\* The copy of an event stays where it is, vanishes, or comes nearer to its end.
Nearer ==
  \A e \in Events, a, b \in Attempts, p, q \in Places :
    Copy(e, a, p) /\ Copy(e, b, q)' => <<a, p>> = <<b, q>> \/ Distance(b, q) < Distance(a, p)

LEMMA StepsTyped == \A p \in Places : StepsOf(p) \in 1 .. 6
  BY DEF Places, Stages, StepsOf

\* An event has one copy.
LEMMA OneCopy ==
  ASSUME IInv, NEW e \in Events, NEW a, NEW b, NEW p \in Places, NEW q \in Places,
         Copy(e, a, p), Copy(e, b, q)
  PROVE  a = b /\ p = q
  <1>1. OneLiveCopy /\ \A d \in inflight : d.stage \in Stages
    BY DEF IInv, TypeOK, Delivery
  <1>2. "queue" \notin Stages /\ "timer" \notin Stages
    BY DEF Stages
  <1>3. CASE Queued(e)
    <2>1. ~InFlight(e) /\ ~Armed(e)
      BY <1>1, <1>3 DEF OneLiveCopy
    <2> QED BY <1>1, <2>1 DEF Copy, OneLiveCopy, InFlight, Armed
  <1>4. CASE InFlight(e)
    <2>1. ~Queued(e) /\ ~Armed(e)
      BY <1>1, <1>4 DEF OneLiveCopy
    <2> QED BY <1>1, <2>1 DEF Copy, OneLiveCopy, Queued, Armed
  <1>5. CASE Armed(e)
    <2>1. ~Queued(e) /\ ~InFlight(e)
      BY <1>1, <1>5 DEF OneLiveCopy
    <2> QED BY <1>1, <2>1 DEF Copy, OneLiveCopy, Queued, InFlight
  <1> QED BY <1>3, <1>4, <1>5 DEF Copy, Queued, InFlight, Armed

\* A step that makes no copy.
LEMMA NoCopyMade ==
  ASSUME IInv,
         \A e \in Events, b \in Attempts, q \in Places : Copy(e, b, q)' => Copy(e, b, q)
  PROVE  Nearer
  BY OneCopy DEF Nearer

\* A step that takes the copy of one event to another place.
LEMMA CopyMoves ==
  ASSUME IInv, NEW x \in Events, NEW a0, NEW b0, NEW p0 \in Places, NEW q0 \in Places,
         Copy(x, a0, p0), Distance(b0, q0) < Distance(a0, p0),
         \A e \in Events, b \in Attempts, q \in Places :
           Copy(e, b, q)' => Copy(e, b, q) \/ (e = x /\ b = b0 /\ q = q0)
  PROVE  Nearer
  <1> SUFFICES ASSUME NEW e \in Events, NEW a \in Attempts, NEW b \in Attempts,
                      NEW p \in Places, NEW q \in Places, Copy(e, a, p), Copy(e, b, q)'
               PROVE  <<a, p>> = <<b, q>> \/ Distance(b, q) < Distance(a, p)
    BY DEF Nearer
  <1>1. CASE Copy(e, b, q)
    BY <1>1, OneCopy
  <1>2. CASE e = x /\ b = b0 /\ q = q0
    <2>1. a = a0 /\ p = p0
      BY <1>2, OneCopy
    <2> QED BY <1>2, <2>1
  <1> QED BY <1>1, <1>2

\* Within an attempt, and from an attempt to the next.
LEMMA DistanceFalls ==
  ASSUME NEW a \in Attempts, NEW p \in Places, NEW q \in Places
  PROVE  /\ StepsOf(q) < StepsOf(p) => Distance(a, q) < Distance(a, p)
         /\ Distance(a + 1, "timer") < Distance(a, "nack")
  <1>1. a \in Nat /\ MaxAttempts \in Nat
    BY MaxAttemptsAssumption DEF Attempts
  <1>2. StepsOf(p) \in Nat /\ StepsOf(q) \in Nat
    BY StepsTyped
  <1>3. StepsOf("timer") = 6 /\ StepsOf("nack") = 2
    BY DEF StepsOf
  <1> QED BY <1>1, <1>2, <1>3 DEF Distance

LEMMA PublishNearer == ASSUME IInv, NEW e \in Events, Publish(e) PROVE Nearer
  <1>1. CASE ~bound
    <2>1. UNCHANGED <<queue, inflight, timers>>
      BY <1>1 DEF Publish
    <2> QED BY <2>1, NoCopyMade DEF Copy
  <1>2. CASE bound
    <2> DEFINE m == [event |-> e, attempt |-> 1]
    <2>1. queue' = Append(queue, m) /\ e \notin published /\ UNCHANGED <<inflight, timers>>
      BY <1>2 DEF Publish
    <2>2. m \in Message /\ queue \in Seq(Message) /\ m.event = e
      BY MaxAttemptsAssumption DEF IInv, TypeOK, Message, Attempts
    <2> HIDE DEF m
    <2>3. /\ DOMAIN queue' = DOMAIN queue \union {Len(queue) + 1}
          /\ \A i \in DOMAIN queue : queue'[i] = queue[i]
          /\ queue'[Len(queue) + 1] = m
      BY <2>1, <2>2, AppendFacts
    <2>4. \A x, b, q : Copy(x, b, q)' => Copy(x, b, q) \/ x = e
      BY <2>1, <2>2, <2>3 DEF Copy
    <2>5. ~Live(e)
      BY <2>1 DEF IInv, OnlyPublished
    <2>6. \A a, p : ~Copy(e, a, p)
      BY <2>5 DEF Copy, Live, Queued, InFlight, Armed
    <2> QED BY <2>4, <2>6, OneCopy DEF Nearer
  <1> QED BY <1>1, <1>2

LEMMA DeliverNearer == ASSUME IInv, NEW c \in Consumers, Deliver(c) PROVE Nearer
  <1> DEFINE m == Head(queue)
             d == [event |-> m.event, attempt |-> m.attempt, consumer |-> c, stage |-> "handler"]
  <1>1. /\ m \in Message /\ 1 \in DOMAIN queue /\ queue[1] = m
        /\ \A i \in DOMAIN Tail(queue) : i + 1 \in DOMAIN queue /\ Tail(queue)[i] = queue[i + 1]
    BY TailFacts DEF IInv, TypeOK, Deliver
  <1>2. /\ inflight' = inflight \union {d}
        /\ queue' = Tail(queue)
        /\ UNCHANGED timers
    BY DEF Deliver
  <1>3. m.event \in Events /\ m.attempt \in Attempts
    BY <1>1 DEF Message
  <1>4. d.event = m.event /\ d.attempt = m.attempt /\ d.stage = "handler"
    OBVIOUS
  <1> HIDE DEF m, d
  <1>5. Copy(m.event, m.attempt, "queue")
    BY <1>1 DEF Copy
  <1>6. \A e, b, q : Copy(e, b, q)' => \/ Copy(e, b, q)
                                       \/ e = m.event /\ b = m.attempt /\ q = "handler"
    BY <1>1, <1>2, <1>4 DEF Copy
  <1>7. "queue" \in Places /\ "handler" \in Places /\ StepsOf("handler") < StepsOf("queue")
    BY DEF Places, Stages, StepsOf
  <1>8. Distance(m.attempt, "handler") < Distance(m.attempt, "queue")
    BY <1>3, <1>7, DistanceFalls
  <1> QED BY <1>3, <1>5, <1>6, <1>7, <1>8, CopyMoves

\* The steps of handleMessage that leave the delivery unacknowledged.
LEMMA MovedNearer ==
  ASSUME IInv, NEW d \in inflight, NEW s \in Stages, inflight' = Moved(d, s),
         UNCHANGED <<queue, timers>>, StepsOf(s) < StepsOf(d.stage)
  PROVE  Nearer
  <1>1. d.event \in Events /\ d.attempt \in Attempts /\ d.stage \in Stages
    BY DEF IInv, TypeOK, Delivery
  <1>2. Copy(d.event, d.attempt, d.stage) /\ d.stage \in Places /\ s \in Places
    BY <1>1 DEF Copy, Places
  <1>3. At(d, s).event = d.event /\ At(d, s).attempt = d.attempt /\ At(d, s).stage = s
    BY DEF At
  <1>4. \A x \in inflight' : x \in inflight \/ x = At(d, s)
    BY DEF Moved
  <1>5. \A e, b, q : Copy(e, b, q)' => Copy(e, b, q) \/ (e = d.event /\ b = d.attempt /\ q = s)
    BY <1>3, <1>4 DEF Copy
  <1>6. Distance(d.attempt, s) < Distance(d.attempt, d.stage)
    BY <1>1, <1>2, DistanceFalls
  <1> QED BY <1>1, <1>2, <1>5, <1>6, CopyMoves

LEMMA HandleStepNearer == ASSUME IInv, NEW d \in inflight, HandleStep(d) PROVE Nearer
  <1>1. CASE HandlerReturns(d)
    <2>1. StepsOf("ack") < StepsOf(d.stage) /\ "ack" \in Stages
      BY <1>1 DEF HandlerReturns, StepsOf, Stages
    <2> QED BY <1>1, <2>1, MovedNearer DEF HandlerReturns
  <1>2. CASE HandlerThrows(d)
    <2> DEFINE s == IF d.attempt < MaxAttempts THEN "nack" ELSE "sendToDLQ"
    <2>1. StepsOf(s) < StepsOf(d.stage) /\ s \in Stages
      BY <1>2 DEF HandlerThrows, StepsOf, Stages
    <2>2. inflight' = Moved(d, s) /\ UNCHANGED <<queue, timers>>
      BY <1>2 DEF HandlerThrows
    <2> QED BY <2>1, <2>2, MovedNearer
  <1>3. CASE SendToDLQ(d)
    <2>1. StepsOf("ackDLQ") < StepsOf(d.stage) /\ "ackDLQ" \in Stages
      BY <1>3 DEF SendToDLQ, StepsOf, Stages
    <2> QED BY <1>3, <2>1, MovedNearer DEF SendToDLQ
  <1>4. CASE Ack(d)
    BY <1>4, NoCopyMade DEF Ack, Copy
  <1>5. CASE NackAndArmRetry(d)
    <2> DEFINE t0 == [event |-> d.event, attempt |-> d.attempt + 1, consumer |-> d.consumer]
    <2>1. /\ inflight' = inflight \ {d} /\ timers' = timers \union {t0} /\ d.stage = "nack"
          /\ UNCHANGED queue
      BY <1>5 DEF NackAndArmRetry
    <2>2. d.event \in Events /\ d.attempt \in Attempts
      BY DEF IInv, TypeOK, Delivery
    <2>3. t0.event = d.event /\ t0.attempt = d.attempt + 1
      OBVIOUS
    <2> HIDE DEF t0
    <2>4. \A e, b, q : Copy(e, b, q)' => \/ Copy(e, b, q)
                                         \/ e = d.event /\ b = d.attempt + 1 /\ q = "timer"
      BY <2>1, <2>3 DEF Copy
    <2>5. Copy(d.event, d.attempt, "nack") /\ "nack" \in Places /\ "timer" \in Places
      BY <2>1 DEF Copy, Places, Stages
    <2>6. Distance(d.attempt + 1, "timer") < Distance(d.attempt, "nack")
      BY <2>2, <2>5, DistanceFalls
    <2> QED BY <2>2, <2>4, <2>5, <2>6, CopyMoves
  <1> QED BY <1>1, <1>2, <1>3, <1>4, <1>5 DEF HandleStep

LEMMA RepublishNearer == ASSUME IInv, NEW t \in timers, Republish(t) PROVE Nearer
  <1> DEFINE m == [event |-> t.event, attempt |-> t.attempt]
  <1>1. /\ queue' = Append(queue, m) /\ timers' = timers \ {t} /\ UNCHANGED inflight
        /\ m \in Message /\ m.event = t.event /\ m.attempt = t.attempt
        /\ t.event \in Events /\ t.attempt \in Attempts /\ queue \in Seq(Message)
    BY DEF Republish, IInv, TypeOK, Timer, Message
  <1> HIDE DEF m
  <1>2. /\ DOMAIN queue' = DOMAIN queue \union {Len(queue) + 1}
        /\ \A i \in DOMAIN queue : queue'[i] = queue[i]
        /\ queue'[Len(queue) + 1] = m
    BY <1>1, AppendFacts
  <1>3. \A e, b, q : Copy(e, b, q)' => \/ Copy(e, b, q)
                                       \/ e = t.event /\ b = t.attempt /\ q = "queue"
    BY <1>1, <1>2 DEF Copy
  <1>4. Copy(t.event, t.attempt, "timer")
    BY DEF Copy
  <1>5. "queue" \in Places /\ "timer" \in Places /\ StepsOf("queue") < StepsOf("timer")
    BY DEF Places, StepsOf
  <1>6. Distance(t.attempt, "queue") < Distance(t.attempt, "timer")
    BY <1>1, <1>5, DistanceFalls
  <1> QED BY <1>1, <1>3, <1>4, <1>5, <1>6, CopyMoves

LEMMA RequeueNearer == ASSUME IInv, NEW d \in inflight, Requeue(d) PROVE Nearer
  <1> DEFINE m == [event |-> d.event, attempt |-> d.attempt]
  <1>1. /\ inflight' = inflight \ {d} /\ d.stage = "orphan" /\ UNCHANGED timers
        /\ queue' = <<m>> \o queue
        /\ m \in Message /\ m.event = d.event /\ m.attempt = d.attempt
        /\ d.event \in Events /\ d.attempt \in Attempts /\ queue \in Seq(Message)
    BY DEF Requeue, brokerVars, IInv, TypeOK, Delivery, Message
  <1> HIDE DEF m
  <1>2. /\ queue'[1] = m
        /\ \A i \in DOMAIN queue' : i = 1 \/ (i - 1 \in DOMAIN queue /\ queue'[i] = queue[i - 1])
    BY <1>1, PushFacts
  <1>3. \A e, b, q : Copy(e, b, q)' => \/ Copy(e, b, q)
                                       \/ e = d.event /\ b = d.attempt /\ q = "queue"
    BY <1>1, <1>2 DEF Copy
  <1>4. Copy(d.event, d.attempt, "orphan")
    BY <1>1 DEF Copy
  <1>5. "queue" \in Places /\ "orphan" \in Places /\ StepsOf("queue") < StepsOf("orphan")
    BY DEF Places, Stages, StepsOf
  <1>6. Distance(d.attempt, "queue") < Distance(d.attempt, "orphan")
    BY <1>1, <1>5, DistanceFalls
  <1> QED BY <1>1, <1>3, <1>4, <1>5, <1>6, CopyMoves

LEMMA NextNearer == ASSUME IInv, [Next]_vars, crashes' = crashes PROVE Nearer
  <1>1. CASE UNCHANGED vars
    BY <1>1, NoCopyMade DEF vars, Copy
  <1>2. CASE Subscribe
    BY <1>2, NoCopyMade DEF Subscribe, Copy
  <1>3. ASSUME NEW c \in Consumers PROVE ~Crash(c)
    <2>1. crashes \in Nat
      BY MaxCrashesAssumption DEF IInv, TypeOK
    <2> QED BY <2>1 DEF Crash
  <1> QED BY <1>1, <1>2, <1>3, PublishNearer, DeliverNearer, HandleStepNearer, RepublishNearer,
             RequeueNearer DEF Next

\* Retrying cannot go round in circles: every step that moves the copy of an event, as a
\* message, a delivery or an armed retry, brings it nearer to its end, which is at most
\* six steps per attempt away.  Only a crash may take it back.
THEOREM RetriesComeNearer == Spec => [][crashes' = crashes => Nearer]_vars
  <1>1. IInv /\ [Next]_vars => [crashes' = crashes => Nearer]_vars
    BY NextNearer
  <1> QED BY <1>1, InductiveInvariant, PTL DEF Spec

-----------------------------------------------------------------------------
(* The promise.                                                            *)

\* An event was either routed or dropped.
Apart == published \cap dropped = {}

LEMMA StayApart == Apart /\ [Next]_vars => Apart'
  <1> SUFFICES ASSUME Apart, [Next]_vars PROVE Apart'
    OBVIOUS
  <1>1. ASSUME NEW e \in Events, Publish(e) PROVE Apart'
    BY <1>1 DEF Publish, Apart
  <1>2. ASSUME UNCHANGED <<published, dropped>> PROVE Apart'
    BY <1>2 DEF Apart
  <1> QED BY <1>1, <1>2 DEF Next, Subscribe, Deliver, Crash, HandleStep, HandlerReturns,
             HandlerThrows, Ack, NackAndArmRetry, SendToDLQ, Requeue, Republish, brokerVars, vars

LEMMA Phases ==
  ASSUME Apart, NEW e \in Events
  PROVE  /\ e \in dropped => phaseBar[e] = "dropped"
         /\ e \in published /\ Live(e) => phaseBar[e] = "accepted"
         /\ e \in published /\ ~Live(e) => phaseBar[e] = "retired"
         /\ e \notin published \union dropped => phaseBar[e] = "unsent"
  BY DEF phaseBar, Apart

LEMMA PhasesNext ==
  ASSUME Apart', NEW e \in Events
  PROVE  /\ e \in dropped' => phaseBar'[e] = "dropped"
         /\ e \in published' /\ Live(e)' => phaseBar'[e] = "accepted"
         /\ e \in published' /\ ~Live(e)' => phaseBar'[e] = "retired"
         /\ e \notin published' \union dropped' => phaseBar'[e] = "unsent"
  BY DEF phaseBar, Apart

\* phaseBar and its successor are functions on the events.
LEMMA PhaseDomain ==
  /\ phaseBar = [e \in Events |-> phaseBar[e]]
  /\ phaseBar' = [e \in Events |-> phaseBar'[e]]
  BY DEF phaseBar

\* The phase of an event follows from where its copies are.
LEMMA SamePhase ==
  ASSUME Apart, Apart', NEW e \in Events,
         e \in published' <=> e \in published, e \in dropped' <=> e \in dropped,
         Live(e)' <=> Live(e)
  PROVE  phaseBar'[e] = phaseBar[e]
  BY Phases, PhasesNext

LEMMA SamePhases ==
  ASSUME Apart, Apart', UNCHANGED <<published, dropped>>,
         \A e \in Events : Live(e)' <=> Live(e)
  PROVE  phaseBar' = phaseBar
  BY SamePhase, PhaseDomain

Outcome(e) == handled[e] > 0 \/ DeadLettered(e)

\* A step that only moves copies is a stutter.
LEMMA CopiesMove ==
  ASSUME Apart, Apart', UNCHANGED <<published, dropped, handled, dlq>>,
         \A e \in Events : Live(e)' <=> Live(e)
  PROVE  [Abstract!Next]_(Abstract!vars)
  <1>1. phaseBar' = phaseBar
    BY SamePhases
  <1>2. processedBar' = processedBar /\ deadBar' = deadBar
    BY DEF processedBar, deadBar, DeadLettered
  <1> QED BY <1>1, <1>2 DEF Abstract!vars

\* A step that takes copies away, of events with an outcome, forgets these events.
LEMMA CopiesVanish ==
  ASSUME Apart, Apart', OnlyPublished, UNCHANGED <<published, dropped, handled, dlq>>,
         \A e \in Events : Live(e)' => Live(e),
         \A e \in Events : Live(e) /\ ~Live(e)' => Outcome(e)
  PROVE  [Abstract!Next]_(Abstract!vars)
  <1>1. CASE \A e \in Events : Live(e)' <=> Live(e)
    BY <1>1, CopiesMove
  <1>2. CASE \E e \in Events : Live(e) /\ ~Live(e)'
    <2>1. PICK S \in SUBSET Events : \A e \in Events : e \in S <=> Live(e) /\ ~Live(e)'
      <3>1. {e \in Events : Live(e) /\ ~Live(e)'} \in SUBSET Events
        OBVIOUS
      <3> QED BY <3>1
    <2>2. S # {}
      BY <1>2, <2>1
    <2>3. ASSUME NEW e \in S PROVE phaseBar[e] = "accepted" /\ e \in processedBar \union deadBar
      <3>1. e \in Events /\ Live(e) /\ e \in published /\ Outcome(e)
        BY <2>1 DEF OnlyPublished
      <3>2. phaseBar[e] = "accepted"
        BY <3>1, Phases
      <3> QED BY <3>1, <3>2 DEF Outcome, processedBar, deadBar
    <2>4. ASSUME NEW e \in Events
          PROVE  phaseBar'[e] = IF e \in S THEN "retired" ELSE phaseBar[e]
      <3>1. CASE e \in S
        <4>1. e \in published' /\ ~Live(e)'
          BY <2>1, <3>1 DEF OnlyPublished
        <4> QED BY <3>1, <4>1, PhasesNext
      <3>2. CASE e \notin S
        <4>1. Live(e)' <=> Live(e)
          BY <2>1, <3>2
        <4>2. phaseBar'[e] = phaseBar[e]
          BY <4>1, SamePhase
        <4> QED BY <3>2, <4>2
      <3> QED BY <3>1, <3>2
    <2>5. phaseBar' = [e \in Events |-> IF e \in S THEN "retired" ELSE phaseBar[e]]
      BY <2>4, PhaseDomain
    <2>6. processedBar' = processedBar /\ deadBar' = deadBar
      BY DEF processedBar, deadBar, DeadLettered
    <2>7. Abstract!RetireAll(S)
      BY <2>2, <2>3, <2>5, <2>6 DEF Abstract!RetireAll
    <2> QED BY <2>7 DEF Abstract!Next
  <1> QED BY <1>1, <1>2

\* A live copy of e gains an outcome: e is processed, or dead-lettered.
LEMMA CopyIsHandled ==
  ASSUME Apart, Apart', TypeOK, OnlyPublished, NEW e \in Events, Live(e),
         UNCHANGED <<published, dropped, dlq>>, handled' = [handled EXCEPT ![e] = @ + 1],
         \A x \in Events : Live(x)' <=> Live(x)
  PROVE  [Abstract!Next]_(Abstract!vars)
  <1>1. phaseBar' = phaseBar /\ phaseBar[e] = "accepted"
    BY SamePhases, Phases DEF OnlyPublished
  <1>2. processedBar' = processedBar \union {e}
    <2>1. \A x \in Events : handled'[x] > 0 <=> handled[x] > 0 \/ x = e
      BY DEF TypeOK
    <2> QED BY <2>1 DEF processedBar
  <1>3. deadBar' = deadBar
    BY DEF deadBar, DeadLettered
  <1>4. Abstract!Process(e)
    BY <1>1, <1>2, <1>3 DEF Abstract!Process
  <1> QED BY <1>4 DEF Abstract!Next

LEMMA CopyIsDeadLettered ==
  ASSUME Apart, Apart', OnlyPublished, NEW e \in Events, Live(e), NEW x,
         x.event = e, dlq' = dlq \union {x}, UNCHANGED <<published, dropped, handled>>,
         \A y \in Events : Live(y)' <=> Live(y)
  PROVE  [Abstract!Next]_(Abstract!vars)
  <1>1. phaseBar' = phaseBar /\ phaseBar[e] = "accepted"
    BY SamePhases, Phases DEF OnlyPublished
  <1>2. deadBar' = deadBar \union {e}
    BY DEF deadBar, DeadLettered
  <1>3. processedBar' = processedBar
    BY DEF processedBar
  <1>4. Abstract!DeadLetter(e)
    BY <1>1, <1>2, <1>3 DEF Abstract!DeadLetter
  <1> QED BY <1>4 DEF Abstract!Next

-----------------------------------------------------------------------------
(* Each step of the subscription is a step of the promise, or none.        *)

LEMMA PublishIsPromised ==
  ASSUME IInv, Apart, Apart', NEW e \in Events, Publish(e)
  PROVE  [Abstract!Next]_(Abstract!vars)
  <1>1. /\ UNCHANGED <<inflight, timers, dlq, handled>>
        /\ e \notin published /\ e \notin dropped
    BY DEF Publish, historyVars
  <1>2. processedBar' = processedBar /\ deadBar' = deadBar
    BY <1>1 DEF processedBar, deadBar, DeadLettered
  <1>3. phaseBar[e] = "unsent"
    BY <1>1, Phases
  <1>4. CASE bound
    <2> DEFINE m == [event |-> e, attempt |-> 1]
    <2>1. m \in Message /\ m.event = e
      BY MaxAttemptsAssumption DEF Message, Attempts
    <2>2. queue' = Append(queue, m) /\ published' = published \union {e} /\ dropped' = dropped
      BY <1>4 DEF Publish
    <2> HIDE DEF m
    <2>3. /\ DOMAIN queue' = DOMAIN queue \union {Len(queue) + 1}
          /\ \A i \in DOMAIN queue : queue'[i] = queue[i]
          /\ queue'[Len(queue) + 1] = m
      BY <2>1, <2>2, AppendFacts DEF IInv, TypeOK
    <2>4. \A x \in Events : Queued(x)' <=> Queued(x) \/ x = e
      BY <2>1, <2>3 DEF Queued
    <2>5. \A x \in Events : Live(x)' <=> Live(x) \/ x = e
      BY <1>1, <2>4 DEF Live, InFlight, Armed
    <2>6. ASSUME NEW x \in Events
          PROVE  phaseBar'[x] = IF x = e THEN "accepted" ELSE phaseBar[x]
      <3>1. CASE x = e
        BY <2>2, <2>5, <3>1, PhasesNext
      <3>2. CASE x # e
        <4>1. /\ x \in published' <=> x \in published
              /\ x \in dropped' <=> x \in dropped
              /\ Live(x)' <=> Live(x)
          BY <2>2, <2>5, <3>2
        <4>2. phaseBar'[x] = phaseBar[x]
          BY <4>1, SamePhase
        <4> QED BY <3>2, <4>2
      <3> QED BY <3>1, <3>2
    <2>7. phaseBar' = [phaseBar EXCEPT ![e] = "accepted"]
      BY <2>6, PhaseDomain
    <2>8. Abstract!Accept(e)
      BY <1>2, <1>3, <2>7 DEF Abstract!Accept
    <2> QED BY <2>8 DEF Abstract!Next
  <1>5. CASE ~bound
    <2>1. /\ UNCHANGED <<published, queue>> /\ dropped' = dropped \union {e}
      BY <1>5 DEF Publish
    <2>2. \A x \in Events : Live(x)' <=> Live(x)
      BY <1>1, <2>1 DEF Live, Queued, InFlight, Armed
    <2>3. ASSUME NEW x \in Events
          PROVE  phaseBar'[x] = IF x = e THEN "dropped" ELSE phaseBar[x]
      <3>1. CASE x = e
        BY <2>1, <3>1, PhasesNext
      <3>2. CASE x # e
        <4>1. /\ x \in published' <=> x \in published
              /\ x \in dropped' <=> x \in dropped
          BY <2>1, <3>2
        <4>2. phaseBar'[x] = phaseBar[x]
          BY <2>2, <4>1, SamePhase
        <4> QED BY <3>2, <4>2
      <3> QED BY <3>1, <3>2
    <2>4. phaseBar' = [phaseBar EXCEPT ![e] = "dropped"]
      BY <2>3, PhaseDomain
    <2>5. Abstract!Drop(e)
      BY <1>2, <1>3, <2>4 DEF Abstract!Drop
    <2> QED BY <2>5 DEF Abstract!Next
  <1> QED BY <1>4, <1>5

LEMMA DeliverIsPromised ==
  ASSUME IInv, Apart, Apart', NEW c \in Consumers, Deliver(c)
  PROVE  [Abstract!Next]_(Abstract!vars)
  <1> DEFINE m == Head(queue)
             d == [event |-> m.event, attempt |-> m.attempt, consumer |-> c, stage |-> "handler"]
  <1>1. /\ 1 \in DOMAIN queue /\ queue[1] = m
        /\ \A i \in DOMAIN Tail(queue) : i + 1 \in DOMAIN queue /\ Tail(queue)[i] = queue[i + 1]
        /\ \A i \in DOMAIN queue :
             i # 1 => i - 1 \in DOMAIN Tail(queue) /\ Tail(queue)[i - 1] = queue[i]
    BY TailFacts DEF IInv, TypeOK, Deliver
  <1>2. /\ inflight' = inflight \union {d} /\ queue' = Tail(queue)
        /\ UNCHANGED <<published, dropped, timers, dlq, handled>>
    BY DEF Deliver, brokerVars
  <1>3. d.event = m.event
    OBVIOUS
  <1> HIDE DEF m, d
  <1>4. \A x : Queued(x)' => Queued(x)
    BY <1>1, <1>2 DEF Queued
  <1>5. \A x : Queued(x) => Queued(x)' \/ x = m.event
    BY <1>1, <1>2 DEF Queued
  <1>6. Queued(m.event)
    BY <1>1 DEF Queued
  <1>7. \A x : InFlight(x)' <=> InFlight(x) \/ x = m.event
    BY <1>2, <1>3 DEF InFlight
  <1>8. \A x \in Events : Live(x)' <=> Live(x)
    BY <1>2, <1>4, <1>5, <1>6, <1>7 DEF Live, Armed
  <1> QED BY <1>2, <1>8, CopiesMove

LEMMA HandleStepIsPromised ==
  ASSUME IInv, Apart, Apart', NEW d \in inflight, HandleStep(d)
  PROVE  [Abstract!Next]_(Abstract!vars)
  <1>1. d \in Delivery /\ d.event \in Events /\ InFlight(d.event) /\ Live(d.event)
    BY DEF IInv, TypeOK, Delivery, InFlight, Live
  <1>2. TypeOK /\ OneLiveCopy /\ OnlyPublished
    BY DEF IInv
  <1>3. ASSUME NEW s \in Stages, inflight' = Moved(d, s), UNCHANGED <<queue, timers>>
        PROVE  \A x \in Events : Live(x)' <=> Live(x)
    <2>1. \A x : InFlight(x)' <=> InFlight(x)
      BY <1>2, <1>3, MovedFacts
    <2> QED BY <1>3, <2>1 DEF Live, Queued, Armed
  <1>4. CASE HandlerReturns(d)
    <2>1. /\ inflight' = Moved(d, "ack") /\ UNCHANGED <<published, dropped, queue, timers, dlq>>
          /\ handled' = [handled EXCEPT ![d.event] = @ + 1]
      BY <1>4 DEF HandlerReturns, brokerVars
    <2>2. \A x \in Events : Live(x)' <=> Live(x)
      BY <1>3, <2>1 DEF Stages
    <2> QED BY <1>1, <1>2, <2>1, <2>2, CopyIsHandled
  <1>5. CASE HandlerThrows(d)
    <2>1. /\ \E s \in {"nack", "sendToDLQ"} : inflight' = Moved(d, s)
          /\ UNCHANGED <<published, dropped, queue, timers, dlq, handled>>
      BY <1>5 DEF HandlerThrows, brokerVars, historyVars
    <2>2. \A x \in Events : Live(x)' <=> Live(x)
      BY <1>3, <2>1 DEF Stages
    <2> QED BY <2>1, <2>2, CopiesMove
  <1>6. CASE Ack(d)
    <2>1. /\ inflight' = inflight \ {d}
          /\ UNCHANGED <<published, dropped, queue, timers, dlq, handled>>
          /\ d.stage \in {"ack", "ackDLQ"}
      BY <1>6 DEF Ack, brokerVars, historyVars
    <2>2. Outcome(d.event)
      BY <2>1 DEF IInv, StageFacts, Outcome
    <2>3. \A x \in Events : Live(x)' => Live(x)
      BY <2>1 DEF Live, InFlight, Queued, Armed
    <2>4. \A x \in Events : Live(x) /\ ~Live(x)' => Outcome(x)
      BY <2>1, <2>2 DEF Live, InFlight, Queued, Armed
    <2> QED BY <1>2, <2>1, <2>3, <2>4, CopiesVanish
  <1>7. CASE NackAndArmRetry(d)
    <2>1. PICK x : x = [event |-> d.event, attempt |-> d.attempt, via |-> "nack"]
      OBVIOUS
    <2>2. PICK t : t = [event |-> d.event, attempt |-> d.attempt + 1, consumer |-> d.consumer]
      OBVIOUS
    <2>3. /\ inflight' = inflight \ {d} /\ dlq' = dlq \union {x} /\ timers' = timers \union {t}
          /\ UNCHANGED <<published, dropped, queue, handled>>
          /\ x.event = d.event /\ t.event = d.event
      BY <1>7, <2>1, <2>2 DEF NackAndArmRetry, brokerVars, historyVars
    <2>4. \A y \in Events : Armed(y)' <=> Armed(y) \/ y = d.event
      BY <2>3 DEF Armed
    <2>5. \A y \in Events : InFlight(y)' \/ y = d.event <=> InFlight(y)
      BY <1>1, <2>3 DEF InFlight
    <2>6. \A y \in Events : Live(y)' <=> Live(y)
      BY <2>3, <2>4, <2>5 DEF Live, Queued
    <2> QED BY <1>1, <1>2, <2>3, <2>6, CopyIsDeadLettered
  <1>8. CASE SendToDLQ(d)
    <2>1. PICK x : x = [event |-> d.event, attempt |-> d.attempt, via |-> "exhausted"]
      OBVIOUS
    <2>2. /\ inflight' = Moved(d, "ackDLQ") /\ dlq' = dlq \union {x} /\ x.event = d.event
          /\ UNCHANGED <<published, dropped, queue, timers, handled>>
      BY <1>8, <2>1 DEF SendToDLQ, brokerVars, historyVars
    <2>3. \A y \in Events : Live(y)' <=> Live(y)
      BY <1>3, <2>2 DEF Stages
    <2> QED BY <1>1, <1>2, <2>2, <2>3, CopyIsDeadLettered
  <1> QED BY <1>4, <1>5, <1>6, <1>7, <1>8 DEF HandleStep

LEMMA RequeueIsPromised ==
  ASSUME IInv, Apart, Apart', NEW d \in inflight, Requeue(d)
  PROVE  [Abstract!Next]_(Abstract!vars)
  <1>1. PICK m : m = [event |-> d.event, attempt |-> d.attempt]
    OBVIOUS
  <1>2. m \in Message /\ m.event = d.event /\ queue \in Seq(Message)
    BY <1>1 DEF IInv, TypeOK, Delivery, Message
  <1>3. /\ inflight' = inflight \ {d} /\ queue' = <<m>> \o queue
        /\ UNCHANGED <<published, dropped, timers, dlq, handled>>
    BY <1>1 DEF Requeue, brokerVars, historyVars
  <1>4. /\ 1 \in DOMAIN queue' /\ queue'[1] = m
        /\ \A i \in DOMAIN queue' :
             i = 1 \/ (i - 1 \in DOMAIN queue /\ queue'[i] = queue[i - 1])
        /\ \A i \in DOMAIN queue : i + 1 \in DOMAIN queue' /\ queue'[i + 1] = queue[i]
    BY <1>2, <1>3, PushFacts
  <1>5. \A x : Queued(x)' <=> Queued(x) \/ x = d.event
    <2>1. \A x : Queued(x)' => Queued(x) \/ x = d.event
      BY <1>2, <1>4 DEF Queued
    <2>2. \A x : Queued(x) \/ x = d.event => Queued(x)'
      BY <1>2, <1>4 DEF Queued
    <2> QED BY <2>1, <2>2
  <1>6. \A x : InFlight(x)' \/ x = d.event <=> InFlight(x)
    BY <1>3 DEF InFlight
  <1>7. \A x \in Events : Live(x)' <=> Live(x)
    BY <1>3, <1>5, <1>6 DEF Live, Armed
  <1> QED BY <1>3, <1>7, CopiesMove

LEMMA RepublishIsPromised ==
  ASSUME IInv, Apart, Apart', NEW t \in timers, Republish(t)
  PROVE  [Abstract!Next]_(Abstract!vars)
  <1>1. PICK m : m = [event |-> t.event, attempt |-> t.attempt]
    OBVIOUS
  <1>2. m \in Message /\ m.event = t.event /\ queue \in Seq(Message)
    BY <1>1 DEF IInv, TypeOK, Timer, Message
  <1>3. /\ timers' = timers \ {t} /\ queue' = Append(queue, m)
        /\ UNCHANGED <<published, dropped, inflight, dlq, handled>>
    BY <1>1 DEF Republish, brokerVars, historyVars
  <1>4. /\ DOMAIN queue' = DOMAIN queue \union {Len(queue) + 1}
        /\ \A i \in DOMAIN queue : queue'[i] = queue[i]
        /\ queue'[Len(queue) + 1] = m
    BY <1>2, <1>3, AppendFacts
  <1>5. \A x : Queued(x)' <=> Queued(x) \/ x = t.event
    BY <1>2, <1>4 DEF Queued
  <1>6. \A x : Armed(x)' \/ x = t.event <=> Armed(x)
    BY <1>3 DEF Armed
  <1>7. \A x \in Events : Live(x)' <=> Live(x)
    BY <1>3, <1>5, <1>6 DEF Live, InFlight
  <1> QED BY <1>3, <1>7, CopiesMove

\* A crash forgets the retries armed in the replica; their nack dead-lettered a copy.
LEMMA CrashIsPromised ==
  ASSUME IInv, Apart, Apart', NEW c \in Consumers, Crash(c)
  PROVE  [Abstract!Next]_(Abstract!vars)
  <1>1. /\ timers' \subseteq timers
        /\ inflight' = {d \in inflight : d.consumer # c}
                         \union {At(d, "orphan") : d \in {x \in inflight : x.consumer = c}}
        /\ UNCHANGED <<published, dropped, queue, dlq, handled>>
    BY DEF Crash, brokerVars
  <1>2. \A d \in inflight : At(d, "orphan").event = d.event
    BY DEF At
  <1>3. \A x : InFlight(x)' <=> InFlight(x)
    <2>1. ASSUME NEW x, InFlight(x) PROVE InFlight(x)'
      <3>1. PICK d \in inflight : d.event = x
        BY <2>1 DEF InFlight
      <3>2. d \in inflight' \/ At(d, "orphan") \in inflight'
        BY <1>1
      <3> QED BY <1>2, <3>1, <3>2 DEF InFlight
    <2>2. ASSUME NEW x, InFlight(x)' PROVE InFlight(x)
      <3>1. PICK y \in inflight' : y.event = x
        BY <2>2 DEF InFlight
      <3>2. \E d \in inflight : y = d \/ y = At(d, "orphan")
        BY <1>1
      <3> QED BY <1>2, <3>1, <3>2 DEF InFlight
    <2> QED BY <2>1, <2>2
  <1>4. \A x \in Events : Live(x)' => Live(x)
    BY <1>1, <1>3 DEF Live, Queued, Armed
  <1>5. \A x \in Events : Live(x) /\ ~Live(x)' => Outcome(x)
    <2>1. \A t \in timers : DeadLettered(t.event)
      BY DEF IInv, RetryBackedUp
    <2> QED BY <1>1, <1>3, <2>1 DEF Live, Queued, Armed, Outcome
  <1> QED BY <1>1, <1>4, <1>5, CopiesVanish DEF IInv

LEMMA StepIsPromised ==
  ASSUME IInv, Apart, Apart', [Next]_vars
  PROVE  [Abstract!Next]_(Abstract!vars)
  <1>1. CASE Subscribe
    <2>1. UNCHANGED <<published, dropped, queue, inflight, timers, dlq, handled>>
      BY <1>1 DEF Subscribe, historyVars
    <2>2. \A x \in Events : Live(x)' <=> Live(x)
      BY <2>1 DEF Live, Queued, InFlight, Armed
    <2> QED BY <2>1, <2>2, CopiesMove
  <1>2. CASE UNCHANGED vars
    <2>1. UNCHANGED <<published, dropped, queue, inflight, timers, dlq, handled>>
      BY <1>2 DEF vars
    <2>2. \A x \in Events : Live(x)' <=> Live(x)
      BY <2>1 DEF Live, Queued, InFlight, Armed
    <2> QED BY <2>1, <2>2, CopiesMove
  <1> QED BY <1>1, <1>2, PublishIsPromised, DeliverIsPromised, CrashIsPromised,
             HandleStepIsPromised, RequeueIsPromised, RepublishIsPromised DEF Next

LEMMA InitIsPromised == Init => Abstract!Init /\ Apart
  <1> SUFFICES ASSUME Init PROVE Abstract!Init /\ Apart
    OBVIOUS
  <1>1. Apart
    BY DEF Init, Apart
  <1>2. phaseBar = [e \in Events |-> "unsent"]
    <2>1. \A e \in Events : phaseBar[e] = "unsent"
      BY <1>1, Phases DEF Init
    <2> QED BY <2>1, PhaseDomain
  <1>3. processedBar = {} /\ deadBar = {}
    BY DEF Init, processedBar, deadBar, DeadLettered
  <1> QED BY <1>1, <1>2, <1>3 DEF Abstract!Init

\* The subscription keeps the promise of EventDelivery, as far as it is one of safety: an
\* event is forgotten only once processed or dead-lettered, and then never processed again.
THEOREM KeepsThePromise == Spec => Abstract!Init /\ [][Abstract!Next]_(Abstract!vars)
  <1>1. Init => Abstract!Init /\ Apart
    BY InitIsPromised
  <1>2. Apart /\ [Next]_vars => Apart'
    BY StayApart
  <1>3. IInv /\ Apart /\ Apart' /\ [Next]_vars => [Abstract!Next]_(Abstract!vars)
    BY StepIsPromised
  <1> QED BY <1>1, <1>2, <1>3, InductiveInvariant, PTL DEF Spec
=============================================================================
