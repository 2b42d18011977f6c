------------------------------ MODULE EventBus ------------------------------
(***************************************************************************)
(* One subscription of the RabbitMQ event bus in libs/shared-communication *)
(* (EventPublisher, EventSubscriber): a durable queue bound to one event   *)
(* type, its dead letter queue, and the replicas of the subscribing        *)
(* service.  A failed attempt is nacked without requeue, which moves the   *)
(* broker's copy to the dead letter queue, and a setTimeout in the memory  *)
(* of the process republishes the event with the next attempt number.      *)
(*                                                                         *)
(* The broker (queues, acknowledgements, redelivery after a lost           *)
(* connection) is external: it is modelled by what the code asks of it.    *)
(***************************************************************************)
EXTENDS Integers, Sequences, FiniteSets

CONSTANTS
  Events,       \* the events ever published for this subscription
  Consumers,    \* the replicas of the service that consume the queue
  MaxAttempts,  \* config.retryAttempts || retry.maxAttempts
  Prefetch,     \* config.prefetchCount: unacknowledged deliveries per replica
  MaxCrashes    \* bound of the model: how often a replica may crash

ASSUME MaxAttemptsAssumption == MaxAttempts \in Nat \ {0}
ASSUME PrefetchAssumption == Prefetch \in Nat \ {0}
ASSUME MaxCrashesAssumption == MaxCrashes \in Nat

VARIABLES
  bound,      \* the queue exists and is bound to the exchange
  published,  \* events the broker routed to the queue
  dropped,    \* events published while no queue was bound
  queue,      \* the main queue
  inflight,   \* deliveries not yet acknowledged
  timers,     \* armed setTimeouts: the retry to republish and the process holding it
  dlq,        \* the dead letter queue
  runs,       \* history: runs[e] handler invocations were started for e
  handled,    \* history: handled[e] of them completed
  crashes,    \* history: crashes so far
  cut,        \* history: cut[e] attempts at e ended in a crash
  unacked,    \* history: unacked[e] of them after the handler, before the ack
  forgotten   \* history: the events whose armed retry died with a process

brokerVars == <<bound, published, dropped>>
crashVars == <<crashes, cut, unacked, forgotten>>
historyVars == <<runs, handled, crashes, cut, unacked, forgotten>>
vars == <<bound, published, dropped, queue, inflight, timers, dlq, runs, handled,
          crashes, cut, unacked, forgotten>>

Attempts == 1 .. MaxAttempts
Message == [event : Events, attempt : Attempts]
\* Where handleMessage stands: awaiting the handler; about to acknowledge; about
\* to nack and arm the retry; about to send to the dead letter queue; about to
\* acknowledge after that.  An orphan's process died and the broker has not yet
\* noticed.
Stages == {"handler", "ack", "nack", "sendToDLQ", "ackDLQ", "orphan"}
Delivery == [event : Events, attempt : Attempts, consumer : Consumers, stage : Stages]
Timer == [event : Events, attempt : Attempts, consumer : Consumers]
DeadLetter == [event : Events, attempt : Attempts, via : {"nack", "exhausted"}]

TypeOK ==
  /\ bound \in BOOLEAN
  /\ published \subseteq Events
  /\ dropped \subseteq Events
  /\ queue \in Seq(Message)
  /\ inflight \subseteq Delivery
  /\ timers \subseteq Timer
  /\ dlq \subseteq DeadLetter
  /\ runs \in [Events -> Nat]
  /\ handled \in [Events -> Nat]
  /\ crashes \in 0 .. MaxCrashes
  /\ cut \in [Events -> Nat]
  /\ unacked \in [Events -> Nat]
  /\ forgotten \subseteq Events

Init ==
  /\ bound = FALSE
  /\ published = {}
  /\ dropped = {}
  /\ queue = <<>>
  /\ inflight = {}
  /\ timers = {}
  /\ dlq = {}
  /\ runs = [e \in Events |-> 0]
  /\ handled = [e \in Events |-> 0]
  /\ crashes = 0
  /\ cut = [e \in Events |-> 0]
  /\ unacked = [e \in Events |-> 0]
  /\ forgotten = {}

-----------------------------------------------------------------------------
(* The publisher and the set-up of the subscription.                       *)

\* subscribe(): the durable queue with its dead letter arguments, bound to the
\* topic exchange.  It is asserted again on every reconnect, which changes nothing.
Subscribe ==
  /\ ~bound
  /\ bound' = TRUE
  /\ UNCHANGED <<published, dropped, queue, inflight, timers, dlq>> /\ UNCHANGED historyVars

\* publish() resolves on the broker's confirm, also when no queue is bound; a
\* first publication carries no x-retry-count header, which reads as attempt 1.
Publish(e) ==
  /\ e \notin published \union dropped
  /\ IF bound
     THEN /\ published' = published \union {e}
          /\ queue' = Append(queue, [event |-> e, attempt |-> 1])
          /\ UNCHANGED dropped
     ELSE /\ dropped' = dropped \union {e}
          /\ UNCHANGED <<published, queue>>
  /\ UNCHANGED <<bound, inflight, timers, dlq>> /\ UNCHANGED historyVars

-----------------------------------------------------------------------------
(* handleMessage, handleFailure and republishWithRetry, cut at each await. *)

Held(c) == {d \in inflight : d.consumer = c /\ d.stage # "orphan"}

At(d, stage) ==
  [event |-> d.event, attempt |-> d.attempt, consumer |-> d.consumer, stage |-> stage]

Moved(d, stage) == (inflight \ {d}) \union {At(d, stage)}

\* The broker pushes the head of the queue to a replica below its prefetch limit;
\* handleMessage runs up to the await of the handler.
Deliver(c) ==
  /\ queue # <<>>
  /\ Cardinality(Held(c)) < Prefetch
  /\ inflight' = inflight \union {[event    |-> Head(queue).event,
                                   attempt  |-> Head(queue).attempt,
                                   consumer |-> c,
                                   stage    |-> "handler"]}
  /\ queue' = Tail(queue)
  /\ runs' = [runs EXCEPT ![Head(queue).event] = @ + 1]
  /\ UNCHANGED brokerVars /\ UNCHANGED crashVars /\ UNCHANGED <<timers, dlq, handled>>

\* Slip: an error raised after the handler completed is treated as its failure.
HandlerReturnsThenFails(d) ==
  /\ d.stage = "handler"
  /\ inflight' = Moved(d, IF d.attempt < MaxAttempts THEN "nack" ELSE "sendToDLQ")
  /\ handled' = [handled EXCEPT ![d.event] = @ + 1]
  /\ UNCHANGED brokerVars /\ UNCHANGED crashVars /\ UNCHANGED <<queue, timers, dlq, runs>>

HandlerReturns(d) ==
  /\ d.stage = "handler"
  /\ inflight' = Moved(d, "ack")
  /\ handled' = [handled EXCEPT ![d.event] = @ + 1]
  /\ UNCHANGED brokerVars /\ UNCHANGED crashVars /\ UNCHANGED <<queue, timers, dlq, runs>>

\* Slip: attempts <= maxAttempts in handleFailure.
HandlerThrowsOffByOne(d) ==
  /\ d.stage = "handler"
  /\ inflight' = Moved(d, IF d.attempt <= MaxAttempts THEN "nack" ELSE "sendToDLQ")
  /\ UNCHANGED brokerVars /\ UNCHANGED <<queue, timers, dlq>> /\ UNCHANGED historyVars

\* The catch of handleMessage, and the test of handleFailure.
HandlerThrows(d) ==
  /\ d.stage = "handler"
  /\ inflight' = Moved(d, IF d.attempt < MaxAttempts THEN "nack" ELSE "sendToDLQ")
  /\ UNCHANGED brokerVars /\ UNCHANGED <<queue, timers, dlq>> /\ UNCHANGED historyVars

Ack(d) ==
  /\ d.stage \in {"ack", "ackDLQ"}
  /\ inflight' = inflight \ {d}
  /\ UNCHANGED brokerVars /\ UNCHANGED <<queue, timers, dlq>> /\ UNCHANGED historyVars

\* Slip: the queue is declared without its dead letter arguments.
NackWithoutDeadLetter(d) ==
  /\ d.stage = "nack"
  /\ inflight' = inflight \ {d}
  /\ timers' = timers \union {[event    |-> d.event,
                               attempt  |-> d.attempt + 1,
                               consumer |-> d.consumer]}
  /\ UNCHANGED brokerVars /\ UNCHANGED <<queue, dlq>> /\ UNCHANGED historyVars

\* Slip: nack(msg, false, true), which requeues the broker's copy.
NackWithRequeue(d) ==
  /\ d.stage = "nack"
  /\ inflight' = inflight \ {d}
  /\ queue' = <<[event |-> d.event, attempt |-> d.attempt]>> \o queue
  /\ timers' = timers \union {[event    |-> d.event,
                               attempt  |-> d.attempt + 1,
                               consumer |-> d.consumer]}
  /\ UNCHANGED brokerVars /\ UNCHANGED dlq /\ UNCHANGED historyVars

\* Slip: the republication is forgotten.
NackWithoutRetry(d) ==
  /\ d.stage = "nack"
  /\ inflight' = inflight \ {d}
  /\ dlq' = dlq \union {[event |-> d.event, attempt |-> d.attempt, via |-> "nack"]}
  /\ UNCHANGED brokerVars /\ UNCHANGED <<queue, timers>> /\ UNCHANGED historyVars

\* nack(msg, false, false): not requeued, so the broker dead-letters its copy
\* (x-dead-letter-routing-key); then the setTimeout is armed.
NackAndArmRetry(d) ==
  /\ d.stage = "nack"
  /\ inflight' = inflight \ {d}
  /\ dlq' = dlq \union {[event |-> d.event, attempt |-> d.attempt, via |-> "nack"]}
  /\ timers' = timers \union {[event    |-> d.event,
                               attempt  |-> d.attempt + 1,
                               consumer |-> d.consumer]}
  /\ UNCHANGED brokerVars /\ UNCHANGED queue /\ UNCHANGED historyVars

SendToDLQ(d) ==
  /\ d.stage = "sendToDLQ"
  /\ inflight' = Moved(d, "ackDLQ")
  /\ dlq' = dlq \union {[event |-> d.event, attempt |-> d.attempt, via |-> "exhausted"]}
  /\ UNCHANGED brokerVars /\ UNCHANGED <<queue, timers>> /\ UNCHANGED historyVars

\* The timer fires: republishWithRetry sends to the queue itself.
Republish(t) ==
  /\ timers' = timers \ {t}
  /\ queue' = Append(queue, [event |-> t.event, attempt |-> t.attempt])
  /\ UNCHANGED brokerVars /\ UNCHANGED <<inflight, dlq>> /\ UNCHANGED historyVars

-----------------------------------------------------------------------------
(* A replica dies and is restarted: its timers are gone, and the broker    *)
(* will return what it had not acknowledged.                               *)

\* Replica c is attempting e, and has come to one of the stages.
Attempting(c, e, stages) == \E d \in Held(c) : d.event = e /\ d.stage \in stages

Crash(c) ==
  /\ crashes < MaxCrashes
  /\ crashes' = crashes + 1
  /\ cut' = [e \in Events |-> IF Attempting(c, e, Stages) THEN cut[e] + 1 ELSE cut[e]]
  /\ unacked' = [e \in Events |-> IF Attempting(c, e, {"ack"}) THEN unacked[e] + 1 ELSE unacked[e]]
  /\ forgotten' = forgotten \union {t.event : t \in {x \in timers : x.consumer = c}}
  /\ timers' = {t \in timers : t.consumer # c}
  /\ inflight' = {d \in inflight : d.consumer # c}
                   \union {At(d, "orphan") : d \in {x \in inflight : x.consumer = c}}
  /\ UNCHANGED brokerVars /\ UNCHANGED <<queue, dlq, runs, handled>>

\* The broker notices the closed connection and requeues a delivery at the head.
Requeue(d) ==
  /\ d.stage = "orphan"
  /\ inflight' = inflight \ {d}
  /\ queue' = <<[event |-> d.event, attempt |-> d.attempt]>> \o queue
  /\ UNCHANGED brokerVars /\ UNCHANGED <<timers, dlq>> /\ UNCHANGED historyVars

-----------------------------------------------------------------------------
\* The next step of the handler of delivery d.
HandleStep(d) ==
  HandlerReturns(d) \/ HandlerThrows(d) \/ Ack(d) \/ NackAndArmRetry(d) \/ SendToDLQ(d)

Next ==
  \/ Subscribe
  \/ \E e \in Events : Publish(e)
  \/ \E c \in Consumers : Deliver(c) \/ Crash(c)
  \/ \E d \in inflight : HandleStep(d) \/ Requeue(d)
  \/ \E t \in timers : Republish(t)

Progress(e) ==
  \/ \E d \in inflight : d.event = e /\ (HandleStep(d) \/ Requeue(d))
  \/ \E t \in timers : t.event = e /\ Republish(t)

\* Handlers terminate, timers fire, the broker delivers and notices closed
\* connections.  Nobody is obliged to publish, to subscribe or to crash.
Fairness ==
  /\ WF_vars(\E c \in Consumers : Deliver(c))
  /\ \A e \in Events : WF_vars(Progress(e))

Spec == Init /\ [][Next]_vars /\ Fairness

-----------------------------------------------------------------------------
(* What the subscription guarantees.                                       *)

Queued(e) == \E i \in DOMAIN queue : queue[i].event = e
InFlight(e) == \E d \in inflight : d.event = e
Armed(e) == \E t \in timers : t.event = e
DeadLettered(e) == \E x \in dlq : x.event = e
Exhausted(e) == \E x \in dlq : x.event = e /\ x.via = "exhausted"

\* No event is lost: whatever crashes, an event the broker routed is still with
\* the broker (in the queue, unacknowledged, or dead-lettered) or was handled.
\* The timers do not count: a retry that only a process remembers is not safe.
EveryEventAccounted ==
  \A e \in published : Queued(e) \/ InFlight(e) \/ DeadLettered(e) \/ handled[e] > 0

\* Retrying moves an event, it never forks it: the main queue, the unacknowledged
\* deliveries and the armed retries hold at most one copy of an event, so no two
\* replicas ever process the same event at the same time.
OneLiveCopy ==
  /\ \A i, j \in DOMAIN queue : queue[i].event = queue[j].event => i = j
  /\ \A d1, d2 \in inflight : d1.event = d2.event => d1 = d2
  /\ \A t1, t2 \in timers : t1.event = t2.event => t1 = t2
  /\ \A e \in Events : /\ ~(Queued(e) /\ InFlight(e))
                       /\ ~(Queued(e) /\ Armed(e))
                       /\ ~(InFlight(e) /\ Armed(e))

\* The x-retry-count header bounds the work an event can cause: maxAttempts
\* invocations of the handler, and one more for each attempt at this very event
\* that a crash cut short.  Crashes that hit other events do not count.
InvocationsBounded == \A e \in Events : runs[e] <= MaxAttempts + cut[e]

\* What idempotent handlers must absorb: a handler completes for an event once, and
\* once more only for a crash between the completion and the acknowledgement.  A
\* retry, a crash while the handler runs or one in the failure path adds nothing.
DuplicatesNeedCrashes == \A e \in Events : handled[e] <= 1 + unacked[e]

\* Retrying goes on to its end: an event that was routed is eventually handled or
\* dead-lettered for good by its last attempt, except that its own retry may have
\* died in the memory of a process: the copy that the nack dead-lettered is left.
RetriesRunToTheirEnd ==
  \A e \in Events :
    (e \in published) ~>
      (handled[e] > 0 \/ Exhausted(e) \/ (e \in forgotten /\ DeadLettered(e)))

\* The subscription implements the abstract promise, liveness included.
Live(e) == Queued(e) \/ InFlight(e) \/ Armed(e)

phaseBar ==
  [e \in Events |-> CASE e \in dropped -> "dropped"
                      [] e \in published /\ Live(e) -> "accepted"
                      [] e \in published /\ ~Live(e) -> "retired"
                      [] OTHER -> "unsent"]
processedBar == {e \in Events : handled[e] > 0}
deadBar == {e \in Events : DeadLettered(e)}

Abstract == INSTANCE EventDelivery
               WITH phase <- phaseBar, processed <- processedBar, dead <- deadBar
ImplementsEventDelivery == Abstract!Spec

-----------------------------------------------------------------------------
(* What the code says of the dead letter queue and does not do.            *)

\* "Max retries exceeded, send to DLQ": an event is dead-lettered only once its
\* attempts are used up.
DLQOnlyAfterMaxRetries == \A x \in dlq : x.attempt = MaxAttempts
=============================================================================
