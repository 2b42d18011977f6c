-------------------------- MODULE WebhookDelivery --------------------------
(***************************************************************************)
(* Webhooks: an event of the game is recorded as one delivery per          *)
(* registered webhook, with a job of a BullMQ queue; workers post it to    *)
(* the webhook's endpoint and write the outcome into the delivery's row.   *)
(*                                                                         *)
(* The row and the job live in different stores and are changed one after  *)
(* the other; several processes enqueue and work; the history of each      *)
(* webhook is pruned to its newest rows while jobs are still waiting.      *)
(* Postgres, BullMQ and the endpoints are external.                        *)
(***************************************************************************)
EXTENDS Integers, Sequences, FiniteSets, Functions

CONSTANTS
  Events,           \* the events the game emits
  Webhooks,
  Subscribed,       \* Subscribed[w]: the events of webhook w
  Workers,          \* processes that work on the queue
  RetentionLimit,   \* WEBHOOK_DELIVERY_RETENTION_LIMIT
  MaxRetries,       \* WEBHOOK_MAX_RETRIES
  MaxStalled,       \* how often BullMQ gives a job to another worker
  MaxUpsets         \* bound of the model: how many statements may fail, workers die
                    \* or stop to renew their lock, endpoints answer late, together

Delivery == {d \in Events \X Webhooks : d[1] \in Subscribed[d[2]]}
TotalAttempts == MaxRetries + 1

ASSUME WebhookAssumption ==
  /\ IsFiniteSet(Workers)
  /\ Subscribed \in [Webhooks -> SUBSET Events]
  /\ RetentionLimit \in Nat \ {0} /\ MaxRetries \in Nat /\ MaxStalled \in Nat
  /\ MaxUpsets \in Nat

VARIABLES
  hook,      \* which webhooks are registered
  rows,      \* webhook_deliveries: the status of each delivery, or "none"
  born,      \* the deliveries in the order of createdAt
  enqueuer,  \* enqueueEvent, for each event
  jobs,      \* the queue
  worker,    \* what each worker does
  upsets,    \* failures, deaths, stalls and late answers so far, at each delivery
  posts,     \* history: requests sent for each delivery
  received,  \* history: how many of them the endpoint accepted
  dropped,   \* history: the deliveries whose row was deleted
  revived    \* history: those a worker inserted again

dbVars == <<hook, rows, born>>
postVars == <<posts, received>>
vars == <<hook, rows, born, enqueuer, jobs, worker, upsets, posts, received,
          dropped, revived>>

Statuses == {"pending", "retry", "success", "failed"}

NoDelivery == <<>>

\* delivery: the one being enqueued; todo: the webhooks behind it in the loop; stale: what
\* the query of pruneDeliveryHistory returned.
EnqueuerState ==
  [stage : {"idle", "loop", "insert", "find", "delete", "add", "failed", "unpruned"},
   delivery : Delivery \union {NoDelivery}, todo : SUBSET Webhooks, stale : SUBSET Delivery]

NoWorker == "nobody"
ASSUME WorkerAssumption == NoWorker \notin Workers
Job == [state : {"none", "waiting", "active", "completed", "failed"},
        attempts : 0..TotalAttempts,   \* attemptsMade
        stalls : 0..MaxStalled,
        owner : Workers \union {NoWorker}]

\* status: what the outcome of the request makes of the row; ok: whether process() returns.
WorkerState ==
  [stage : {"idle", "find", "post", "select", "update", "insert", "report"},
   delivery : Delivery \union {NoDelivery}, attempt : 0..TotalAttempts,
   status : Statuses, ok : BOOLEAN]
Idle == [stage |-> "idle", delivery |-> NoDelivery, attempt |-> 0, status |-> "pending",
         ok |-> TRUE]

TypeOK ==
  /\ hook \in [Webhooks -> {"new", "registered", "removed"}]
  /\ rows \in [Delivery -> Statuses \union {"none"}]
  /\ born \in Seq(Delivery)
  /\ enqueuer \in [Events -> EnqueuerState]
  /\ jobs \in [Delivery -> Job]
  /\ worker \in [Workers -> WorkerState]
  /\ upsets \in [Delivery -> Nat]
  /\ posts \in [Delivery -> Nat] /\ received \in [Delivery -> Nat]
  /\ dropped \subseteq Delivery /\ revived \subseteq Delivery

Init ==
  /\ hook = [w \in Webhooks |-> "new"]
  /\ rows = [d \in Delivery |-> "none"]
  /\ born = <<>>
  /\ enqueuer = [e \in Events |-> [stage |-> "idle", delivery |-> NoDelivery,
                                 todo |-> {}, stale |-> {}]]
  /\ jobs = [d \in Delivery |->
               [state |-> "none", attempts |-> 0, stalls |-> 0, owner |-> NoWorker]]
  /\ worker = [v \in Workers |-> Idle]
  /\ upsets = [d \in Delivery |-> 0]
  /\ posts = [d \in Delivery |-> 0] /\ received = [d \in Delivery |-> 0]
  /\ dropped = {} /\ revived = {}

\* Something goes wrong at one delivery.
Upset(d) == SumFunction(upsets) < MaxUpsets /\ upsets' = [upsets EXCEPT ![d] = @ + 1]

RowsOf(w) == {d \in Delivery : d[2] = w /\ rows[d] # "none"}

\* Rows are deleted, whatever became of their jobs.
DeleteRows(ds) ==
  /\ rows' = [d \in Delivery |-> IF d \in ds THEN "none" ELSE rows[d]]
  /\ dropped' = dropped \union {d \in ds : rows[d] # "none"}

-----------------------------------------------------------------------------
(* The owners of webhooks, and the nightly cleanup.                        *)

RegisterWebhook(w) ==
  /\ hook[w] = "new"
  /\ hook' = [hook EXCEPT ![w] = "registered"]
  /\ UNCHANGED <<rows, born, enqueuer, jobs, worker, upsets, dropped, revived>>
  /\ UNCHANGED postVars

\* The foreign key deletes the webhook's deliveries with it; its jobs stay.
RemoveWebhook(w) ==
  /\ hook[w] = "registered"
  /\ hook' = [hook EXCEPT ![w] = "removed"]
  /\ DeleteRows(RowsOf(w))
  /\ UNCHANGED <<born, enqueuer, jobs, worker, upsets, revived>> /\ UNCHANGED postVars

\* Deletes the rows created before some time.
CleanupExpiredDeliveries ==
  \E k \in DOMAIN born :
    /\ \E i \in 1..k : rows[born[i]] # "none"
    /\ DeleteRows({born[i] : i \in 1..k})
    /\ UNCHANGED <<hook, born, enqueuer, jobs, worker, upsets, revived>>
    /\ UNCHANGED postVars

-----------------------------------------------------------------------------
(* enqueueEvent and queueDelivery, cut at each await.                      *)

Current(e) == enqueuer[e].delivery
AtStage(e, stage) == enqueuer[e].stage = stage
GoTo(e, stage) == enqueuer' = [enqueuer EXCEPT ![e].stage = stage, ![e].stale = {}]

\* The event is emitted, and the query returns the webhooks of the moment.
EnqueueEvent(e) ==
  /\ AtStage(e, "idle")
  /\ enqueuer' = [enqueuer EXCEPT ![e].stage = "loop",
                    ![e].todo = {w \in Webhooks : hook[w] = "registered" /\ e \in Subscribed[w]}]
  /\ UNCHANGED <<jobs, worker, upsets, dropped, revived>>
  /\ UNCHANGED dbVars /\ UNCHANGED postVars

\* The next webhook, in the order the query happened to return them: the transaction of
\* save() starts, and createdAt is its now().
BeginSave(e) ==
  /\ AtStage(e, "loop")
  /\ \E w \in enqueuer[e].todo :
       /\ enqueuer' = [enqueuer EXCEPT ![e].stage = "insert", ![e].delivery = <<e, w>>,
                                       ![e].todo = @ \ {w}]
       /\ born' = Append(born, <<e, w>>)
  /\ UNCHANGED <<hook, rows, jobs, worker, upsets, dropped, revived>> /\ UNCHANGED postVars

\* The pending row is committed; without its webhook it violates the foreign key.
SaveDelivery(e) ==
  /\ AtStage(e, "insert")
  /\ IF hook[Current(e)[2]] = "registered"
       THEN rows' = [rows EXCEPT ![Current(e)] = "pending"] /\ GoTo(e, "find")
       ELSE GoTo(e, "failed") /\ UNCHANGED rows
  /\ UNCHANGED <<hook, born, jobs, worker, upsets, dropped, revived>> /\ UNCHANGED postVars

\* The deliveries of a webhook newer than one of them.
Newer(d) ==
  {n \in RowsOf(d[2]) :
     \E i, j \in DOMAIN born : i < j /\ born[i] = d /\ born[j] = n}

\* Slip: keeps one delivery too many.
StaleOffByOne(w) == {d \in RowsOf(w) : Cardinality(Newer(d)) > RetentionLimit}

\* What ORDER BY createdAt DESC OFFSET limit leaves.
Stale(w) == {d \in RowsOf(w) : Cardinality(Newer(d)) >= RetentionLimit}

\* Slip: with nothing to prune, queueDelivery returns before it adds the job.
PruneFindReturnsEarly(e) ==
  /\ AtStage(e, "find")
  /\ LET stale == Stale(Current(e)[2]) IN
     enqueuer' = [enqueuer EXCEPT ![e].stage = IF stale = {} THEN "loop" ELSE "delete",
                                  ![e].stale = stale]
  /\ UNCHANGED <<jobs, worker, upsets, dropped, revived>>
  /\ UNCHANGED dbVars /\ UNCHANGED postVars

\* pruneDeliveryHistory, its query.
PruneFind(e) ==
  /\ AtStage(e, "find")
  /\ LET stale == Stale(Current(e)[2]) IN
     enqueuer' = [enqueuer EXCEPT ![e].stage = IF stale = {} THEN "add" ELSE "delete",
                                  ![e].stale = stale]
  /\ UNCHANGED <<jobs, worker, upsets, dropped, revived>>
  /\ UNCHANGED dbVars /\ UNCHANGED postVars

\* pruneDeliveryHistory, its DELETE.
PruneDelete(e) ==
  /\ AtStage(e, "delete")
  /\ DeleteRows(enqueuer[e].stale)
  /\ GoTo(e, "add")
  /\ UNCHANGED <<hook, born, jobs, worker, upsets, revived>> /\ UNCHANGED postVars

JobAdded(e) == jobs' = [jobs EXCEPT ![Current(e)].state = "waiting"]

\* Adds the job, whose id is the delivery's, and goes on to the next webhook.
AddJob(e) ==
  /\ AtStage(e, "add")
  /\ JobAdded(e)
  /\ GoTo(e, "loop")
  /\ UNCHANGED <<worker, upsets, dropped, revived>>
  /\ UNCHANGED dbVars /\ UNCHANGED postVars

\* A statement or the queue fails, or the process dies: the exception leaves the loop, and
\* neither this webhook's job nor the other webhooks' deliveries are made up for.
EnqueueFails(e) ==
  /\ \/ AtStage(e, "loop") /\ \E w \in enqueuer[e].todo : Upset(<<e, w>>)
     \/ enqueuer[e].stage \in {"insert", "find", "delete", "add"} /\ Upset(Current(e))
  /\ GoTo(e, IF enqueuer[e].stage \in {"find", "delete"} THEN "unpruned" ELSE "failed")
  /\ \/ UNCHANGED jobs
     \/ AtStage(e, "add") /\ JobAdded(e)   \* only the queue's answer is lost
  /\ UNCHANGED <<worker, dropped, revived>> /\ UNCHANGED dbVars /\ UNCHANGED postVars

-----------------------------------------------------------------------------
(* The queue, external.                                                    *)

\* A worker takes a waiting job; the delay between attempts is left out.
Take(v, d) ==
  /\ worker[v].stage = "idle" /\ jobs[d].state = "waiting"
  /\ jobs' = [jobs EXCEPT ![d].state = "active", ![d].owner = v]
  /\ worker' = [worker EXCEPT ![v] = [Idle EXCEPT !.stage = "find", !.delivery = d,
                                                  !.attempt = jobs[d].attempts]]
  /\ UNCHANGED <<enqueuer, upsets, dropped, revived>>
  /\ UNCHANGED dbVars /\ UNCHANGED postVars

Owns(v, d) == jobs[d].state = "active" /\ jobs[d].owner = v

\* Slip: compares attemptsMade before it counts this attempt.
ReportOneMore(v) ==
  LET d == worker[v].delivery IN
  /\ worker[v].stage = "report"
  /\ jobs' = IF ~Owns(v, d)
               THEN jobs
               ELSE [jobs EXCEPT ![d] =
                       [jobs[d] EXCEPT !.owner = NoWorker,
                                 !.attempts = jobs[d].attempts + 1,
                                 !.state = IF worker[v].ok THEN "completed"
                                           ELSE IF jobs[d].attempts < TotalAttempts
                                           THEN "waiting" ELSE "failed"]]
  /\ worker' = [worker EXCEPT ![v] = Idle]
  /\ UNCHANGED <<enqueuer, upsets, dropped, revived>>
  /\ UNCHANGED dbVars /\ UNCHANGED postVars

\* process() returned or threw.  A worker that lost its lock reports in vain.
Report(v) ==
  LET d == worker[v].delivery IN
  /\ worker[v].stage = "report"
  /\ jobs' = IF ~Owns(v, d)
               THEN jobs
               ELSE [jobs EXCEPT ![d] =
                       [jobs[d] EXCEPT !.owner = NoWorker,
                                 !.attempts = jobs[d].attempts + 1,
                                 !.state = IF worker[v].ok THEN "completed"
                                           ELSE IF jobs[d].attempts + 1 < TotalAttempts
                                           THEN "waiting" ELSE "failed"]]
  /\ worker' = [worker EXCEPT ![v] = Idle]
  /\ UNCHANGED <<enqueuer, upsets, dropped, revived>>
  /\ UNCHANGED dbVars /\ UNCHANGED postVars

\* The lock on a job is not renewed: the queue gives the job to somebody else, or gives
\* it up.
Stalled(d) ==
  jobs' = [jobs EXCEPT ![d].owner = NoWorker,
                       ![d].stalls = IF @ < MaxStalled THEN @ + 1 ELSE @,
                       ![d].state = IF jobs[d].stalls < MaxStalled THEN "waiting" ELSE "failed"]

\* Because its worker is dead.
StallDead(d) ==
  /\ jobs[d].state = "active" /\ worker[jobs[d].owner].delivery # d
  /\ Stalled(d)
  /\ UNCHANGED <<enqueuer, worker, upsets, dropped, revived>>
  /\ UNCHANGED dbVars /\ UNCHANGED postVars

\* Although its worker is at it, in a process that did not get round to renewing.
StallAlive(d) ==
  /\ jobs[d].state = "active" /\ worker[jobs[d].owner].delivery = d
  /\ Upset(d)
  /\ Stalled(d)
  /\ UNCHANGED <<enqueuer, worker, dropped, revived>>
  /\ UNCHANGED dbVars /\ UNCHANGED postVars

\* A worker dies; its process is restarted.
Die(v) ==
  /\ worker[v].stage # "idle"
  /\ Upset(worker[v].delivery)
  /\ worker' = [worker EXCEPT ![v] = Idle]
  /\ UNCHANGED <<enqueuer, jobs, dropped, revived>> /\ UNCHANGED dbVars /\ UNCHANGED postVars

-----------------------------------------------------------------------------
(* process(), cut at each await.                                           *)

Step(v, stage) == worker' = [worker EXCEPT ![v].stage = stage]
Return(v, ok) == worker' = [worker EXCEPT ![v].stage = "report", ![v].ok = ok]

\* A delivery without a row is logged, and its job counts as done.
Find(v) ==
  /\ worker[v].stage = "find"
  /\ IF rows[worker[v].delivery] = "none" THEN Return(v, TRUE) ELSE Step(v, "post")
  /\ UNCHANGED <<enqueuer, jobs, upsets, dropped, revived>>
  /\ UNCHANGED dbVars /\ UNCHANGED postVars

\* Slip: gives up an attempt before the queue does.
AfterFailureTooEarly(attempt) == IF attempt + 1 < MaxRetries THEN "retry" ELSE "failed"

\* Slip: promises a retry that the queue does not make.
AfterFailureOffByOne(attempt) == IF attempt <= MaxRetries THEN "retry" ELSE "failed"

\* currentAttempt <= WEBHOOK_MAX_RETRIES.
AfterFailure(attempt) == IF attempt + 1 <= MaxRetries THEN "retry" ELSE "failed"

Outcome(v, ok) ==
  worker' = [worker EXCEPT ![v].stage = "select", ![v].ok = ok,
               ![v].status = IF ok THEN "success" ELSE AfterFailure(worker[v].attempt)]
Posted(d) == posts' = [posts EXCEPT ![d] = @ + 1]

\* The request succeeds.
PostAccepted(v) ==
  LET d == worker[v].delivery IN
  /\ worker[v].stage = "post"
  /\ Posted(d) /\ received' = [received EXCEPT ![d] = @ + 1]
  /\ Outcome(v, TRUE)
  /\ UNCHANGED <<enqueuer, jobs, upsets, dropped, revived>> /\ UNCHANGED dbVars

\* It fails.
PostRejected(v) ==
  /\ worker[v].stage = "post"
  /\ Posted(worker[v].delivery)
  /\ Outcome(v, FALSE)
  /\ UNCHANGED <<enqueuer, jobs, upsets, received, dropped, revived>>
  /\ UNCHANGED dbVars

\* The endpoint accepts it, but the answer takes more than ten seconds.
PostUnheard(v) ==
  LET d == worker[v].delivery IN
  /\ worker[v].stage = "post"
  /\ Posted(d) /\ received' = [received EXCEPT ![d] = @ + 1]
  /\ Outcome(v, FALSE)
  /\ Upset(d)
  /\ UNCHANGED <<enqueuer, jobs, dropped, revived>> /\ UNCHANGED dbVars

\* save(delivery), its SELECT: an entity without a row is inserted, and the UPDATE leaves
\* out a status that is there already.
Select(v) ==
  LET found == rows[worker[v].delivery] IN
  /\ worker[v].stage = "select"
  /\ Step(v, IF found = "none" THEN "insert"
             ELSE IF found = worker[v].status THEN "report" ELSE "update")
  /\ UNCHANGED <<enqueuer, jobs, upsets, dropped, revived>>
  /\ UNCHANGED dbVars /\ UNCHANGED postVars

\* save(delivery), its UPDATE, which a row deleted since does not notice.  Of its columns
\* only status is modelled; a nextRetryAt or an error that is undefined stays as it was.
Update(v) ==
  LET d == worker[v].delivery IN
  /\ worker[v].stage = "update"
  /\ rows' = [rows EXCEPT ![d] = IF @ = "none" THEN @ ELSE worker[v].status]
  /\ Step(v, "report")
  /\ UNCHANGED <<hook, born, enqueuer, jobs, upsets, dropped, revived>> /\ UNCHANGED postVars

\* save(delivery), its INSERT: a pruned row comes back, with its old createdAt, unless the
\* webhook is gone or another worker was faster.
Insert(v) ==
  LET d == worker[v].delivery IN
  /\ worker[v].stage = "insert"
  /\ IF hook[d[2]] = "registered" /\ rows[d] = "none"
       THEN /\ rows' = [rows EXCEPT ![d] = worker[v].status]
            /\ revived' = revived \union {d}
            /\ Step(v, "report")
       ELSE Return(v, FALSE) /\ UNCHANGED <<rows, revived>>
  /\ UNCHANGED <<hook, born, enqueuer, jobs, upsets, dropped>> /\ UNCHANGED postVars

\* Slip: the outcome is lost on the queue.
StatementFailsSilently(v) ==
  /\ worker[v].stage \in {"find", "select", "update", "insert"}
  /\ Upset(worker[v].delivery)
  /\ Return(v, TRUE)
  /\ UNCHANGED <<enqueuer, jobs, dropped, revived>> /\ UNCHANGED dbVars /\ UNCHANGED postVars

\* A statement fails: process() throws, also after a request that succeeded.
StatementFails(v) ==
  /\ worker[v].stage \in {"find", "select", "update", "insert"}
  /\ Upset(worker[v].delivery)
  /\ Return(v, FALSE)
  /\ UNCHANGED <<enqueuer, jobs, dropped, revived>> /\ UNCHANGED dbVars /\ UNCHANGED postVars

-----------------------------------------------------------------------------
Proceed(e) == BeginSave(e) \/ SaveDelivery(e) \/ PruneFind(e) \/ PruneDelete(e) \/ AddJob(e)

Work(v) ==
  \/ Find(v)
  \/ PostAccepted(v) \/ PostRejected(v) \/ PostUnheard(v)
  \/ Select(v) \/ Update(v) \/ Insert(v)
  \/ Report(v)

Next ==
  \/ \E w \in Webhooks : RegisterWebhook(w) \/ RemoveWebhook(w)
  \/ CleanupExpiredDeliveries
  \/ \E e \in Events : EnqueueEvent(e) \/ Proceed(e) \/ EnqueueFails(e)
  \/ \E v \in Workers : Work(v) \/ StatementFails(v) \/ Die(v)
  \/ \E v \in Workers, d \in Delivery : Take(v, d)
  \/ \E d \in Delivery : StallDead(d) \/ StallAlive(d)

Spec == Init /\ [][Next]_vars

-----------------------------------------------------------------------------
(* What webhooks guarantee.                                                *)

Over(d) == jobs[d].state \in {"completed", "failed"}

\* Nothing is lost in silence: a job ends as completed only after the endpoint accepted
\* the delivery, or when its row was deleted under it.
CompletedWasAccepted ==
  \A d \in Delivery :
    jobs[d].state = "completed" => received[d] > 0 \/ d \in dropped

\* A row never claims too much: a success was accepted by the endpoint, and what is given
\* up was posted in every attempt that no failure at this very delivery cut short.
RowsTellTheTruth ==
  \A d \in Delivery :
    /\ rows[d] = "success" => received[d] > 0
    /\ rows[d] = "failed" => posts[d] + upsets[d] >= TotalAttempts

\* The row and the job agree, though they live in two stores and whatever happens to
\* other deliveries: unless something went wrong at this one, a row without a job is on
\* its way to one, and no row promises a retry that will not come, or stays pending.
NoBrokenPromise ==
  \A d \in Delivery :
    upsets[d] = 0 /\ rows[d] \notin {"none", "success", "failed"} =>
      \/ jobs[d].state \in {"waiting", "active"}
      \/ /\ jobs[d].state = "none" /\ Current(d[1]) = d
         /\ enqueuer[d[1]].stage \in {"find", "delete", "add"}

\* An endpoint gets a delivery as often as there are attempts and stalls, and accepts
\* another copy only when it answered late, a statement failed or a worker was lost at
\* this very delivery, or its row was deleted under the worker.
CopiesBounded ==
  \A d \in Delivery :
    /\ posts[d] <= TotalAttempts + jobs[d].stalls
    /\ d \notin dropped => received[d] <= 1 + upsets[d]

Pruning(w) == {e \in Events : enqueuer[e].stage \in {"find", "delete"} /\ Current(e)[2] = w}
GaveUpPruning(w) == {e \in Events : AtStage(e, "unpruned") /\ Current(e)[2] = w}

\* The history of a webhook stays within its limit, however inserts and prunings overlap:
\* what exceeds it is being pruned, was inserted by a process whose pruning failed, or
\* came back by the save of a worker.
HistoryWithinLimit ==
  \A w \in Webhooks :
    Cardinality(RowsOf(w)) <=
      RetentionLimit + Cardinality(Pruning(w)) + Cardinality(GaveUpPruning(w))
                     + Cardinality({d \in revived : rows[d] # "none" /\ d[2] = w})
=============================================================================
