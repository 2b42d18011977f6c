----------------------- MODULE WebhookDeliveryProofs -----------------------
(***************************************************************************)
(* Proofs about WebhookDelivery, for any events, webhooks, workers, limits *)
(* and numbers of failures.  The inductive invariant IInv says what is     *)
(* known of a delivery at each stage of its enqueuer, its job and the      *)
(* workers at it, and counts its copies by the requests that may still be  *)
(* sent.                                                                   *)
(***************************************************************************)
EXTENDS WebhookDelivery, FiniteSetTheorems, SequenceTheorems, TLAPS

\* The row was committed; it may have been deleted since.
Recorded(d) == rows[d] # "none" \/ d \in dropped

\* No job exists for what is still to be enqueued, and a job is added after its row.
Enqueuing ==
  \A e \in Events :
    /\ enqueuer[e].stage = "idle" =>
         \A w \in Webhooks : <<e, w>> \in Delivery => jobs[<<e, w>>].state = "none"
    /\ enqueuer[e].stage \in {"loop", "insert", "find", "delete", "add"} =>
         \A w \in enqueuer[e].todo : <<e, w>> \in Delivery /\ jobs[<<e, w>>].state = "none"
    /\ enqueuer[e].stage \in {"insert", "find", "delete", "add"} =>
         \E w \in Webhooks \ enqueuer[e].todo :
           /\ Current(e) = <<e, w>>
           /\ Current(e) \in Delivery /\ jobs[Current(e)].state = "none"
    /\ enqueuer[e].stage \in {"find", "delete", "add"} => Recorded(Current(e))

Unfinished(d) == jobs[d].state \in {"none", "waiting", "active"}

JobOK(d) ==
  /\ jobs[d].state # "none" => Recorded(d)
  /\ Unfinished(d) => jobs[d].attempts < TotalAttempts /\ posts[d] + upsets[d] >= jobs[d].attempts
  /\ jobs[d].state = "active" => jobs[d].owner \in Workers
  /\ jobs[d].state = "completed" => received[d] > 0 \/ d \in dropped

PostStages == {"select", "update", "insert", "report"}

\* What a worker knows of its delivery.
WorkerOK(v) ==
  LET r == worker[v]
      d == worker[v].delivery
  IN /\ r.stage = "idle" => d = NoDelivery
     /\ r.stage # "idle" =>
          /\ d \in Delivery /\ jobs[d].state # "none"
          /\ r.attempt < TotalAttempts /\ posts[d] + upsets[d] >= r.attempt
          /\ Owns(v, d) => r.attempt = jobs[d].attempts
     /\ r.stage = "report" /\ ~r.ok => posts[d] + upsets[d] >= r.attempt + 1
     /\ r.stage \in {"select", "update", "insert"} =>
          /\ posts[d] + upsets[d] >= r.attempt + 1
          /\ r.status = IF r.ok THEN "success" ELSE AfterFailure(r.attempt)
          /\ r.ok => received[d] > 0
     /\ r.stage = "report" /\ r.ok => received[d] > 0 \/ d \in dropped
     /\ r.stage = "insert" => d \in dropped

TruthOK(d) ==
  /\ rows[d] = "success" => received[d] > 0
  /\ rows[d] = "failed" => posts[d] + upsets[d] >= TotalAttempts

\* The workers that will send a request.
WillPost(r, d) == r.delivery = d /\ r.stage \in {"find", "post"}
Pending(d) == {v \in Workers : WillPost(worker[v], d)}

\* Requests sent and to be sent, against the attempts that were begun.
Begun(d) ==
  jobs[d].attempts + jobs[d].stalls +
    IF jobs[d].state = "active" \/ (jobs[d].state = "failed" /\ jobs[d].attempts < TotalAttempts)
      THEN 1 ELSE 0
PostsOK(d) == posts[d] + Cardinality(Pending(d)) <= Begun(d)

\* The job may be taken, or will be without another failure.
Open(d) ==
  \/ jobs[d].state \in {"none", "waiting"}
  \/ /\ jobs[d].state = "active"
     /\ LET r == worker[jobs[d].owner] IN
        r.delivery # d \/ (r.stage \in PostStages /\ ~r.ok)

\* Copies accepted, and those that may yet be.
AcceptedOK(d) ==
  d \notin dropped =>
    received[d] + Cardinality(Pending(d)) + (IF Open(d) THEN 1 ELSE 0) <= 1 + upsets[d]

\* As long as nothing goes wrong at a delivery, its job and its one worker know of each
\* other, and the row has the outcome before the queue has it.
QuietWorker(v) ==
  LET r == worker[v]
      d == worker[v].delivery
  IN /\ r.stage # "idle" => Owns(v, d)
     /\ r.stage = "insert" => rows[d] = "none"
     /\ r.stage = "report" =>
          rows[d] \in {"none", IF r.ok THEN "success" ELSE AfterFailure(r.attempt)}
QuietJob(d) ==
  /\ jobs[d].state = "active" => worker[jobs[d].owner].delivery = d
  /\ Over(d) => rows[d] \in {"none", "success", "failed"}

\* Its enqueuer is between the insertion of the row and the addition of the job.
OnItsWay(d) == Current(d[1]) = d /\ enqueuer[d[1]].stage \in {"find", "delete", "add"}

DeliveryFacts ==
  \A d \in Delivery : JobOK(d) /\ TruthOK(d) /\ PostsOK(d) /\ AcceptedOK(d)
WorkerFacts == \A v \in Workers : WorkerOK(v)
Undisturbed ==
  \A d \in Delivery :
    upsets[d] = 0 =>
      /\ QuietJob(d)
      /\ \A v \in Workers : worker[v].delivery = d => QuietWorker(v)
RowsGetJobs ==
  \A d \in Delivery :
    upsets[d] = 0 /\ rows[d] # "none" /\ jobs[d].state = "none" => OnItsWay(d)

IInv == TypeOK /\ Enqueuing /\ DeliveryFacts /\ WorkerFacts /\ Undisturbed /\ RowsGetJobs

\* What goes wrong is never forgotten; at one delivery, nowhere else.
UpsetsGrow ==
  upsets' \in [Delivery -> Nat] /\ \A d \in Delivery : upsets[d] <= upsets'[d]
UpsetsGrowAt(d) ==
  /\ upsets' \in [Delivery -> Nat] /\ upsets[d] <= upsets'[d]
  /\ \A n \in Delivery \ {d} : upsets'[n] = upsets[n]

-----------------------------------------------------------------------------
(* Deliveries and the requests that are pending.                           *)

LEMMA NoDeliveryIsNone == NoDelivery \notin Delivery
  BY DEF NoDelivery, Delivery

LEMMA UpsetAt ==
  ASSUME IInv, NEW d \in Delivery
  PROVE  /\ upsets \in [Delivery -> Nat] /\ upsets[d] \in Nat
         /\ UNCHANGED upsets => UpsetsGrowAt(d) /\ upsets'[d] = upsets[d]
         /\ Upset(d) => UpsetsGrowAt(d) /\ upsets'[d] = upsets[d] + 1
         /\ UpsetsGrowAt(d) => UpsetsGrow
<1>1. upsets \in [Delivery -> Nat] /\ upsets[d] \in Nat
  BY DEF IInv, TypeOK
<1>2. ASSUME UNCHANGED upsets PROVE UpsetsGrowAt(d) /\ upsets'[d] = upsets[d]
  BY <1>1, <1>2 DEF UpsetsGrowAt
<1>3. ASSUME Upset(d) PROVE UpsetsGrowAt(d) /\ upsets'[d] = upsets[d] + 1
  <2>1. upsets' = [upsets EXCEPT ![d] = upsets[d] + 1]
    BY <1>3 DEF Upset
  <2> QED BY <1>1, <2>1 DEF UpsetsGrowAt
<1>4. ASSUME UpsetsGrowAt(d) PROVE UpsetsGrow
  BY <1>1, <1>4 DEF UpsetsGrowAt, UpsetsGrow
<1> QED BY <1>1, <1>2, <1>3, <1>4

LEMMA PendingFinite ==
  \A d : IsFiniteSet(Pending(d)) /\ Cardinality(Pending(d)) \in Nat
  BY WebhookAssumption, FS_Subset, FS_CardinalityType DEF Pending

\* A worker's step adds it to the pending requests of a delivery or takes it away.
LEMMA PendingStep ==
  ASSUME TypeOK, NEW v \in Workers, NEW r, worker' = [worker EXCEPT ![v] = r], NEW d
  PROVE  /\ Cardinality(Pending(d))' \in Nat
         /\ WillPost(r, d) /\ ~WillPost(worker[v], d) =>
              Cardinality(Pending(d))' = Cardinality(Pending(d)) + 1
         /\ ~WillPost(r, d) /\ WillPost(worker[v], d) =>
              Cardinality(Pending(d))' = Cardinality(Pending(d)) - 1
         /\ (WillPost(r, d) <=> WillPost(worker[v], d)) =>
              Cardinality(Pending(d))' = Cardinality(Pending(d))
<1>1. Pending(d)' = {u \in Workers : WillPost(IF u = v THEN r ELSE worker[u], d)}
  BY DEF TypeOK, Pending, WillPost
<1>2. CASE WillPost(r, d) /\ ~WillPost(worker[v], d)
  <2>1. Pending(d)' = Pending(d) \union {v} /\ v \notin Pending(d)
    BY <1>1, <1>2 DEF Pending
  <2>2. Cardinality(Pending(d))' = Cardinality(Pending(d)) + 1
    BY <2>1, PendingFinite, FS_AddElement
  <2>3. Cardinality(Pending(d)) + 1 \in Nat
    BY PendingFinite
  <2> QED BY <1>2, <2>2, <2>3, Zenon
<1>3. CASE ~WillPost(r, d) /\ WillPost(worker[v], d)
  <2>1. Pending(d)' = Pending(d) \ {v} /\ v \in Pending(d)
    BY <1>1, <1>3 DEF Pending
  <2>2. Cardinality(Pending(d))' = Cardinality(Pending(d)) - 1
    BY <2>1, PendingFinite, FS_RemoveElement
  <2>3. IsFiniteSet(Pending(d)')
    BY <2>1, PendingFinite, FS_Subset
  <2>4. Cardinality(Pending(d)') \in Nat
    BY <2>3, FS_CardinalityType
  <2> QED BY <1>3, <2>2, <2>4
<1>4. CASE WillPost(r, d) <=> WillPost(worker[v], d)
  <2>1. Pending(d)' = Pending(d)
    BY <1>1, <1>4 DEF Pending
  <2> QED BY <1>4, <2>1, PendingFinite
<1> QED BY <1>2, <1>3, <1>4

-----------------------------------------------------------------------------
(* A step at one delivery and of one worker: its row, its job and its      *)
(* counts change, and what the worker knows.                               *)

LEMMA LocalStep ==
  ASSUME IInv,
         NEW v \in Workers, NEW d \in Delivery, NEW r \in WorkerState, NEW j \in Job,
         NEW s \in Statuses \union {"none"}, NEW p \in Nat, NEW q \in Nat,
         \* the step
         worker' = [worker EXCEPT ![v] = r],
         jobs' = [jobs EXCEPT ![d] = j],
         rows' = [rows EXCEPT ![d] = s],
         posts' = [posts EXCEPT ![d] = p], posts[d] <= p,
         received' = [received EXCEPT ![d] = q], received[d] <= q,
         UpsetsGrowAt(d),
         revived' \subseteq Delivery, UNCHANGED <<hook, born, enqueuer, dropped>>,
         \* the worker is at this delivery, or stays at another one
         \/ r = worker[v]
         \/ {worker[v].delivery, r.delivery} \subseteq {d, NoDelivery},
         \* the job exists, and does not become another worker's
         jobs[d].state # "none", j.state # "none",
         j.state = "active" =>
           /\ j.attempts = jobs[d].attempts
           /\ j.owner = v \/ (jobs[d].state = "active" /\ j.owner = jobs[d].owner),
         upsets'[d] = 0 => \A u \in Workers \ {v} : worker[u].delivery # d,
         \* what holds of them afterwards
         JobOK(d)', TruthOK(d)', PostsOK(d)', AcceptedOK(d)', WorkerOK(v)',
         upsets'[d] = 0 => QuietWorker(v)' /\ QuietJob(d)'
  PROVE  IInv'
<1>1. TypeOK'
  BY DEF IInv, TypeOK, UpsetsGrowAt
<1>2. Enqueuing'
  BY DEF IInv, TypeOK, Enqueuing, Recorded, Current
<1>a. /\ \A n \in Delivery : upsets[n] \in Nat /\ upsets'[n] \in Nat /\ upsets[n] <= upsets'[n]
      /\ \A n \in Delivery : n # d => upsets'[n] = upsets[n]
  BY UpsetAt DEF UpsetsGrowAt, UpsetsGrow
<1>3. ASSUME NEW n \in Delivery PROVE JobOK(n)' /\ TruthOK(n)'
  <2>1. CASE n = d
    BY <2>1
  <2>2. CASE n # d
    <3>1. /\ jobs'[n] = jobs[n] /\ rows'[n] = rows[n] /\ posts'[n] = posts[n]
          /\ received'[n] = received[n] /\ jobs[n] \in Job /\ posts[n] \in Nat
          /\ upsets'[n] = upsets[n]
      BY <1>a, <2>2 DEF IInv, TypeOK
    <3>2. JobOK(n) /\ TruthOK(n)
      BY DEF IInv, DeliveryFacts
    <3>3. JobOK(n)'
      BY <3>1, <3>2 DEF JobOK, Recorded, Unfinished, Job
    <3>4. TruthOK(n)'
      BY <3>1, <3>2, WebhookAssumption DEF TruthOK, TotalAttempts
    <3> QED BY <3>3, <3>4
  <2> QED BY <2>1, <2>2
<1>4. ASSUME NEW n \in Delivery PROVE PostsOK(n)' /\ AcceptedOK(n)'
  <2>1. CASE n = d
    BY <2>1
  <2>2. CASE n # d
    <3>1. WillPost(r, n) <=> WillPost(worker[v], n)
      BY <2>2, NoDeliveryIsNone DEF WillPost
    <3>2. Cardinality(Pending(n))' = Cardinality(Pending(n))
      BY <3>1, PendingStep DEF IInv
    <3>3. /\ jobs'[n] = jobs[n] /\ posts'[n] = posts[n] /\ received'[n] = received[n]
          /\ \A u \in Workers : u # v => worker'[u] = worker[u]
          /\ worker'[v] = r
      BY <2>2 DEF IInv, TypeOK
    <3>4. PostsOK(n)'
      BY <3>2, <3>3 DEF IInv, DeliveryFacts, PostsOK, Begun
    <3>5. Open(n)' => Open(n)
      BY <2>2, <3>3, NoDeliveryIsNone DEF IInv, DeliveryFacts, JobOK, Open
    <3>6. AcceptedOK(n)'
      BY <1>a, <2>2, <3>2, <3>3, <3>5, PendingFinite DEF IInv, TypeOK, DeliveryFacts, AcceptedOK
    <3> QED BY <3>4, <3>6
  <2> QED BY <2>1, <2>2
<1>5. ASSUME NEW u \in Workers PROVE WorkerOK(u)'
  <2>1. CASE u # v
    <3>1. WorkerOK(u) /\ worker'[u] = worker[u]
      BY <2>1 DEF IInv, TypeOK, WorkerFacts
    <3>2. \A n \in Delivery : posts[n] <= posts'[n] /\ received[n] <= received'[n]
                             /\ posts[n] \in Nat /\ posts'[n] \in Nat
                             /\ received[n] \in Nat /\ received'[n] \in Nat
      BY DEF IInv, TypeOK
    <3>3. \A n \in Delivery : jobs[n].state # "none" => jobs'[n].state # "none"
      BY DEF IInv, TypeOK
    <3>4. \A n \in Delivery :
            Owns(u, n)' => Owns(u, n) /\ jobs'[n].attempts = jobs[n].attempts
      BY <2>1 DEF IInv, TypeOK, Owns
    <3>5. worker[u] \in WorkerState
      BY DEF IInv, TypeOK
    <3> QED BY <1>a, <3>1, <3>2, <3>3, <3>4, <3>5 DEF WorkerOK, PostStages, WorkerState
  <2> QED BY <2>1
<1>6. Undisturbed'
  <2> SUFFICES ASSUME NEW n \in Delivery, upsets'[n] = 0
               PROVE  /\ QuietJob(n)'
                      /\ \A u \in Workers : worker'[u].delivery = n => QuietWorker(u)'
    BY DEF Undisturbed
  <2>1. /\ upsets[n] = 0 /\ QuietJob(n)
        /\ \A u \in Workers : worker[u].delivery = n => QuietWorker(u)
    BY <1>a DEF IInv, Undisturbed
  <2>2. CASE n = d
    <3>1. \A u \in Workers \ {v} : worker'[u].delivery # n
      BY <2>2 DEF IInv, TypeOK
    <3> QED BY <2>2, <3>1
  <2>3. CASE n # d
    <3>1. jobs'[n] = jobs[n] /\ rows'[n] = rows[n] /\ JobOK(n)
      BY <2>3 DEF IInv, TypeOK, DeliveryFacts
    <3>2. jobs[n].state = "active" => worker'[jobs[n].owner].delivery = n
      BY <2>1, <2>3, <3>1, NoDeliveryIsNone DEF IInv, TypeOK, JobOK, QuietJob
    <3>3. QuietJob(n)'
      BY <2>1, <3>1, <3>2 DEF QuietJob, Over
    <3>4. ASSUME NEW u \in Workers, worker'[u].delivery = n PROVE QuietWorker(u)'
      <4>1. worker'[u] = worker[u]
        BY <2>3, <3>4, NoDeliveryIsNone DEF IInv, TypeOK
      <4> QED BY <2>1, <3>1, <3>4, <4>1 DEF QuietWorker, Owns
    <3> QED BY <3>3, <3>4
  <2> QED BY <2>2, <2>3
<1>7. RowsGetJobs'
  <2> SUFFICES ASSUME NEW n \in Delivery, upsets'[n] = 0, rows'[n] # "none",
                      jobs'[n].state = "none"
               PROVE  OnItsWay(n)'
    BY DEF RowsGetJobs
  <2>1. n # d
    BY DEF IInv, TypeOK
  <2>2. OnItsWay(n)
    BY <1>a, <2>1 DEF IInv, TypeOK, RowsGetJobs
  <2> QED BY <2>2 DEF OnItsWay, Current
<1> QED BY <1>1, <1>2, <1>3, <1>4, <1>5, <1>6, <1>7 DEF IInv, DeliveryFacts, WorkerFacts

-----------------------------------------------------------------------------
(* The steps of a worker at its delivery that leave the job alone.         *)

\* What is known of the delivery a worker is at.
LEMMA AtDelivery ==
  ASSUME IInv, NEW v \in Workers, worker[v].stage # "idle", NEW d, d = worker[v].delivery
  PROVE  /\ d \in Delivery /\ jobs[d] \in Job /\ jobs[d].state # "none"
         /\ worker[v] \in WorkerState /\ rows[d] \in Statuses \union {"none"}
         /\ posts[d] \in Nat /\ received[d] \in Nat /\ upsets[d] \in Nat
         /\ WorkerOK(v) /\ JobOK(d) /\ TruthOK(d) /\ PostsOK(d) /\ AcceptedOK(d)
         /\ upsets[d] = 0 => QuietWorker(v) /\ QuietJob(d)
<1>1. d \in Delivery /\ jobs[d].state # "none"
  BY DEF IInv, WorkerFacts, WorkerOK
<1> QED BY <1>1 DEF IInv, TypeOK, WorkerFacts, DeliveryFacts, Undisturbed

\* As long as nothing goes wrong at a delivery no two workers are at it.
LEMMA Alone ==
  ASSUME IInv, NEW v \in Workers, worker[v].stage # "idle",
         upsets[worker[v].delivery] = 0
  PROVE  \A u \in Workers \ {v} : worker[u].delivery # worker[v].delivery
<1> SUFFICES ASSUME NEW u \in Workers \ {v}, worker[u].delivery = worker[v].delivery
             PROVE  FALSE
  OBVIOUS
<1> DEFINE d == worker[v].delivery
<1>1. d \in Delivery /\ Owns(v, d)
  BY AtDelivery DEF QuietWorker
<1>2. worker[u].stage # "idle"
  BY <1>1, NoDeliveryIsNone DEF IInv, WorkerFacts, WorkerOK
<1>3. Owns(u, d)
  BY <1>2, AtDelivery DEF QuietWorker
<1> QED BY <1>1, <1>3 DEF Owns

Requests(x, d) == IF WillPost(x, d) THEN 1 ELSE 0
Undone(x, d) == IF x.delivery # d \/ (x.stage \in PostStages /\ ~x.ok) THEN 1 ELSE 0

\* Worker v at delivery d comes to know r; the row becomes s; p requests have been sent
\* and q accepted.
Moves(v, d, r, s, p, q) ==
  /\ worker[v].stage # "idle" /\ d = worker[v].delivery
  /\ r \in WorkerState /\ r.delivery \in {d, NoDelivery}
  /\ s \in Statuses \union {"none"} /\ p \in Nat /\ q \in Nat
  /\ worker' = [worker EXCEPT ![v] = r]
  /\ rows' = [rows EXCEPT ![d] = s] /\ (rows[d] # "none" => s # "none")
  /\ posts' = [posts EXCEPT ![d] = p] /\ posts[d] <= p
  /\ received' = [received EXCEPT ![d] = q] /\ received[d] <= q
  /\ UpsetsGrowAt(d)
  /\ revived' \subseteq Delivery /\ UNCHANGED <<hook, born, enqueuer, jobs, dropped>>

\* It sends no request it was not to send, and is repeated only if that was still to be,
\* or something failed.
Accounted(v, d, r, p, q) ==
  /\ p + Requests(r, d) <= posts[d] + Requests(worker[v], d)
  /\ Undone(worker[v], d) <= Undone(r, d)
  /\ d \notin dropped =>
       q + Requests(r, d) + Undone(r, d) + upsets[d] <=
         received[d] + Requests(worker[v], d) + Undone(worker[v], d) + upsets'[d]

LEMMA WorkStep ==
  ASSUME IInv, NEW v \in Workers, NEW d, NEW r, NEW s, NEW p, NEW q,
         Moves(v, d, r, s, p, q), Accounted(v, d, r, p, q),
         TruthOK(d)', WorkerOK(v)',
         upsets'[d] = 0 => QuietWorker(v)' /\ r.delivery = d
  PROVE  IInv'
<1> USE DEF Moves, Accounted
<1>1. /\ d \in Delivery /\ jobs[d] \in Job /\ jobs[d].state # "none"
      /\ posts[d] \in Nat /\ received[d] \in Nat /\ upsets[d] \in Nat /\ upsets'[d] \in Nat
      /\ upsets[d] <= upsets'[d]
      /\ rows'[d] = s /\ posts'[d] = p /\ received'[d] = q /\ worker'[v] = r
      /\ \A u \in Workers : u # v => worker'[u] = worker[u]
      /\ jobs' = [jobs EXCEPT ![d] = jobs[d]]
  BY AtDelivery DEF IInv, TypeOK, UpsetsGrowAt
<1>2. JobOK(d) /\ PostsOK(d) /\ AcceptedOK(d)
  BY AtDelivery
<1>3. JobOK(d)'
  BY <1>1, <1>2 DEF JobOK, Recorded, Unfinished, Job
<1>4. Cardinality(Pending(d))' + Requests(worker[v], d)
        = Cardinality(Pending(d)) + Requests(r, d)
  <2>1. /\ WillPost(r, d) /\ ~WillPost(worker[v], d) =>
             Cardinality(Pending(d))' = Cardinality(Pending(d)) + 1
        /\ ~WillPost(r, d) /\ WillPost(worker[v], d) =>
             Cardinality(Pending(d))' = Cardinality(Pending(d)) - 1
        /\ (WillPost(r, d) <=> WillPost(worker[v], d)) =>
             Cardinality(Pending(d))' = Cardinality(Pending(d))
    BY PendingStep DEF IInv
  <2>2. Cardinality(Pending(d)) \in Nat
    BY PendingFinite
  <2> DEFINE n == Cardinality(Pending(d))
             m == Cardinality(Pending(d))'
  <2> HIDE DEF n, m
  <2> QED BY <2>1, <2>2 DEF Requests, n, m
<1>5. Cardinality(Pending(d)) \in Nat /\ Cardinality(Pending(d))' \in Nat
  BY PendingStep, PendingFinite DEF IInv
<1>6. Requests(r, d) \in Nat /\ Requests(worker[v], d) \in Nat
  BY DEF Requests
<1>7. PostsOK(d)'
  <2>1. Begun(d)' = Begun(d) /\ Begun(d) \in Int
    BY <1>1 DEF Begun, Job
  <2> QED BY <1>1, <1>2, <1>4, <1>5, <1>6, <2>1 DEF PostsOK
<1>8. AcceptedOK(d)'
  <2> SUFFICES ASSUME d \notin dropped
               PROVE  received'[d] + Cardinality(Pending(d))' + (IF Open(d)' THEN 1 ELSE 0)
                        <= 1 + upsets'[d]
    BY DEF AcceptedOK
  <2>1. received[d] + Cardinality(Pending(d)) + (IF Open(d) THEN 1 ELSE 0) <= 1 + upsets[d]
    BY <1>2 DEF AcceptedOK
  <2>2. CASE Owns(v, d)
    <3>1. (IF Open(d) THEN 1 ELSE 0) = Undone(worker[v], d)
      BY <2>2 DEF Open, Undone, Owns
    <3>2. (IF Open(d)' THEN 1 ELSE 0) = Undone(r, d)
      BY <1>1, <2>2 DEF Open, Undone, Owns
    <3>3. Undone(r, d) \in Nat /\ Undone(worker[v], d) \in Nat
      BY DEF Undone
    <3> HIDE DEF Requests, Undone
    <3> QED BY <1>1, <1>4, <1>5, <1>6, <2>1, <3>1, <3>2, <3>3
  <2>3. CASE ~Owns(v, d)
    <3>1. Open(d)' <=> Open(d)
      BY <1>1, <1>2, <2>3 DEF Open, Owns, JobOK
    <3>2. Undone(r, d) \in Nat /\ Undone(worker[v], d) \in Nat
      BY DEF Undone
    <3> DEFINE o == IF Open(d) THEN 1 ELSE 0
    <3>3. o \in Nat /\ (IF Open(d)' THEN 1 ELSE 0) = o
      BY <3>1
    <3> HIDE DEF o
    <3> QED BY <1>1, <1>4, <1>5, <1>6, <2>1, <3>2, <3>3 DEF o
  <2> QED BY <2>2, <2>3
<1>9. upsets'[d] = 0 => QuietWorker(v)' /\ QuietJob(d)'
  <2> SUFFICES ASSUME upsets'[d] = 0 PROVE QuietJob(d)'
    OBVIOUS
  <2>1. Owns(v, d)
    BY <1>1, AtDelivery DEF QuietWorker
  <2> QED BY <1>1, <2>1 DEF QuietJob, Owns, Over
<1>10. upsets'[d] = 0 => \A u \in Workers \ {v} : worker[u].delivery # d
  BY <1>1, Alone
<1>11. jobs[d].state = "active" => jobs[d].owner = jobs[d].owner /\ jobs[d].attempts = jobs[d].attempts
  OBVIOUS
<1>12. \/ r = worker[v]
       \/ {worker[v].delivery, r.delivery} \subseteq {d, NoDelivery}
  OBVIOUS
<1> HIDE DEF Requests, Undone
<1> QED BY <1>1, <1>3, <1>7, <1>8, <1>9, <1>10, <1>12, LocalStep

\* What a worker's step leaves alone.
LEMMA Keeps ==
  ASSUME IInv, NEW d \in Delivery
  PROVE  /\ UNCHANGED rows => rows' = [rows EXCEPT ![d] = rows[d]]
         /\ UNCHANGED posts => posts' = [posts EXCEPT ![d] = posts[d]]
         /\ UNCHANGED received => received' = [received EXCEPT ![d] = received[d]]
         /\ UNCHANGED jobs => jobs' = [jobs EXCEPT ![d] = jobs[d]]
         /\ revived \subseteq Delivery
         /\ UNCHANGED upsets => UpsetsGrowAt(d)
  BY DEF IInv, TypeOK, UpsetsGrowAt

LEMMA FindStep ==
  ASSUME IInv, NEW v \in Workers, Find(v)
  PROVE  IInv'
<1>0. PICK d : d = worker[v].delivery
  OBVIOUS
<1> DEFINE r == IF rows[d] = "none"
             THEN [worker[v] EXCEPT !.stage = "report", !.ok = TRUE]
             ELSE [worker[v] EXCEPT !.stage = "post"]
<1>1. /\ worker' = [worker EXCEPT ![v] = r] /\ worker[v].stage = "find"
      /\ UNCHANGED <<hook, rows, born, enqueuer, jobs, upsets, posts, received, dropped, revived>>
  BY <1>0 DEF Find, Return, Step, dbVars, postVars
<1>2. /\ d \in Delivery /\ worker[v] \in WorkerState /\ WorkerOK(v) /\ TruthOK(d) /\ JobOK(d)
      /\ jobs[d].state # "none" /\ rows[d] \in Statuses \union {"none"}
      /\ posts[d] \in Nat /\ received[d] \in Nat /\ upsets[d] \in Nat
      /\ upsets[d] = 0 => QuietWorker(v)
  BY <1>0, <1>1, AtDelivery
<1>3. /\ r \in WorkerState /\ r.delivery = d /\ r.attempt = worker[v].attempt
      /\ rows[d] = "none" => r.stage = "report" /\ r.ok = TRUE
      /\ rows[d] # "none" => r.stage = "post"
  BY <1>0, <1>2 DEF WorkerState
<1>4. worker'[v] = r
  BY <1>1 DEF IInv, TypeOK
<1> HIDE DEF r
<1>5. TruthOK(d)'
  BY <1>1, <1>2 DEF TruthOK
<1>6. WorkerOK(v)'
  BY <1>0, <1>1, <1>2, <1>3, <1>4 DEF WorkerOK, JobOK, Recorded, Owns, PostStages
<1>7. upsets'[d] = 0 => QuietWorker(v)' /\ r.delivery = d
  BY <1>0, <1>1, <1>2, <1>3, <1>4 DEF QuietWorker, Owns
<1>8. Accounted(v, d, r, posts[d], received[d])
  BY <1>0, <1>1, <1>2, <1>3
  DEF Accounted, Requests, Undone, WillPost, PostStages, JobOK, Recorded
<1>9. /\ rows' = [rows EXCEPT ![d] = rows[d]] /\ posts' = [posts EXCEPT ![d] = posts[d]]
      /\ received' = [received EXCEPT ![d] = received[d]]
      /\ UpsetsGrowAt(d) /\ revived' \subseteq Delivery
  BY <1>1, <1>2, Keeps
<1>10. Moves(v, d, r, rows[d], posts[d], received[d])
  <2>1. worker[v].stage # "idle" /\ d = worker[v].delivery /\ r.delivery \in {d, NoDelivery}
    BY <1>0, <1>1, <1>3
  <2>2. posts[d] <= posts[d] /\ received[d] <= received[d]
    BY <1>1, <1>2
  <2>3. UNCHANGED <<hook, born, enqueuer, jobs, dropped>>
    BY <1>1
  <2> QED BY <1>1, <1>2, <1>3, <1>9, <2>1, <2>2, <2>3, Zenon DEF Moves
<1> QED BY <1>5, <1>6, <1>7, <1>8, <1>10, WorkStep

\* A request is sent, and its outcome is known to the worker.
Sent(v, d, ok, q) ==
  /\ Outcome(v, ok) /\ ok \in BOOLEAN
  /\ received' = [received EXCEPT ![d] = q] /\ q \in Nat /\ received[d] <= q
  /\ UpsetsGrowAt(d)
  /\ ok => q > 0 /\ q + upsets[d] <= received[d] + 1 + upsets'[d]
  /\ ~ok => q + upsets[d] <= received[d] + upsets'[d]

LEMMA RequestStep ==
  ASSUME IInv, NEW v \in Workers, NEW d, d = worker[v].delivery, NEW ok, NEW q,
         worker[v].stage = "post", Posted(d), Sent(v, d, ok, q),
         UNCHANGED <<hook, rows, born, enqueuer, jobs, dropped, revived>>
  PROVE  IInv'
<1>a. /\ received' = [received EXCEPT ![d] = q] /\ q \in Nat /\ received[d] <= q
      /\ UpsetsGrowAt(d) /\ ok \in BOOLEAN
      /\ ok => q > 0 /\ q + upsets[d] <= received[d] + 1 + upsets'[d]
      /\ ~ok => q + upsets[d] <= received[d] + upsets'[d]
  BY DEF Sent
<1> DEFINE r == [worker[v] EXCEPT !.stage = "select", !.ok = ok,
                   !.status = IF ok THEN "success" ELSE AfterFailure(worker[v].attempt)]
<1>1. worker' = [worker EXCEPT ![v] = r]
  BY DEF Outcome, Sent
<1>2. /\ d \in Delivery /\ worker[v] \in WorkerState /\ WorkerOK(v) /\ TruthOK(d)
      /\ jobs[d].state # "none" /\ rows[d] \in Statuses \union {"none"}
      /\ posts[d] \in Nat /\ received[d] \in Nat /\ upsets[d] \in Nat /\ upsets'[d] \in Nat
      /\ upsets[d] <= upsets'[d]
      /\ upsets[d] = 0 => QuietWorker(v)
  BY <1>a, AtDelivery DEF UpsetsGrowAt
<1>3. /\ r \in WorkerState /\ r.delivery = d /\ r.attempt = worker[v].attempt
      /\ r.stage = "select" /\ r.ok = ok
      /\ r.status = IF ok THEN "success" ELSE AfterFailure(worker[v].attempt)
  BY <1>a, <1>2 DEF WorkerState, AfterFailure, Statuses
<1>4. worker'[v] = r /\ posts'[d] = posts[d] + 1 /\ received'[d] = q
  BY <1>a, <1>1, <1>2 DEF IInv, TypeOK, Posted
<1> HIDE DEF r
<1>5. TruthOK(d)'
  BY <1>a, <1>2, <1>4, WebhookAssumption DEF TruthOK, TotalAttempts
<1>6. WorkerOK(v)'
  BY <1>a, <1>2, <1>3, <1>4 DEF WorkerOK, WorkerState, Owns, PostStages
<1>7. upsets'[d] = 0 => QuietWorker(v)' /\ r.delivery = d
  BY <1>a, <1>2, <1>3, <1>4 DEF QuietWorker, Owns
<1>8. Accounted(v, d, r, posts[d] + 1, q)
  BY <1>a, <1>2, <1>3 DEF Accounted, Requests, Undone, WillPost, PostStages
<1>9. /\ rows' = [rows EXCEPT ![d] = rows[d]] /\ posts' = [posts EXCEPT ![d] = posts[d] + 1]
      /\ UpsetsGrowAt(d) /\ revived' \subseteq Delivery
  BY <1>a, <1>2, Keeps DEF Posted
<1>10. Moves(v, d, r, rows[d], posts[d] + 1, q)
  <2>1. worker[v].stage # "idle" /\ d = worker[v].delivery /\ r.delivery \in {d, NoDelivery}
    BY <1>3
  <2>2. posts[d] <= posts[d] + 1 /\ posts[d] + 1 \in Nat
    BY <1>2
  <2> QED BY <1>a, <1>1, <1>2, <1>3, <1>9, <2>1, <2>2, Zenon DEF Moves
<1> QED BY <1>5, <1>6, <1>7, <1>8, <1>10, WorkStep

LEMMA PostStep ==
  ASSUME IInv, NEW v \in Workers, PostAccepted(v) \/ PostRejected(v) \/ PostUnheard(v)
  PROVE  IInv'
<1>0. PICK d : d = worker[v].delivery
  OBVIOUS
<1>1. worker[v].stage = "post" /\ Posted(d)
      /\ UNCHANGED <<hook, rows, born, enqueuer, jobs, dropped, revived>>
  BY <1>0 DEF PostAccepted, PostRejected, PostUnheard, dbVars
<1>2. d \in Delivery /\ received[d] \in Nat /\ upsets[d] \in Nat
  BY <1>0, <1>1, AtDelivery
<1>3. TRUE \in BOOLEAN /\ FALSE \in BOOLEAN /\ UpsetsGrowAt(d)
      /\ received[d] <= received[d] /\ received[d] <= received[d] + 1
      /\ received[d] + 1 \in Nat /\ received[d] + 1 > 0
  <2>1. UNCHANGED upsets \/ Upset(d)
    BY <1>0 DEF PostAccepted, PostRejected, PostUnheard
  <2>2. UpsetsGrowAt(d)
    BY <1>2, <2>1, UpsetAt
  <2> QED BY <1>2, <2>2
<1>4. CASE PostAccepted(v)
  <2>1. Outcome(v, TRUE) /\ received' = [received EXCEPT ![d] = received[d] + 1]
    BY <1>0, <1>4 DEF PostAccepted
  <2>2. received[d] + 1 + upsets[d] <= received[d] + 1 + upsets'[d]
    BY <1>2, <1>4 DEF PostAccepted
  <2>3. Sent(v, d, TRUE, received[d] + 1)
    BY <1>3, <2>1, <2>2, Zenon DEF Sent
  <2> QED BY <1>0, <1>1, <2>3, RequestStep, Zenon
<1>5. CASE PostRejected(v)
  <2>1. Outcome(v, FALSE) /\ received' = [received EXCEPT ![d] = received[d]]
    BY <1>2, <1>5, Keeps DEF PostRejected
  <2>2. received[d] + upsets[d] <= received[d] + upsets'[d]
    BY <1>2, <1>5 DEF PostRejected
  <2>3. Sent(v, d, FALSE, received[d])
    BY <1>2, <1>3, <2>1, <2>2, Zenon DEF Sent
  <2> QED BY <1>0, <1>1, <2>3, RequestStep, Zenon
<1>6. CASE PostUnheard(v)
  <2>1. Outcome(v, FALSE) /\ received' = [received EXCEPT ![d] = received[d] + 1]
    BY <1>0, <1>6 DEF PostUnheard
  <2>2. received[d] + 1 + upsets[d] <= received[d] + upsets'[d]
    <3>1. upsets'[d] = upsets[d] + 1
      BY <1>0, <1>2, <1>6, UpsetAt DEF PostUnheard
    <3> QED BY <1>2, <3>1
  <2>3. Sent(v, d, FALSE, received[d] + 1)
    BY <1>3, <2>1, <2>2, Zenon DEF Sent
  <2> QED BY <1>0, <1>1, <2>3, RequestStep, Zenon
<1> QED BY <1>4, <1>5, <1>6

\* What is known before a statement at a delivery, and what a step of the worker that
\* sends nothing leaves alone.
LEMMA AtStatement ==
  ASSUME IInv, NEW v \in Workers, NEW d, d = worker[v].delivery, NEW r \in WorkerState,
         worker[v].stage \in {"find", "select", "update", "insert"},
         worker' = [worker EXCEPT ![v] = r], UNCHANGED <<posts, received>>
  PROVE  /\ d \in Delivery /\ worker[v] \in WorkerState /\ WorkerOK(v) /\ TruthOK(d)
         /\ JobOK(d) /\ jobs[d].state # "none" /\ rows[d] \in Statuses \union {"none"}
         /\ posts[d] \in Nat /\ received[d] \in Nat /\ upsets[d] \in Nat
         /\ upsets[d] = 0 => QuietWorker(v)
         /\ worker'[v] = r
         /\ posts' = [posts EXCEPT ![d] = posts[d]]
         /\ received' = [received EXCEPT ![d] = received[d]]
         /\ UNCHANGED rows => rows' = [rows EXCEPT ![d] = rows[d]]
         /\ revived \subseteq Delivery
<1>1. worker[v].stage # "idle"
  OBVIOUS
<1>2. d \in Delivery
  BY <1>1, AtDelivery
<1> QED BY <1>1, <1>2, AtDelivery, Keeps DEF IInv, TypeOK

\* The outcome is known and no request is sent: the step is accounted for.
LEMMA StatementStep ==
  ASSUME IInv, NEW v \in Workers, NEW d, d = worker[v].delivery, NEW r \in WorkerState,
         NEW s \in Statuses \union {"none"},
         worker[v].stage \in {"find", "select", "update", "insert"},
         worker' = [worker EXCEPT ![v] = r], r.delivery = d,
         r.stage \in {"update", "insert", "report"},
         rows' = [rows EXCEPT ![d] = s], rows[d] # "none" => s # "none",
         UNCHANGED <<hook, born, enqueuer, jobs, dropped, posts, received>>,
         UpsetsGrowAt(d), revived' \subseteq Delivery,
         \/ r.ok = worker[v].ok /\ worker[v].stage # "find"
         \/ ~r.ok /\ (upsets[d] < upsets'[d] \/ d \in dropped),
         TruthOK(d)', WorkerOK(v)', upsets'[d] = 0 => QuietWorker(v)'
  PROVE  IInv'
<1>1. /\ d \in Delivery /\ worker[v] \in WorkerState
      /\ rows[d] \in Statuses \union {"none"}
      /\ posts[d] \in Nat /\ received[d] \in Nat /\ upsets[d] \in Nat /\ upsets'[d] \in Nat
      /\ upsets[d] <= upsets'[d]
      /\ posts' = [posts EXCEPT ![d] = posts[d]]
      /\ received' = [received EXCEPT ![d] = received[d]]
  <2>1. UNCHANGED <<posts, received>>
    OBVIOUS
  <2>2. d \in Delivery
    BY <2>1, AtStatement, Zenon
  <2>3. upsets'[d] \in Nat /\ upsets[d] \in Nat /\ upsets[d] <= upsets'[d]
    BY <2>2, UpsetAt DEF UpsetsGrowAt
  <2>4. /\ worker[v] \in WorkerState /\ rows[d] \in Statuses \union {"none"}
        /\ posts[d] \in Nat /\ received[d] \in Nat
        /\ posts' = [posts EXCEPT ![d] = posts[d]]
        /\ received' = [received EXCEPT ![d] = received[d]]
    BY <2>1, AtStatement, Zenon
  <2> QED BY <2>2, <2>3, <2>4, Zenon
<1>2. Accounted(v, d, r, posts[d], received[d])
  BY <1>1 DEF Accounted, Requests, Undone, WillPost, PostStages
<1>3. Moves(v, d, r, s, posts[d], received[d])
  <2>1. worker[v].stage # "idle" /\ d = worker[v].delivery /\ r.delivery \in {d, NoDelivery}
    OBVIOUS
  <2>2. posts[d] <= posts[d] /\ received[d] <= received[d]
    BY <1>1
  <2>3. UNCHANGED <<hook, born, enqueuer, jobs, dropped>>
    OBVIOUS
  <2> QED BY <1>1, <2>1, <2>2, <2>3, Zenon DEF Moves
<1> QED BY <1>2, <1>3, WorkStep

LEMMA SelectStep ==
  ASSUME IInv, NEW v \in Workers, Select(v)
  PROVE  IInv'
<1>0. PICK d : d = worker[v].delivery
  OBVIOUS
<1> DEFINE r == [worker[v] EXCEPT !.stage =
                   IF rows[d] = "none" THEN "insert"
                   ELSE IF rows[d] = worker[v].status THEN "report" ELSE "update"]
<1>1. /\ worker' = [worker EXCEPT ![v] = r] /\ worker[v].stage = "select"
      /\ UNCHANGED <<hook, rows, born, enqueuer, jobs, upsets, posts, received, dropped, revived>>
  BY <1>0 DEF Select, Step, dbVars, postVars
<1>2. worker[v] \in WorkerState
  BY DEF IInv, TypeOK
<1>3. /\ r \in WorkerState /\ r.delivery = d /\ r.attempt = worker[v].attempt
      /\ r.ok = worker[v].ok /\ r.status = worker[v].status
      /\ rows[d] = "none" => r.stage = "insert"
      /\ rows[d] # "none" /\ rows[d] = worker[v].status => r.stage = "report"
      /\ r.stage \in {"update", "insert", "report"}
      /\ r.stage = "report" => rows[d] = worker[v].status
      /\ r.stage = "insert" => rows[d] = "none"
  BY <1>0, <1>2 DEF WorkerState
<1> HIDE DEF r
<1>4. /\ d \in Delivery /\ WorkerOK(v) /\ TruthOK(d)
      /\ JobOK(d) /\ jobs[d].state # "none" /\ rows[d] \in Statuses \union {"none"}
      /\ posts[d] \in Nat /\ received[d] \in Nat /\ upsets[d] \in Nat
      /\ upsets[d] = 0 => QuietWorker(v)
      /\ worker'[v] = r
      /\ rows' = [rows EXCEPT ![d] = rows[d]]
      /\ revived \subseteq Delivery
  BY <1>0, <1>1, <1>3, AtStatement
<1>5. TruthOK(d)'
  BY <1>1, <1>4 DEF TruthOK
<1>6. WorkerOK(v)'
  BY <1>0, <1>1, <1>2, <1>3, <1>4 DEF WorkerOK, JobOK, Recorded, Owns, PostStages, WorkerState
<1>7. upsets'[d] = 0 => QuietWorker(v)'
  BY <1>0, <1>1, <1>3, <1>4 DEF QuietWorker, WorkerOK, Owns
<1>8. UpsetsGrowAt(d)
  BY <1>1, <1>4, UpsetAt
<1> QED BY <1>0, <1>1, <1>3, <1>4, <1>5, <1>6, <1>7, <1>8, StatementStep

\* An attempt that is given up was the last one, and was posted.
LEMMA OutcomeIsTrue ==
  ASSUME IInv, NEW v \in Workers, worker[v].stage \in {"update", "insert"}
  PROVE  LET d == worker[v].delivery IN
         /\ worker[v].status = "success" => received[d] > 0
         /\ worker[v].status = "failed" => posts[d] + upsets[d] >= TotalAttempts
<1> DEFINE d == worker[v].delivery
           r == worker[v]
<1>1. /\ WorkerOK(v) /\ posts[d] \in Nat /\ upsets[d] \in Nat /\ received[d] \in Nat
      /\ r \in WorkerState
  BY AtDelivery
<1>2. /\ r.status = IF r.ok THEN "success" ELSE AfterFailure(r.attempt)
      /\ r.ok => received[d] > 0
      /\ posts[d] + upsets[d] >= r.attempt + 1
  BY <1>1 DEF WorkerOK
<1>3. r.attempt \in Nat
  BY <1>1, WebhookAssumption DEF WorkerState, TotalAttempts
<1> QED BY <1>1, <1>2, <1>3, WebhookAssumption DEF AfterFailure, TotalAttempts

LEMMA UpdateStep ==
  ASSUME IInv, NEW v \in Workers, Update(v)
  PROVE  IInv'
<1>0. PICK d : d = worker[v].delivery
  OBVIOUS
<1> DEFINE r == [worker[v] EXCEPT !.stage = "report"]
           s == IF rows[d] = "none" THEN "none" ELSE worker[v].status
<1>1. /\ worker' = [worker EXCEPT ![v] = r] /\ worker[v].stage = "update"
      /\ rows' = [rows EXCEPT ![d] = s]
      /\ UNCHANGED <<hook, born, enqueuer, jobs, upsets, posts, received, dropped, revived>>
  BY <1>0 DEF Update, Step, postVars, IInv, TypeOK
<1>2. worker[v] \in WorkerState
  BY DEF IInv, TypeOK
<1>3. /\ r \in WorkerState /\ r.delivery = d /\ r.attempt = worker[v].attempt
      /\ r.ok = worker[v].ok /\ r.status = worker[v].status /\ r.stage = "report"
      /\ s \in {"none", worker[v].status} /\ s \in Statuses \union {"none"}
      /\ rows[d] # "none" => s # "none"
  BY <1>0, <1>2 DEF WorkerState, Statuses
<1> HIDE DEF r, s
<1>4. /\ d \in Delivery /\ WorkerOK(v) /\ TruthOK(d)
      /\ JobOK(d) /\ jobs[d].state # "none" /\ rows[d] \in Statuses \union {"none"}
      /\ posts[d] \in Nat /\ received[d] \in Nat /\ upsets[d] \in Nat
      /\ upsets[d] = 0 => QuietWorker(v)
      /\ worker'[v] = r
      /\ revived \subseteq Delivery
  BY <1>0, <1>1, <1>3, AtStatement
<1>a. rows'[d] = s
  BY <1>1, <1>4 DEF IInv, TypeOK
<1>5. TruthOK(d)'
  BY <1>0, <1>1, <1>3, <1>4, <1>a, OutcomeIsTrue DEF TruthOK
<1>6. WorkerOK(v)'
  BY <1>0, <1>1, <1>2, <1>3, <1>4 DEF WorkerOK, JobOK, Recorded, Owns, PostStages, WorkerState
<1>7. upsets'[d] = 0 => QuietWorker(v)'
  BY <1>0, <1>1, <1>3, <1>4, <1>a DEF QuietWorker, WorkerOK, Owns
<1>8. UpsetsGrowAt(d)
  BY <1>1, <1>4, UpsetAt
<1> QED BY <1>0, <1>1, <1>3, <1>4, <1>5, <1>6, <1>7, <1>8, StatementStep

LEMMA InsertStep ==
  ASSUME IInv, NEW v \in Workers, Insert(v)
  PROVE  IInv'
<1>0. PICK d : d = worker[v].delivery
  OBVIOUS
<1> DEFINE inserted == hook[d[2]] = "registered" /\ rows[d] = "none"
           r == IF inserted THEN [worker[v] EXCEPT !.stage = "report"]
                ELSE [worker[v] EXCEPT !.stage = "report", !.ok = FALSE]
           s == IF inserted THEN worker[v].status ELSE rows[d]
<1>2. worker[v] \in WorkerState /\ worker[v].stage = "insert"
  BY DEF IInv, TypeOK, Insert
<1>b. d \in Delivery /\ rows[d] \in Statuses \union {"none"} /\ revived \subseteq Delivery
      /\ rows = [rows EXCEPT ![d] = rows[d]]
  BY <1>0, <1>2, AtDelivery DEF IInv, TypeOK
<1>1. /\ worker' = [worker EXCEPT ![v] = r]
      /\ rows' = [rows EXCEPT ![d] = s]
      /\ revived' \subseteq Delivery
      /\ UNCHANGED <<hook, born, enqueuer, jobs, upsets, posts, received, dropped>>
  BY <1>0, <1>b DEF Insert, Step, Return, postVars
<1>3. /\ r \in WorkerState /\ r.delivery = d /\ r.attempt = worker[v].attempt
      /\ r.status = worker[v].status /\ r.stage = "report"
      /\ r.ok \in BOOLEAN
      /\ r.ok = worker[v].ok \/ ~r.ok
      /\ (s = worker[v].status /\ r.ok = worker[v].ok) \/ (s = rows[d] /\ ~r.ok)
      /\ s \in Statuses \union {"none"}
      /\ rows[d] # "none" => s # "none"
  BY <1>0, <1>2, <1>b DEF WorkerState, Statuses
<1> HIDE DEF r, s
<1>4. /\ WorkerOK(v) /\ TruthOK(d)
      /\ JobOK(d) /\ jobs[d].state # "none"
      /\ posts[d] \in Nat /\ received[d] \in Nat /\ upsets[d] \in Nat
      /\ upsets[d] = 0 => QuietWorker(v)
      /\ worker'[v] = r /\ d \in dropped
  BY <1>0, <1>1, <1>2, <1>3, AtStatement DEF WorkerOK
<1>a. rows'[d] = s
  BY <1>1, <1>b DEF IInv, TypeOK
<1>5. TruthOK(d)'
  BY <1>0, <1>1, <1>2, <1>3, <1>4, <1>a, OutcomeIsTrue DEF TruthOK
<1>6. WorkerOK(v)'
  BY <1>0, <1>1, <1>2, <1>3, <1>4 DEF WorkerOK, JobOK, Recorded, Owns, PostStages, WorkerState
<1>7. upsets'[d] = 0 => QuietWorker(v)'
  BY <1>0, <1>1, <1>2, <1>3, <1>4, <1>a DEF QuietWorker, WorkerOK, Owns
<1>8. UpsetsGrowAt(d)
  BY <1>1, <1>b, UpsetAt
<1> QED BY <1>0, <1>1, <1>2, <1>3, <1>4, <1>5, <1>6, <1>7, <1>8, StatementStep

LEMMA StatementFailsStep ==
  ASSUME IInv, NEW v \in Workers, StatementFails(v)
  PROVE  IInv'
<1>0. PICK d : d = worker[v].delivery
  OBVIOUS
<1> DEFINE r == [worker[v] EXCEPT !.stage = "report", !.ok = FALSE]
<1>1. /\ worker' = [worker EXCEPT ![v] = r]
      /\ worker[v].stage \in {"find", "select", "update", "insert"}
      /\ Upset(d)
      /\ UNCHANGED <<hook, rows, born, enqueuer, jobs, posts, received, dropped, revived>>
  BY <1>0 DEF StatementFails, Return, dbVars, postVars
<1>2. worker[v] \in WorkerState
  BY DEF IInv, TypeOK
<1>3. /\ r \in WorkerState /\ r.delivery = d /\ r.attempt = worker[v].attempt
      /\ r.ok = FALSE /\ r.stage = "report"
  BY <1>0, <1>2 DEF WorkerState
<1> HIDE DEF r
<1>4. /\ d \in Delivery /\ WorkerOK(v) /\ TruthOK(d)
      /\ JobOK(d) /\ jobs[d].state # "none" /\ rows[d] \in Statuses \union {"none"}
      /\ posts[d] \in Nat /\ received[d] \in Nat /\ upsets[d] \in Nat
      /\ worker'[v] = r
      /\ rows' = [rows EXCEPT ![d] = rows[d]]
      /\ revived \subseteq Delivery
  BY <1>0, <1>1, <1>3, AtStatement
<1>8. UpsetsGrowAt(d) /\ upsets'[d] = upsets[d] + 1 /\ upsets[d] < upsets'[d] /\ upsets'[d] # 0
  BY <1>1, <1>4, UpsetAt
<1>5. TruthOK(d)'
  BY <1>1, <1>4, <1>8, WebhookAssumption DEF TruthOK, TotalAttempts
<1>6. WorkerOK(v)'
  BY <1>0, <1>1, <1>2, <1>3, <1>4, <1>8, WebhookAssumption
  DEF WorkerOK, Owns, PostStages, WorkerState, TotalAttempts
<1> QED BY <1>0, <1>1, <1>3, <1>4, <1>5, <1>6, <1>8, StatementStep

LEMMA DieStep ==
  ASSUME IInv, NEW v \in Workers, Die(v)
  PROVE  IInv'
<1>0. PICK d : d = worker[v].delivery
  OBVIOUS
<1>1. /\ worker' = [worker EXCEPT ![v] = Idle] /\ worker[v].stage # "idle"
      /\ Upset(d)
      /\ UNCHANGED <<hook, rows, born, enqueuer, jobs, posts, received, dropped, revived>>
  BY <1>0 DEF Die, dbVars, postVars
<1>2. /\ d \in Delivery /\ TruthOK(d) /\ rows[d] \in Statuses \union {"none"}
      /\ posts[d] \in Nat /\ received[d] \in Nat /\ upsets[d] \in Nat
      /\ worker[v] \in WorkerState
  BY <1>0, <1>1, AtDelivery
<1>a. UpsetsGrowAt(d) /\ upsets'[d] = upsets[d] + 1
  BY <1>1, <1>2, UpsetAt
<1>3. Idle \in WorkerState /\ Idle.delivery = NoDelivery /\ Idle.stage = "idle" /\ d # NoDelivery
  BY <1>2, NoDeliveryIsNone, WebhookAssumption DEF Idle, WorkerState, Statuses, TotalAttempts
<1>4. worker'[v] = Idle
  BY <1>1 DEF IInv, TypeOK
<1>5. TruthOK(d)'
  BY <1>1, <1>2, <1>a, WebhookAssumption DEF TruthOK, TotalAttempts
<1>6. WorkerOK(v)'
  BY <1>3, <1>4 DEF WorkerOK, PostStages
<1>7. Accounted(v, d, Idle, posts[d], received[d])
  BY <1>1, <1>2, <1>3, <1>a DEF Accounted, Requests, Undone, WillPost, PostStages
<1>8. /\ rows' = [rows EXCEPT ![d] = rows[d]] /\ posts' = [posts EXCEPT ![d] = posts[d]]
      /\ received' = [received EXCEPT ![d] = received[d]]
      /\ UpsetsGrowAt(d) /\ revived' \subseteq Delivery
      /\ posts[d] <= posts[d] /\ received[d] <= received[d]
      /\ upsets'[d] # 0
  BY <1>1, <1>2, <1>a, Keeps
<1>9. Moves(v, d, Idle, rows[d], posts[d], received[d])
  <2>1. worker[v].stage # "idle" /\ d = worker[v].delivery /\ Idle.delivery \in {d, NoDelivery}
    BY <1>0, <1>1, <1>3
  <2>2. UNCHANGED <<hook, born, enqueuer, jobs, dropped>>
    BY <1>1
  <2> QED BY <1>1, <1>2, <1>3, <1>8, <2>1, <2>2, Zenon DEF Moves
<1> QED BY <1>5, <1>6, <1>7, <1>8, <1>9, WorkStep

-----------------------------------------------------------------------------
(* The steps of the queue.                                                 *)

LEMMA TakeStep ==
  ASSUME IInv, NEW v \in Workers, NEW d \in Delivery, Take(v, d)
  PROVE  IInv'
<1> DEFINE j == [jobs[d] EXCEPT !.state = "active", !.owner = v]
           r == [Idle EXCEPT !.stage = "find", !.delivery = d, !.attempt = jobs[d].attempts]
<1>1. /\ worker[v].stage = "idle" /\ jobs[d].state = "waiting"
      /\ jobs' = [jobs EXCEPT ![d] = j] /\ worker' = [worker EXCEPT ![v] = r]
      /\ UNCHANGED <<hook, rows, born, enqueuer, upsets, posts, received, dropped, revived>>
  BY DEF Take, dbVars, postVars, IInv, TypeOK
<1>2. /\ jobs[d] \in Job /\ JobOK(d) /\ TruthOK(d) /\ PostsOK(d) /\ AcceptedOK(d)
      /\ posts[d] \in Nat /\ received[d] \in Nat /\ upsets[d] \in Nat
      /\ rows[d] \in Statuses \union {"none"} /\ worker[v] \in WorkerState
      /\ worker[v].delivery = NoDelivery
  BY <1>1 DEF IInv, TypeOK, DeliveryFacts, WorkerFacts, WorkerOK
<1>3. /\ j \in Job /\ j.state = "active" /\ j.owner = v /\ j.attempts = jobs[d].attempts
      /\ j.stalls = jobs[d].stalls
  BY <1>2 DEF Job
<1>4. /\ r \in WorkerState /\ r.delivery = d /\ r.stage = "find" /\ r.attempt = jobs[d].attempts
  BY <1>2 DEF WorkerState, Idle, Statuses, Job
<1> HIDE DEF j, r
<1>5. jobs'[d] = j /\ worker'[v] = r
  BY <1>1 DEF IInv, TypeOK
<1>6. JobOK(d)' /\ TruthOK(d)'
  BY <1>1, <1>2, <1>3, <1>5 DEF JobOK, TruthOK, Recorded, Unfinished
<1>7. WorkerOK(v)'
  BY <1>1, <1>2, <1>3, <1>4, <1>5 DEF WorkerOK, JobOK, Unfinished, Owns, PostStages
<1>8. Cardinality(Pending(d))' = Cardinality(Pending(d)) + 1
  <2>1. WillPost(r, d) /\ ~WillPost(worker[v], d)
    BY <1>1, <1>4 DEF WillPost
  <2> QED BY <1>1, <2>1, PendingStep DEF IInv
<1>9. PostsOK(d)'
  BY <1>1, <1>2, <1>3, <1>5, <1>8, PendingFinite DEF PostsOK, Begun, Job
<1>10. AcceptedOK(d)'
  <2>1. Open(d) /\ ~Open(d)'
    BY <1>1, <1>3, <1>4, <1>5 DEF Open, PostStages
  <2> QED BY <1>1, <1>2, <1>8, <2>1, PendingFinite DEF AcceptedOK
<1>11. upsets'[d] = 0 => \A u \in Workers \ {v} : worker[u].delivery # d
  <2> SUFFICES ASSUME upsets[d] = 0, NEW u \in Workers, worker[u].delivery = d PROVE FALSE
    BY <1>1
  <2>1. worker[u].stage # "idle"
    BY NoDeliveryIsNone DEF IInv, WorkerFacts, WorkerOK
  <2>2. Owns(u, d)
    BY <2>1, AtDelivery DEF QuietWorker
  <2> QED BY <1>1, <2>2 DEF Owns
<1>12. upsets'[d] = 0 => QuietWorker(v)' /\ QuietJob(d)'
  BY <1>3, <1>4, <1>5 DEF QuietWorker, QuietJob, Owns, Over
<1>13. /\ rows' = [rows EXCEPT ![d] = rows[d]] /\ posts' = [posts EXCEPT ![d] = posts[d]]
       /\ received' = [received EXCEPT ![d] = received[d]]
       /\ UpsetsGrowAt(d) /\ revived' \subseteq Delivery
  BY <1>1, <1>2, Keeps
<1>a. posts[d] <= posts[d] /\ received[d] <= received[d]
  BY <1>1, <1>2
<1>14. jobs[d].state # "none" /\ j.state # "none"
       /\ {worker[v].delivery, r.delivery} \subseteq {d, NoDelivery}
  BY <1>1, <1>2, <1>3, <1>4
<1>15. UNCHANGED <<hook, born, enqueuer, dropped>>
  BY <1>1
<1>16. /\ \/ r = worker[v]
          \/ {worker[v].delivery, r.delivery} \subseteq {d, NoDelivery}
       /\ j.state = "active" =>
            /\ j.attempts = jobs[d].attempts
            /\ j.owner = v \/ (jobs[d].state = "active" /\ j.owner = jobs[d].owner)
  BY <1>3, <1>14
<1>17. /\ r \in WorkerState /\ j \in Job /\ rows[d] \in Statuses \union {"none"}
       /\ posts[d] \in Nat /\ received[d] \in Nat
       /\ jobs[d].state # "none" /\ j.state # "none"
  BY <1>1, <1>2, <1>3, <1>4
<1>18. worker' = [worker EXCEPT ![v] = r] /\ jobs' = [jobs EXCEPT ![d] = j]
  BY <1>1
<1> QED BY <1>6, <1>7, <1>9, <1>10, <1>11, <1>12, <1>13, <1>15, <1>16, <1>17, <1>18, <1>a, LocalStep

LEMMA ReportStep ==
  ASSUME IInv, NEW v \in Workers, Report(v)
  PROVE  IInv'
<1>0. PICK d : d = worker[v].delivery
  OBVIOUS
<1> DEFINE done == [jobs[d] EXCEPT !.owner = NoWorker, !.attempts = jobs[d].attempts + 1,
                      !.state = IF worker[v].ok THEN "completed"
                                ELSE IF jobs[d].attempts + 1 < TotalAttempts
                                THEN "waiting" ELSE "failed"]
           j == IF ~Owns(v, d) THEN jobs[d] ELSE done
<1>1. /\ worker[v].stage = "report" /\ worker' = [worker EXCEPT ![v] = Idle]
      /\ UNCHANGED <<hook, rows, born, enqueuer, upsets, posts, received, dropped, revived>>
  BY DEF Report, dbVars, postVars
<1>2. /\ d \in Delivery /\ TruthOK(d) /\ JobOK(d) /\ WorkerOK(v) /\ PostsOK(d) /\ AcceptedOK(d)
      /\ rows[d] \in Statuses \union {"none"} /\ jobs[d] \in Job /\ jobs[d].state # "none"
      /\ posts[d] \in Nat /\ received[d] \in Nat /\ upsets[d] \in Nat
      /\ worker[v] \in WorkerState
      /\ upsets[d] = 0 => QuietWorker(v) /\ QuietJob(d)
  BY <1>0, <1>1, AtDelivery, Keeps
<1>3. jobs' = [jobs EXCEPT ![d] = j]
  <2>1. CASE Owns(v, d)
    <3>1. jobs' = [jobs EXCEPT ![d] = done]
      BY <1>0, <2>1 DEF Report
    <3> QED BY <2>1, <3>1
  <2>2. CASE ~Owns(v, d)
    <3>1. jobs' = jobs /\ jobs = [jobs EXCEPT ![d] = jobs[d]]
      BY <1>0, <1>2, <2>2 DEF Report, IInv, TypeOK
    <3> QED BY <2>2, <3>1
  <2> QED BY <2>1, <2>2
<1>4. ~Owns(v, d) => j = jobs[d]
  OBVIOUS
<1>5. Owns(v, d) =>
        /\ j.owner = NoWorker /\ j.attempts = jobs[d].attempts + 1 /\ j.stalls = jobs[d].stalls
        /\ j.state = IF worker[v].ok THEN "completed"
                     ELSE IF jobs[d].attempts + 1 < TotalAttempts THEN "waiting" ELSE "failed"
        /\ jobs[d].state = "active" /\ jobs[d].owner = v
        /\ jobs[d].attempts < TotalAttempts /\ jobs[d].attempts \in Nat
        /\ worker[v].attempt = jobs[d].attempts
  BY <1>0, <1>1, <1>2 DEF Owns, WorkerOK, JobOK, Unfinished, Job
<1>6. j \in Job
  <2>1. CASE Owns(v, d)
    <3>1. done.attempts \in 0..TotalAttempts /\ jobs[d].attempts + 1 \in 0..TotalAttempts
      BY <1>2, <1>5, <2>1, WebhookAssumption DEF Job, TotalAttempts
    <3>2. done \in Job
      BY <1>2, <3>1 DEF Job
    <3> QED BY <2>1, <3>2
  <2>2. CASE ~Owns(v, d)
    BY <1>2, <1>4, <2>2
  <2> QED BY <2>1, <2>2
<1> HIDE DEF j
<1>7. Idle \in WorkerState /\ Idle.delivery = NoDelivery /\ Idle.stage = "idle" /\ d # NoDelivery
  BY <1>2, NoDeliveryIsNone, WebhookAssumption DEF Idle, WorkerState, Statuses, TotalAttempts
<1>8. worker'[v] = Idle /\ jobs'[d] = j
  BY <1>1, <1>3, <1>2 DEF IInv, TypeOK
<1>9. worker[v].ok => received[d] > 0 \/ d \in dropped
  BY <1>0, <1>1, <1>2 DEF WorkerOK
<1>10. ~worker[v].ok => posts[d] + upsets[d] >= worker[v].attempt + 1
  BY <1>0, <1>1, <1>2 DEF WorkerOK
<1>11. JobOK(d)'
  <2>1. CASE Owns(v, d)
    BY <1>1, <1>2, <1>5, <1>8, <1>9, <1>10, <2>1 DEF JobOK, Recorded, Unfinished
  <2>2. CASE ~Owns(v, d)
    BY <1>1, <1>2, <1>4, <1>8, <2>2 DEF JobOK, Recorded, Unfinished
  <2> QED BY <2>1, <2>2
<1>12. TruthOK(d)' /\ WorkerOK(v)'
  BY <1>1, <1>2, <1>7, <1>8 DEF TruthOK, WorkerOK, PostStages
<1>13. Cardinality(Pending(d))' = Cardinality(Pending(d)) /\ Cardinality(Pending(d)) \in Nat
  <2>1. ~WillPost(Idle, d) /\ ~WillPost(worker[v], d)
    BY <1>1, <1>7 DEF WillPost
  <2> QED BY <1>1, <2>1, PendingStep, PendingFinite DEF IInv
<1>14. PostsOK(d)'
  <2>1. CASE Owns(v, d)
    BY <1>1, <1>2, <1>5, <1>6, <1>8, <1>13, <2>1, WebhookAssumption
    DEF PostsOK, Begun, Job, TotalAttempts
  <2>2. CASE ~Owns(v, d)
    BY <1>1, <1>2, <1>4, <1>8, <1>13, <2>2 DEF PostsOK, Begun
  <2> QED BY <2>1, <2>2
<1>15. AcceptedOK(d)'
  <2>1. Open(d)' => Open(d)
    <3>1. CASE Owns(v, d)
      BY <1>1, <1>5, <1>8, <3>1 DEF Open, PostStages
    <3>2. CASE ~Owns(v, d)
      BY <1>1, <1>2, <1>4, <1>8, <3>2 DEF Open, Owns, JobOK, IInv, TypeOK
    <3> QED BY <3>1, <3>2
  <2> QED BY <1>1, <1>2, <1>13, <2>1 DEF AcceptedOK
<1>16. upsets'[d] = 0 => QuietWorker(v)' /\ QuietJob(d)'
  <2> SUFFICES ASSUME upsets[d] = 0 PROVE QuietWorker(v)' /\ QuietJob(d)'
    BY <1>1
  <2>1. Owns(v, d) /\ rows[d] \in {"none", IF worker[v].ok THEN "success"
                                          ELSE AfterFailure(worker[v].attempt)}
    BY <1>0, <1>1, <1>2 DEF QuietWorker
  <2>2. QuietJob(d)'
    BY <1>1, <1>2, <1>5, <1>8, <2>1, WebhookAssumption
    DEF QuietJob, Over, AfterFailure, TotalAttempts
  <2>3. QuietWorker(v)'
    BY <1>7, <1>8 DEF QuietWorker
  <2> QED BY <2>2, <2>3
<1>17. upsets'[d] = 0 => \A u \in Workers \ {v} : worker[u].delivery # d
  BY <1>0, <1>1, Alone
<1>18. /\ rows' = [rows EXCEPT ![d] = rows[d]] /\ posts' = [posts EXCEPT ![d] = posts[d]]
       /\ received' = [received EXCEPT ![d] = received[d]]
       /\ UpsetsGrowAt(d) /\ revived' \subseteq Delivery
  BY <1>1, <1>2, Keeps
<1>a. posts[d] <= posts[d] /\ received[d] <= received[d]
  BY <1>1, <1>2
<1>19. /\ j.state # "none" /\ {worker[v].delivery, Idle.delivery} \subseteq {d, NoDelivery}
       /\ j.state = "active" =>
            j.attempts = jobs[d].attempts /\ jobs[d].state = "active" /\ j.owner = jobs[d].owner
  BY <1>0, <1>2, <1>4, <1>5, <1>7
<1> QED BY <1>1, <1>2, <1>3, <1>6, <1>7, <1>11, <1>12, <1>14, <1>15, <1>16, <1>17, <1>18, <1>19,
           <1>a, LocalStep

LEMMA StallStep ==
  ASSUME IInv, NEW d \in Delivery, StallDead(d) \/ StallAlive(d)
  PROVE  IInv'
<1>0. PICK v : v = jobs[d].owner
  OBVIOUS
<1> DEFINE j == [jobs[d] EXCEPT !.owner = NoWorker,
                   !.stalls = IF @ < MaxStalled THEN @ + 1 ELSE @,
                   !.state = IF jobs[d].stalls < MaxStalled THEN "waiting" ELSE "failed"]
<1>1. /\ jobs[d].state = "active" /\ jobs' = [jobs EXCEPT ![d] = j] /\ UNCHANGED worker
      /\ UNCHANGED <<hook, rows, born, enqueuer, posts, received, dropped, revived>>
      /\ \/ worker[v].delivery # d /\ UNCHANGED upsets
         \/ worker[v].delivery = d /\ Upset(d)
  BY <1>0 DEF StallDead, StallAlive, Stalled, dbVars, postVars, IInv, TypeOK
<1>2. /\ jobs[d] \in Job /\ JobOK(d) /\ TruthOK(d) /\ PostsOK(d) /\ AcceptedOK(d)
      /\ posts[d] \in Nat /\ received[d] \in Nat /\ upsets[d] \in Nat
      /\ rows[d] \in Statuses \union {"none"} /\ revived \subseteq Delivery
      /\ upsets[d] = 0 => QuietJob(d)
  BY DEF IInv, TypeOK, DeliveryFacts, Undisturbed
<1>3. /\ v \in Workers /\ worker[v] \in WorkerState /\ WorkerOK(v)
      /\ worker' = [worker EXCEPT ![v] = worker[v]] /\ worker'[v] = worker[v]
  BY <1>0, <1>1, <1>2 DEF JobOK, IInv, TypeOK, WorkerFacts
<1>a. \/ worker[v].delivery # d /\ upsets'[d] = upsets[d]
      \/ worker[v].delivery = d /\ upsets'[d] = upsets[d] + 1
  BY <1>1, UpsetAt
<1>4. /\ UpsetsGrowAt(d) /\ upsets[d] <= upsets'[d] /\ upsets'[d] # 0 /\ upsets'[d] \in Nat
      /\ \A n \in Delivery : upsets'[n] \in Nat /\ upsets[n] \in Nat /\ upsets[n] <= upsets'[n]
  <2>1. UpsetsGrowAt(d)
    BY <1>1, UpsetAt
  <2>2. upsets'[d] # 0
    BY <1>0, <1>1, <1>2, <1>a DEF QuietJob
  <2> QED BY <2>1, <2>2, UpsetAt DEF UpsetsGrowAt
<1>5. jobs[d].stalls \in 0..MaxStalled /\ jobs[d].attempts \in Nat
      /\ jobs[d].attempts < TotalAttempts /\ jobs[d].attempts <= posts[d] + upsets[d]
  BY <1>1, <1>2, WebhookAssumption DEF Job, JobOK, Unfinished, TotalAttempts
<1>6. /\ j.owner = NoWorker /\ j.attempts = jobs[d].attempts
      /\ j.stalls = (IF jobs[d].stalls < MaxStalled THEN jobs[d].stalls + 1 ELSE jobs[d].stalls)
      /\ j.state = (IF jobs[d].stalls < MaxStalled THEN "waiting" ELSE "failed")
  BY <1>2 DEF Job
<1>7. /\ j.stalls \in 0..MaxStalled
      /\ \/ j.state = "waiting" /\ j.stalls = jobs[d].stalls + 1
         \/ j.state = "failed" /\ j.stalls = jobs[d].stalls
  BY <1>5, <1>6, WebhookAssumption
<1>8. j \in Job
  BY <1>2, <1>7 DEF Job
<1> HIDE DEF j
<1>9. jobs'[d] = j /\ \A n \in Delivery : n # d => jobs'[n] = jobs[n]
  BY <1>1 DEF IInv, TypeOK
<1>10. JobOK(d)' /\ TruthOK(d)'
  BY <1>1, <1>2, <1>4, <1>5, <1>6, <1>7, <1>9, WebhookAssumption
  DEF JobOK, TruthOK, Recorded, Unfinished, TotalAttempts
<1>11. WorkerOK(v)'
  <2>1. \A n \in Delivery : jobs[n].state # "none" => jobs'[n].state # "none"
    BY <1>7, <1>9
  <2>2. \A n \in Delivery : Owns(v, n)' => Owns(v, n) /\ jobs'[n].attempts = jobs[n].attempts
    BY <1>7, <1>9 DEF Owns
  <2>3. \A n \in Delivery : posts[n] \in Nat
    BY DEF IInv, TypeOK
  <2>4. worker[v].attempt \in Nat
    BY <1>3, WebhookAssumption DEF WorkerState, TotalAttempts
  <2> QED BY <1>1, <1>2, <1>3, <1>4, <2>1, <2>2, <2>3, <2>4 DEF WorkerOK, PostStages
<1>12. Cardinality(Pending(d))' = Cardinality(Pending(d)) /\ Cardinality(Pending(d)) \in Nat
  BY <1>1, PendingFinite DEF Pending
<1>13. PostsOK(d)'
  BY <1>1, <1>2, <1>5, <1>6, <1>7, <1>9, <1>12, WebhookAssumption DEF PostsOK, Begun
<1>14. AcceptedOK(d)'
  <2>1. worker[v].delivery # d => Open(d)
    BY <1>0, <1>1 DEF Open
  <2> QED BY <1>1, <1>2, <1>4, <1>a, <1>12, <2>1 DEF AcceptedOK
<1>15. /\ rows' = [rows EXCEPT ![d] = rows[d]] /\ posts' = [posts EXCEPT ![d] = posts[d]]
       /\ received' = [received EXCEPT ![d] = received[d]] /\ revived' \subseteq Delivery
  BY <1>1, <1>2, Keeps
<1>16. posts[d] <= posts[d] /\ received[d] <= received[d]
  BY <1>2
<1>17. jobs[d].state # "none" /\ j.state # "none" /\ j.state # "active"
  BY <1>1, <1>7
<1> QED BY <1>1, <1>2, <1>3, <1>4, <1>8, <1>10, <1>11, <1>13, <1>14, <1>15, <1>16, <1>17, LocalStep

-----------------------------------------------------------------------------
(* The steps that leave the jobs and the workers alone.                    *)

\* Rows are deleted, and inserted only where there is no job yet.
LEMMA StoreStep ==
  ASSUME IInv, UNCHANGED <<jobs, worker, posts, received>>,
         UpsetsGrow,
         dropped \subseteq dropped',
         \A d \in Delivery : \/ rows'[d] = rows[d]
                             \/ rows'[d] = "none" /\ d \in dropped'
                             \/ rows'[d] = "pending" /\ jobs[d].state = "none"
  PROVE  DeliveryFacts' /\ WorkerFacts' /\ Undisturbed'
<1>1. \A d \in Delivery : upsets[d] \in Nat /\ upsets'[d] \in Nat /\ upsets[d] <= upsets'[d]
  BY DEF IInv, TypeOK, UpsetsGrow
<1>2. \A d : Cardinality(Pending(d))' = Cardinality(Pending(d)) /\ Cardinality(Pending(d)) \in Nat
  BY PendingFinite DEF Pending
<1>3. DeliveryFacts'
  <2> SUFFICES ASSUME NEW d \in Delivery
               PROVE  JobOK(d)' /\ TruthOK(d)' /\ PostsOK(d)' /\ AcceptedOK(d)'
    BY DEF DeliveryFacts
  <2>1. /\ JobOK(d) /\ TruthOK(d) /\ PostsOK(d) /\ AcceptedOK(d)
        /\ posts[d] \in Nat /\ received[d] \in Nat /\ jobs[d] \in Job
    BY DEF IInv, TypeOK, DeliveryFacts
  <2>2. JobOK(d)'
    BY <1>1, <2>1 DEF JobOK, Recorded, Unfinished, Job
  <2>3. TruthOK(d)'
    BY <1>1, <2>1, WebhookAssumption DEF TruthOK, TotalAttempts
  <2>4. PostsOK(d)'
    BY <1>2, <2>1 DEF PostsOK, Begun
  <2>5. AcceptedOK(d)'
    <3>1. Open(d)' <=> Open(d)
      BY DEF Open
    <3> QED BY <1>1, <1>2, <2>1, <3>1 DEF AcceptedOK
  <2> QED BY <2>2, <2>3, <2>4, <2>5
<1>4. WorkerFacts'
  <2> SUFFICES ASSUME NEW v \in Workers PROVE WorkerOK(v)'
    BY DEF WorkerFacts
  <2>1. WorkerOK(v) /\ worker[v] \in WorkerState /\ \A d \in Delivery : posts[d] \in Nat
    BY DEF IInv, TypeOK, WorkerFacts
  <2>2. worker[v].attempt \in Nat
    BY <2>1, WebhookAssumption DEF WorkerState, TotalAttempts
  <2> QED BY <1>1, <2>1, <2>2 DEF WorkerOK, Owns, PostStages
<1>5. Undisturbed'
  <2> SUFFICES ASSUME NEW d \in Delivery, upsets'[d] = 0
               PROVE  /\ QuietJob(d)'
                      /\ \A v \in Workers : worker[v].delivery = d => QuietWorker(v)'
    BY DEF Undisturbed
  <2>1. QuietJob(d) /\ \A v \in Workers : worker[v].delivery = d => QuietWorker(v)
    BY <1>1 DEF IInv, Undisturbed
  <2>2. ASSUME NEW v \in Workers, worker[v].delivery = d PROVE QuietWorker(v)'
    <3>1. WorkerOK(v) /\ QuietWorker(v)
      BY <2>1, <2>2 DEF IInv, WorkerFacts
    <3> QED BY <3>1 DEF WorkerOK, QuietWorker, Owns
  <2>3. QuietJob(d)'
    BY <2>1 DEF QuietJob, Over
  <2> QED BY <2>2, <2>3
<1> QED BY <1>3, <1>4, <1>5

LEMMA DeletedRows ==
  ASSUME IInv, NEW ds \in SUBSET Delivery, DeleteRows(ds)
  PROVE  /\ rows' \in [Delivery -> Statuses \union {"none"}]
         /\ dropped' \subseteq Delivery /\ dropped \subseteq dropped'
         /\ \A d \in Delivery : \/ rows'[d] = rows[d]
                                \/ rows'[d] = "none" /\ d \in dropped'
         /\ \A d \in Delivery : Recorded(d) => Recorded(d)'
  BY DEF IInv, TypeOK, DeleteRows, Recorded

\* The owners of webhooks and the cleanup.
LEMMA OwnersStep ==
  ASSUME IInv, NEW ds \in SUBSET Delivery, DeleteRows(ds),
         hook' \in [Webhooks -> {"new", "registered", "removed"}],
         UNCHANGED <<born, enqueuer, jobs, worker, upsets, revived, posts, received>>
  PROVE  IInv'
<1>1. UpsetsGrow
  BY DEF IInv, TypeOK, UpsetsGrow
<1>2. DeliveryFacts' /\ WorkerFacts' /\ Undisturbed'
  BY <1>1, DeletedRows, StoreStep
<1>3. TypeOK'
  BY DeletedRows DEF IInv, TypeOK
<1>4. Enqueuing'
  BY DeletedRows DEF IInv, TypeOK, Enqueuing, Current
<1>5. RowsGetJobs'
  BY DeletedRows DEF IInv, RowsGetJobs, OnItsWay, Current
<1> QED BY <1>2, <1>3, <1>4, <1>5 DEF IInv

\* An enqueuer goes on.
LEMMA EnqueuerStep ==
  ASSUME IInv, NEW e \in Events, NEW n \in EnqueuerState,
         enqueuer' = [enqueuer EXCEPT ![e] = n],
         born' \in Seq(Delivery),
         rows' \in [Delivery -> Statuses \union {"none"}], dropped' \subseteq Delivery,
         dropped \subseteq dropped',
         \A d \in Delivery : \/ rows'[d] = rows[d]
                             \/ rows'[d] = "none" /\ d \in dropped'
                             \/ /\ rows'[d] = "pending" /\ jobs[d].state = "none"
                                /\ d = n.delivery /\ n.stage \in {"find", "delete", "add"},
         UpsetsGrow,
         UNCHANGED <<hook, jobs, worker, revived, posts, received>>,
         n.stage # "idle",
         n.stage \in {"loop", "insert", "find", "delete", "add"} =>
           \A w \in n.todo : <<e, w>> \in Delivery /\ jobs[<<e, w>>].state = "none",
         n.stage \in {"insert", "find", "delete", "add"} =>
           \E w \in Webhooks \ n.todo :
             n.delivery = <<e, w>> /\ <<e, w>> \in Delivery /\ jobs[<<e, w>>].state = "none",
         n.stage \in {"find", "delete", "add"} => Recorded(n.delivery)',
         \* a row that was on its way to a job still is
         enqueuer[e].stage \in {"find", "delete", "add"} =>
           \/ n.delivery = Current(e) /\ n.stage \in {"find", "delete", "add"}
           \/ upsets'[Current(e)] # 0
  PROVE  IInv'
<1>1. DeliveryFacts' /\ WorkerFacts' /\ Undisturbed'
  BY StoreStep
<1>2. TypeOK'
  BY DEF IInv, TypeOK, UpsetsGrow
<1>3. Enqueuing'
  <2> SUFFICES ASSUME NEW o \in Events
        PROVE
          /\ enqueuer'[o].stage = "idle" =>
               \A w \in Webhooks : <<o, w>> \in Delivery => jobs'[<<o, w>>].state = "none"
          /\ enqueuer'[o].stage \in {"loop", "insert", "find", "delete", "add"} =>
               \A w \in enqueuer'[o].todo : <<o, w>> \in Delivery /\ jobs'[<<o, w>>].state = "none"
          /\ enqueuer'[o].stage \in {"insert", "find", "delete", "add"} =>
               \E w \in Webhooks \ enqueuer'[o].todo :
                 /\ Current(o)' = <<o, w>>
                 /\ Current(o)' \in Delivery /\ jobs'[Current(o)'].state = "none"
          /\ enqueuer'[o].stage \in {"find", "delete", "add"} => Recorded(Current(o))'
    BY DEF Enqueuing
  <2>1. CASE o = e
    <3>1. enqueuer'[o] = n /\ Current(o)' = n.delivery
      BY <2>1 DEF IInv, TypeOK, Current
    <3>2. n.stage \in {"find", "delete", "add"} => Recorded(Current(o))'
      BY <3>1
    <3> QED BY <2>1, <3>1, <3>2
  <2>2. CASE o # e
    <3>1. enqueuer'[o] = enqueuer[o] /\ Current(o)' = Current(o)
      BY <2>2 DEF IInv, TypeOK, Current
    <3>2. \A d \in Delivery : Recorded(d) => Recorded(d)'
      BY DEF Recorded
    <3>3. enqueuer[o].stage \in {"find", "delete", "add"} => Recorded(Current(o))'
      BY <3>1, <3>2 DEF IInv, Enqueuing, Recorded
    <3> QED BY <3>1, <3>3 DEF IInv, Enqueuing
  <2> QED BY <2>1, <2>2
<1>4. RowsGetJobs'
  <2> SUFFICES ASSUME NEW d \in Delivery, upsets'[d] = 0, rows'[d] # "none",
                      jobs[d].state = "none"
               PROVE  OnItsWay(d)'
    BY DEF RowsGetJobs
  <2>1. enqueuer'[e] = n /\ \A o \in Events : o # e => enqueuer'[o] = enqueuer[o]
    BY DEF IInv, TypeOK
  <2>2. CASE rows'[d] = "pending" /\ d = n.delivery /\ n.stage \in {"find", "delete", "add"}
    <3>1. d[1] = e
      <4>1. PICK w \in Webhooks \ n.todo : n.delivery = <<e, w>>
        BY <2>2
      <4> QED BY <2>2, <4>1
    <3> QED BY <2>1, <2>2, <3>1 DEF OnItsWay, Current
  <2>3. CASE rows'[d] = rows[d]
    <3>1. OnItsWay(d)
      BY <2>3 DEF IInv, TypeOK, UpsetsGrow, RowsGetJobs
    <3>2. d[1] \in Events
      BY DEF Delivery
    <3>3. CASE d[1] = e
      BY <2>1, <3>1, <3>3 DEF OnItsWay, Current
    <3>4. CASE d[1] # e
      BY <2>1, <3>1, <3>2, <3>4 DEF OnItsWay, Current
    <3> QED BY <3>3, <3>4
  <2> QED BY <2>2, <2>3
<1> QED BY <1>1, <1>2, <1>3, <1>4 DEF IInv

\* What an enqueuer knows.
LEMMA AtEnqueuer ==
  ASSUME IInv, NEW e \in Events
  PROVE  /\ enqueuer[e] \in EnqueuerState
         /\ enqueuer[e].stage = "idle" =>
              \A w \in Webhooks : <<e, w>> \in Delivery => jobs[<<e, w>>].state = "none"
         /\ enqueuer[e].stage \in {"loop", "insert", "find", "delete", "add"} =>
              \A w \in enqueuer[e].todo : <<e, w>> \in Delivery /\ jobs[<<e, w>>].state = "none"
         /\ enqueuer[e].stage \in {"insert", "find", "delete", "add"} =>
              /\ \E w \in Webhooks \ enqueuer[e].todo :
                   /\ enqueuer[e].delivery = <<e, w>>
                   /\ <<e, w>> \in Delivery /\ jobs[<<e, w>>].state = "none"
              /\ Current(e) \in Delivery /\ jobs[Current(e)].state = "none"
         /\ enqueuer[e].stage \in {"find", "delete", "add"} => Recorded(Current(e))
         /\ rows \in [Delivery -> Statuses \union {"none"}] /\ born \in Seq(Delivery)
         /\ dropped \subseteq Delivery /\ upsets \in [Delivery -> Nat]
         /\ UNCHANGED upsets => UpsetsGrow
<1>1. /\ enqueuer[e] \in EnqueuerState /\ born \in Seq(Delivery)
      /\ rows \in [Delivery -> Statuses \union {"none"}]
      /\ dropped \subseteq Delivery /\ upsets \in [Delivery -> Nat]
  BY DEF IInv, TypeOK
<1>2. UNCHANGED upsets => UpsetsGrow
  BY <1>1 DEF UpsetsGrow
<1>3. /\ enqueuer[e].stage = "idle" =>
           \A w \in Webhooks : <<e, w>> \in Delivery => jobs[<<e, w>>].state = "none"
      /\ enqueuer[e].stage \in {"loop", "insert", "find", "delete", "add"} =>
           \A w \in enqueuer[e].todo : <<e, w>> \in Delivery /\ jobs[<<e, w>>].state = "none"
      /\ enqueuer[e].stage \in {"insert", "find", "delete", "add"} =>
           \E w \in Webhooks \ enqueuer[e].todo :
             /\ Current(e) = <<e, w>>
             /\ Current(e) \in Delivery /\ jobs[Current(e)].state = "none"
      /\ enqueuer[e].stage \in {"find", "delete", "add"} => Recorded(Current(e))
  BY DEF IInv, Enqueuing
<1> QED BY <1>1, <1>2, <1>3 DEF Current

LEMMA EnqueueEventStep ==
  ASSUME IInv, NEW e \in Events, EnqueueEvent(e)
  PROVE  IInv'
<1> DEFINE n == [enqueuer[e] EXCEPT !.stage = "loop",
                   !.todo = {w \in Webhooks : hook[w] = "registered" /\ e \in Subscribed[w]}]
<1>1. /\ enqueuer[e].stage = "idle" /\ enqueuer' = [enqueuer EXCEPT ![e] = n]
      /\ UNCHANGED <<hook, rows, born, jobs, worker, upsets, dropped, revived, posts, received>>
  BY DEF EnqueueEvent, AtStage, dbVars, postVars
<1>2. n \in EnqueuerState /\ n.stage = "loop"
  BY AtEnqueuer DEF EnqueuerState
<1>3. \A w \in n.todo : w \in Webhooks /\ e \in Subscribed[w]
  BY AtEnqueuer DEF EnqueuerState
<1>4. \A w \in n.todo : <<e, w>> \in Delivery /\ jobs[<<e, w>>].state = "none"
  BY <1>1, <1>3, AtEnqueuer DEF Delivery
<1> HIDE DEF n
<1> QED BY <1>1, <1>2, <1>4, AtEnqueuer, EnqueuerStep

LEMMA BeginSaveStep ==
  ASSUME IInv, NEW e \in Events, BeginSave(e)
  PROVE  IInv'
<1>1. PICK w \in enqueuer[e].todo :
        /\ enqueuer' = [enqueuer EXCEPT ![e].stage = "insert", ![e].delivery = <<e, w>>,
                                        ![e].todo = enqueuer[e].todo \ {w}]
        /\ born' = Append(born, <<e, w>>)
  BY DEF BeginSave
<1> DEFINE n == [enqueuer[e] EXCEPT !.stage = "insert", !.delivery = <<e, w>>,
                                    !.todo = enqueuer[e].todo \ {w}]
<1>2. /\ enqueuer[e].stage = "loop" /\ enqueuer' = [enqueuer EXCEPT ![e] = n]
      /\ UNCHANGED <<hook, rows, jobs, worker, upsets, dropped, revived, posts, received>>
  BY <1>1 DEF BeginSave, AtStage, postVars
<1>3. <<e, w>> \in Delivery /\ jobs[<<e, w>>].state = "none" /\ w \in Webhooks
  BY <1>2, AtEnqueuer DEF EnqueuerState
<1>4. /\ n \in EnqueuerState /\ n.stage = "insert" /\ n.delivery = <<e, w>>
      /\ n.todo = enqueuer[e].todo \ {w}
  BY <1>3, AtEnqueuer DEF EnqueuerState
<1>5. born' \in Seq(Delivery)
  BY <1>1, <1>3, AtEnqueuer
<1>6. \A x \in n.todo : <<e, x>> \in Delivery /\ jobs[<<e, x>>].state = "none"
  BY <1>2, <1>4, AtEnqueuer
<1> HIDE DEF n
<1>7. \E x \in Webhooks \ n.todo :
        n.delivery = <<e, x>> /\ <<e, x>> \in Delivery /\ jobs[<<e, x>>].state = "none"
  BY <1>3, <1>4
<1> QED BY <1>2, <1>4, <1>5, <1>6, <1>7, AtEnqueuer, EnqueuerStep

\* An enqueuer that goes to another stage with the same delivery and the same webhooks.
LEMMA GoStep ==
  ASSUME IInv, NEW e \in Events, NEW stage, NEW stale \in SUBSET Delivery,
         enqueuer' = [enqueuer EXCEPT ![e].stage = stage, ![e].stale = stale],
         \/ /\ stage \in {"failed", "unpruned"} /\ enqueuer[e].stage # "idle"
            /\ enqueuer[e].stage \in {"find", "delete", "add"} => upsets'[Current(e)] # 0
         \/ /\ enqueuer[e].stage \in {"insert", "find", "delete", "add"}
            /\ stage \in {"find", "delete", "add"} /\ Recorded(Current(e))',
         rows' \in [Delivery -> Statuses \union {"none"}], dropped' \subseteq Delivery,
         dropped \subseteq dropped',
         \A d \in Delivery : \/ rows'[d] = rows[d]
                             \/ rows'[d] = "none" /\ d \in dropped'
                             \/ /\ rows'[d] = "pending" /\ jobs[d].state = "none"
                                /\ d = Current(e) /\ stage \in {"find", "delete", "add"},
         UpsetsGrow,
         UNCHANGED <<hook, born, jobs, worker, revived, posts, received>>
  PROVE  IInv'
<1>0. PICK n : n = [enqueuer[e] EXCEPT !.stage = stage, !.stale = stale]
  OBVIOUS
<1>1. enqueuer' = [enqueuer EXCEPT ![e] = n]
  BY <1>0
<1>2. /\ n \in EnqueuerState /\ n.stage = stage /\ n.delivery = enqueuer[e].delivery
      /\ n.todo = enqueuer[e].todo
  <2>1. enqueuer[e] \in EnqueuerState
    BY AtEnqueuer
  <2>2. stage \in {"find", "delete", "add", "failed", "unpruned"}
    OBVIOUS
  <2> QED BY <1>0, <2>1, <2>2 DEF EnqueuerState
<1>3. stage # "idle"
  OBVIOUS
<1>4. n.stage \in {"loop", "insert", "find", "delete", "add"} =>
        \A w \in n.todo : <<e, w>> \in Delivery /\ jobs[<<e, w>>].state = "none"
  BY <1>2, AtEnqueuer
<1>5. n.stage \in {"insert", "find", "delete", "add"} =>
        \E w \in Webhooks \ n.todo :
          n.delivery = <<e, w>> /\ <<e, w>> \in Delivery /\ jobs[<<e, w>>].state = "none"
  BY <1>2, AtEnqueuer
<1>6. n.stage \in {"find", "delete", "add"} => Recorded(n.delivery)'
  <2>1. Current(e)' = n.delivery
    BY <1>1 DEF Current, IInv, TypeOK
  <2>2. n.stage \in {"find", "delete", "add"} => Recorded(Current(e))'
    BY <1>2
  <2> QED BY <2>1, <2>2
<1>7. born' \in Seq(Delivery)
  BY AtEnqueuer
<1>8. \A d \in Delivery :
        \/ rows'[d] = rows[d]
        \/ rows'[d] = "none" /\ d \in dropped'
        \/ /\ rows'[d] = "pending" /\ jobs[d].state = "none"
           /\ d = n.delivery /\ n.stage \in {"find", "delete", "add"}
  BY <1>2 DEF Current
<1>9. enqueuer[e].stage \in {"find", "delete", "add"} =>
        \/ n.delivery = Current(e) /\ n.stage \in {"find", "delete", "add"}
        \/ upsets'[Current(e)] # 0
  BY <1>2 DEF Current
<1> QED BY <1>1, <1>2, <1>3, <1>4, <1>5, <1>6, <1>7, <1>8, <1>9, EnqueuerStep

LEMMA SaveDeliveryStep ==
  ASSUME IInv, NEW e \in Events, SaveDelivery(e)
  PROVE  IInv'
<1>0. PICK d : d = Current(e)
  OBVIOUS
<1>1. /\ enqueuer[e].stage = "insert"
      /\ UNCHANGED <<hook, born, jobs, worker, upsets, dropped, revived, posts, received>>
  BY DEF SaveDelivery, AtStage, postVars
<1>2. /\ d \in Delivery /\ jobs[d].state = "none" /\ dropped \subseteq Delivery
      /\ rows \in [Delivery -> Statuses \union {"none"}]
      /\ upsets \in [Delivery -> Nat]
      /\ d = enqueuer[e].delivery /\ enqueuer \in [Events -> EnqueuerState]
  BY <1>0, <1>1, AtEnqueuer DEF Current, IInv, TypeOK
<1>3. CASE hook[d[2]] = "registered"
  <2>1. /\ rows' = [rows EXCEPT ![d] = "pending"]
        /\ enqueuer' = [enqueuer EXCEPT ![e].stage = "find", ![e].stale = {}]
    BY <1>0, <1>3 DEF SaveDelivery, GoTo
  <2>2. Current(e)' = d
    BY <1>2, <2>1 DEF Current, EnqueuerState
  <2>3. Recorded(Current(e))'
    BY <1>2, <2>1, <2>2 DEF Recorded
  <2>4. /\ rows' \in [Delivery -> Statuses \union {"none"}]
        /\ \A n \in Delivery : \/ rows'[n] = rows[n]
                               \/ rows'[n] = "none" /\ n \in dropped'
                               \/ rows'[n] = "pending" /\ jobs[n].state = "none" /\ n = d
    BY <1>2, <2>1 DEF Statuses
  <2>5. PICK stage \in {"find"}, none \in SUBSET Delivery : none = {}
    OBVIOUS
  <2>6. enqueuer' = [enqueuer EXCEPT ![e].stage = stage, ![e].stale = none]
    BY <2>1, <2>5
  <2>7. /\ \A n \in Delivery : \/ rows'[n] = rows[n]
                               \/ rows'[n] = "none" /\ n \in dropped'
                               \/ /\ rows'[n] = "pending" /\ jobs[n].state = "none"
                                  /\ n = Current(e) /\ stage \in {"find", "delete", "add"}
        /\ UpsetsGrow /\ dropped' \subseteq Delivery /\ dropped \subseteq dropped'
    BY <1>0, <1>1, <1>2, <2>4, <2>5, AtEnqueuer
  <2> QED BY <1>1, <2>3, <2>4, <2>5, <2>6, <2>7, GoStep
<1>4. CASE hook[d[2]] # "registered"
  <2>1. /\ enqueuer' = [enqueuer EXCEPT ![e].stage = "failed", ![e].stale = {}]
        /\ UNCHANGED rows
    BY <1>0, <1>4 DEF SaveDelivery, GoTo
  <2>2. PICK stage \in {"failed"}, none \in SUBSET Delivery : none = {}
    OBVIOUS
  <2>3. enqueuer' = [enqueuer EXCEPT ![e].stage = stage, ![e].stale = none] /\ rows' = rows
    BY <2>1, <2>2
  <2> QED BY <1>1, <1>2, <2>2, <2>3, AtEnqueuer, GoStep
<1> QED BY <1>3, <1>4

LEMMA PruneFindStep ==
  ASSUME IInv, NEW e \in Events, PruneFind(e)
  PROVE  IInv'
<1>0. PICK stale : stale = Stale(Current(e)[2])
  OBVIOUS
<1>1. /\ enqueuer[e].stage = "find"
      /\ UNCHANGED <<hook, rows, born, jobs, worker, upsets, dropped, revived, posts, received>>
  BY DEF PruneFind, AtStage, dbVars, postVars
<1>2. /\ stale \in SUBSET Delivery /\ dropped \subseteq Delivery
      /\ rows \in [Delivery -> Statuses \union {"none"}]
      /\ upsets \in [Delivery -> Nat]
      /\ Recorded(Current(e)) /\ enqueuer \in [Events -> EnqueuerState]
  BY <1>0, <1>1, AtEnqueuer DEF Stale, RowsOf, IInv, TypeOK
<1>3. PICK stage \in {"add", "delete"} :
        enqueuer' = [enqueuer EXCEPT ![e].stage = stage, ![e].stale = stale]
  BY <1>0 DEF PruneFind
<1>4. Current(e)' = Current(e)
  BY <1>2, <1>3 DEF Current, EnqueuerState
<1>5. Recorded(Current(e))'
  BY <1>1, <1>2, <1>4 DEF Recorded
<1> QED BY <1>1, <1>2, <1>3, <1>5, AtEnqueuer, GoStep

LEMMA PruneDeleteStep ==
  ASSUME IInv, NEW e \in Events, PruneDelete(e)
  PROVE  IInv'
<1>1. /\ enqueuer[e].stage = "delete" /\ DeleteRows(enqueuer[e].stale)
      /\ enqueuer' = [enqueuer EXCEPT ![e].stage = "add", ![e].stale = {}]
      /\ UNCHANGED <<hook, born, jobs, worker, upsets, revived, posts, received>>
  BY DEF PruneDelete, AtStage, GoTo, postVars
<1>2. /\ enqueuer[e].stale \in SUBSET Delivery
      /\ upsets \in [Delivery -> Nat]
      /\ Recorded(Current(e)) /\ Current(e) \in Delivery /\ enqueuer \in [Events -> EnqueuerState]
  BY <1>1, AtEnqueuer DEF EnqueuerState, IInv, TypeOK
<1>3. PICK d : d = Current(e)
  OBVIOUS
<1>4. Current(e)' = d
  BY <1>1, <1>2, <1>3 DEF Current, EnqueuerState
<1>5. /\ rows' \in [Delivery -> Statuses \union {"none"}]
      /\ dropped' \subseteq Delivery /\ dropped \subseteq dropped'
      /\ \A n \in Delivery : \/ rows'[n] = rows[n]
                             \/ rows'[n] = "none" /\ n \in dropped'
      /\ \A n \in Delivery : Recorded(n) => Recorded(n)'
  BY <1>1, <1>2, DeletedRows
<1>6. Recorded(Current(e))'
  BY <1>2, <1>3, <1>4, <1>5 DEF Recorded
<1>7. PICK stage \in {"add"}, none \in SUBSET Delivery : none = {}
  OBVIOUS
<1>8. enqueuer' = [enqueuer EXCEPT ![e].stage = stage, ![e].stale = none]
  BY <1>1, <1>7
<1>9. /\ UNCHANGED <<hook, born, jobs, worker, revived, posts, received>>
      /\ enqueuer[e].stage = "delete" /\ UpsetsGrow
  BY <1>1, AtEnqueuer
<1>10. \A n \in Delivery :
         \/ rows'[n] = rows[n]
         \/ rows'[n] = "none" /\ n \in dropped'
  BY <1>5
<1>11. /\ rows' \in [Delivery -> Statuses \union {"none"}]
       /\ dropped' \subseteq Delivery /\ dropped \subseteq dropped'
  BY <1>5
<1> QED BY <1>6, <1>7, <1>8, <1>9, <1>10, <1>11, GoStep

\* The job of an enqueued delivery appears.
LEMMA JobAddedStep ==
  ASSUME IInv, NEW e \in Events, enqueuer[e].stage = "add", JobAdded(e),
         NEW stage \in {"loop", "failed", "unpruned"}, GoTo(e, stage),
         UpsetsGrow,
         UNCHANGED <<hook, rows, born, worker, dropped, revived, posts, received>>
  PROVE  IInv'
<1>0. PICK d : d = Current(e)
  OBVIOUS
<1>1. jobs' = [jobs EXCEPT ![d].state = "waiting"]
  BY <1>0 DEF JobAdded
<1>2. /\ d \in Delivery /\ jobs[d].state = "none" /\ Recorded(d) /\ d = enqueuer[e].delivery
      /\ \E w \in Webhooks \ enqueuer[e].todo : d = <<e, w>>
      /\ enqueuer \in [Events -> EnqueuerState] /\ jobs[d] \in Job /\ jobs \in [Delivery -> Job]
      /\ \A n \in Delivery : upsets[n] \in Nat /\ upsets'[n] \in Nat /\ upsets[n] <= upsets'[n]
  <2>1. \A n \in Delivery : upsets[n] \in Nat /\ upsets'[n] \in Nat /\ upsets[n] <= upsets'[n]
    BY DEF IInv, TypeOK, UpsetsGrow
  <2>2. /\ d \in Delivery /\ jobs[d].state = "none" /\ Recorded(d) /\ d = enqueuer[e].delivery
        /\ \E w \in Webhooks \ enqueuer[e].todo : d = <<e, w>>
    BY <1>0, AtEnqueuer DEF Current
  <2>3. enqueuer \in [Events -> EnqueuerState] /\ jobs \in [Delivery -> Job]
    BY DEF IInv, TypeOK
  <2> QED BY <2>1, <2>2, <2>3
<1>3. /\ jobs'[d] = [jobs[d] EXCEPT !.state = "waiting"]
      /\ jobs'[d] \in Job /\ jobs'[d].state = "waiting" /\ jobs'[d].owner = jobs[d].owner
      /\ jobs'[d].attempts = jobs[d].attempts /\ jobs'[d].stalls = jobs[d].stalls
      /\ \A n \in Delivery : n # d => jobs'[n] = jobs[n]
  BY <1>1, <1>2 DEF Job
<1>4. jobs' \in [Delivery -> Job]
  BY <1>1, <1>2, <1>3
<1>5. /\ enqueuer' \in [Events -> EnqueuerState]
      /\ \A o \in Events : o # e => enqueuer'[o] = enqueuer[o]
      /\ enqueuer'[e].stage = stage /\ enqueuer'[e].todo = enqueuer[e].todo
  BY <1>2 DEF GoTo, EnqueuerState
<1>6. TypeOK'
  BY <1>4, <1>5 DEF IInv, TypeOK, UpsetsGrow
<1>7. Enqueuing'
  <2> SUFFICES ASSUME NEW o \in Events
        PROVE
          /\ enqueuer'[o].stage = "idle" =>
               \A w \in Webhooks : <<o, w>> \in Delivery => jobs'[<<o, w>>].state = "none"
          /\ enqueuer'[o].stage \in {"loop", "insert", "find", "delete", "add"} =>
               \A w \in enqueuer'[o].todo : <<o, w>> \in Delivery /\ jobs'[<<o, w>>].state = "none"
          /\ enqueuer'[o].stage \in {"insert", "find", "delete", "add"} =>
               \E w \in Webhooks \ enqueuer'[o].todo :
                 /\ Current(o)' = <<o, w>>
                 /\ Current(o)' \in Delivery /\ jobs'[Current(o)'].state = "none"
          /\ enqueuer'[o].stage \in {"find", "delete", "add"} => Recorded(Current(o))'
    BY DEF Enqueuing
  <2>1. CASE o = e
    <3>1. enqueuer'[o].stage \in {"loop", "failed", "unpruned"} /\ enqueuer'[o].todo = enqueuer[e].todo
      BY <1>5, <2>1
    <3>2. \A w \in enqueuer[e].todo : <<e, w>> \in Delivery /\ jobs[<<e, w>>].state = "none"
      BY AtEnqueuer
    <3>3. \A w \in enqueuer[e].todo : <<e, w>> # d
      BY <1>2
    <3> QED BY <1>3, <2>1, <3>1, <3>2, <3>3
  <2>2. CASE o # e
    <3>1. enqueuer'[o] = enqueuer[o] /\ Current(o)' = Current(o)
      BY <1>5, <2>2 DEF Current
    <3>2. \A w : <<o, w>> # d
      BY <1>2, <2>2
    <3>3. enqueuer[o].stage \in {"find", "delete", "add"} => Recorded(Current(o))'
      BY <3>1, AtEnqueuer DEF Recorded
    <3>4. \A w : <<o, w>> \in Delivery => jobs'[<<o, w>>] = jobs[<<o, w>>]
      BY <1>3, <3>2
    <3>5. enqueuer[o].stage \in {"insert", "find", "delete", "add"} =>
            \E w \in Webhooks \ enqueuer'[o].todo :
              /\ Current(o)' = <<o, w>>
              /\ Current(o)' \in Delivery /\ jobs'[Current(o)'].state = "none"
      <4>1. enqueuer[o].stage \in {"insert", "find", "delete", "add"} =>
              \E w \in Webhooks \ enqueuer[o].todo :
                /\ Current(o) = <<o, w>> /\ <<o, w>> \in Delivery
                /\ jobs[<<o, w>>].state = "none"
        BY AtEnqueuer DEF Current
      <4> QED BY <3>1, <3>4, <4>1
    <3>6. /\ enqueuer[o].stage = "idle" =>
               \A w \in Webhooks : <<o, w>> \in Delivery => jobs[<<o, w>>].state = "none"
          /\ enqueuer[o].stage \in {"loop", "insert", "find", "delete", "add"} =>
               \A w \in enqueuer[o].todo : <<o, w>> \in Delivery /\ jobs[<<o, w>>].state = "none"
      BY AtEnqueuer
    <3> QED BY <3>1, <3>3, <3>4, <3>5, <3>6
  <2> QED BY <2>1, <2>2
<1>8. \A n : Cardinality(Pending(n))' = Cardinality(Pending(n)) /\ Cardinality(Pending(n)) \in Nat
  BY PendingFinite DEF Pending
<1>9. DeliveryFacts'
  <2> SUFFICES ASSUME NEW n \in Delivery
               PROVE  JobOK(n)' /\ TruthOK(n)' /\ PostsOK(n)' /\ AcceptedOK(n)'
    BY DEF DeliveryFacts
  <2>1. /\ JobOK(n) /\ TruthOK(n) /\ PostsOK(n) /\ AcceptedOK(n)
        /\ posts[n] \in Nat /\ received[n] \in Nat /\ jobs[n] \in Job
    BY DEF IInv, TypeOK, DeliveryFacts
  <2>2. JobOK(n)'
    BY <1>2, <1>3, <2>1 DEF JobOK, Recorded, Unfinished, Job
  <2>3. TruthOK(n)'
    BY <1>2, <2>1, WebhookAssumption DEF TruthOK, TotalAttempts
  <2>4. PostsOK(n)'
    BY <1>2, <1>3, <1>8, <2>1 DEF PostsOK, Begun
  <2>5. AcceptedOK(n)'
    <3>1. Open(n)' <=> Open(n)
      BY <1>2, <1>3 DEF Open
    <3> QED BY <1>2, <1>8, <2>1, <3>1 DEF AcceptedOK
  <2> QED BY <2>2, <2>3, <2>4, <2>5
<1>10. WorkerFacts'
  <2> SUFFICES ASSUME NEW v \in Workers PROVE WorkerOK(v)'
    BY DEF WorkerFacts
  <2>1. WorkerOK(v) /\ worker[v] \in WorkerState /\ \A n \in Delivery : posts[n] \in Nat
    BY DEF IInv, TypeOK, WorkerFacts
  <2>2. worker[v].attempt \in Nat
    BY <2>1, WebhookAssumption DEF WorkerState, TotalAttempts
  <2>3. \A n \in Delivery : jobs[n].state # "none" => jobs'[n] = jobs[n]
    BY <1>2, <1>3
  <2> QED BY <1>2, <2>1, <2>2, <2>3 DEF WorkerOK, Owns, PostStages
<1>11. Undisturbed'
  <2> SUFFICES ASSUME NEW n \in Delivery, upsets'[n] = 0
               PROVE  /\ QuietJob(n)'
                      /\ \A v \in Workers : worker[v].delivery = n => QuietWorker(v)'
    BY DEF Undisturbed
  <2>1. QuietJob(n) /\ \A v \in Workers : worker[v].delivery = n => QuietWorker(v)
    BY <1>2 DEF IInv, Undisturbed
  <2>2. ASSUME NEW v \in Workers, worker[v].delivery = n PROVE QuietWorker(v)'
    <3>1. WorkerOK(v) /\ QuietWorker(v)
      BY <2>1, <2>2 DEF IInv, WorkerFacts
    <3> QED BY <1>2, <1>3, <3>1 DEF WorkerOK, QuietWorker, Owns
  <2>3. QuietJob(n)'
    BY <1>2, <1>3, <2>1 DEF QuietJob, Over
  <2> QED BY <2>2, <2>3
<1>12. RowsGetJobs'
  <2> SUFFICES ASSUME NEW n \in Delivery, upsets'[n] = 0, rows[n] # "none",
                      jobs'[n].state = "none"
               PROVE  OnItsWay(n)'
    BY DEF RowsGetJobs
  <2>1. n # d /\ jobs[n].state = "none"
    BY <1>3
  <2>2. OnItsWay(n)
    BY <1>2, <2>1 DEF IInv, RowsGetJobs
  <2>3. n[1] # e /\ n[1] \in Events
    BY <1>0, <2>1, <2>2 DEF OnItsWay, Delivery
  <2> QED BY <1>5, <2>2, <2>3 DEF OnItsWay, Current
<1> QED BY <1>6, <1>7, <1>9, <1>10, <1>11, <1>12 DEF IInv

LEMMA AddJobStep ==
  ASSUME IInv, NEW e \in Events, AddJob(e)
  PROVE  IInv'
<1>1. PICK stage \in {"loop"} : GoTo(e, stage)
  BY DEF AddJob
<1>2. /\ enqueuer[e].stage = "add" /\ JobAdded(e)
      /\ UNCHANGED <<hook, rows, born, worker, dropped, revived, posts, received>>
      /\ UNCHANGED upsets
  BY DEF AddJob, AtStage, dbVars, postVars
<1>3. UpsetsGrow
  BY <1>2, AtEnqueuer
<1> QED BY <1>1, <1>2, <1>3, JobAddedStep

LEMMA EnqueueFailsStep ==
  ASSUME IInv, NEW e \in Events, EnqueueFails(e)
  PROVE  IInv'
<1>1. PICK stage \in {"failed", "unpruned"}, none \in SUBSET Delivery :
        /\ stage = IF enqueuer[e].stage \in {"find", "delete"} THEN "unpruned" ELSE "failed"
        /\ none = {}
  OBVIOUS
<1>2. /\ enqueuer' = [enqueuer EXCEPT ![e].stage = stage, ![e].stale = none]
      /\ GoTo(e, stage)
      /\ UNCHANGED <<hook, rows, born, worker, dropped, revived, posts, received>>
      /\ UNCHANGED jobs \/ (enqueuer[e].stage = "add" /\ JobAdded(e))
      /\ \/ enqueuer[e].stage = "loop" /\ \E w \in enqueuer[e].todo : Upset(<<e, w>>)
         \/ enqueuer[e].stage \in {"insert", "find", "delete", "add"} /\ Upset(Current(e))
  BY <1>1 DEF EnqueueFails, GoTo, AtStage, dbVars, postVars
<1>3. PICK d \in Delivery :
        /\ Upset(d)
        /\ enqueuer[e].stage \in {"insert", "find", "delete", "add"} => d = Current(e)
  BY <1>2, AtEnqueuer
<1>4. /\ UpsetsGrow /\ enqueuer[e].stage # "idle"
      /\ enqueuer[e].stage \in {"find", "delete", "add"} => upsets'[Current(e)] # 0
  BY <1>2, <1>3, UpsetAt
<1>5. CASE enqueuer[e].stage = "add" /\ JobAdded(e)
  BY <1>1, <1>2, <1>4, <1>5, JobAddedStep
<1>6. CASE UNCHANGED jobs
  <2>1. rows' \in [Delivery -> Statuses \union {"none"}] /\ dropped' \subseteq Delivery
    BY <1>2, AtEnqueuer
  <2> QED BY <1>1, <1>2, <1>4, <1>6, <2>1, GoStep
<1> QED BY <1>2, <1>5, <1>6

-----------------------------------------------------------------------------
(* The theorems.                                                           *)

LEMMA Initially == Init => IInv
<1> SUFFICES ASSUME Init PROVE IInv
  OBVIOUS
<1> USE WebhookAssumption DEF Init
<1>1. TypeOK
  <2>1. 0 \in 0..TotalAttempts /\ 0 \in 0..MaxStalled
    BY DEF TotalAttempts
  <2>2. \A v \in Workers : Idle \in WorkerState
    BY <2>1 DEF Idle, WorkerState, Statuses
  <2>3. <<>> \in Seq(Delivery)
    OBVIOUS
  <2>4. enqueuer \in [Events -> EnqueuerState]
    BY DEF EnqueuerState
  <2>5. jobs \in [Delivery -> Job]
    BY <2>1 DEF Job
  <2> QED BY <2>1, <2>2, <2>3, <2>4, <2>5 DEF TypeOK
<1>2. Enqueuing
  BY DEF Enqueuing
<1>3. \A v \in Workers : WorkerOK(v) /\ QuietWorker(v)
  BY DEF WorkerOK, QuietWorker, Idle, PostStages
<1>4. ASSUME NEW d \in Delivery
      PROVE  JobOK(d) /\ TruthOK(d) /\ PostsOK(d) /\ AcceptedOK(d) /\ QuietJob(d)
  <2>1. JobOK(d) /\ TruthOK(d) /\ QuietJob(d)
    BY DEF JobOK, Recorded, Unfinished, TruthOK, QuietJob, Over, TotalAttempts
  <2>2. Pending(d) = {}
    BY DEF Pending, WillPost, Idle
  <2>3. Cardinality(Pending(d)) = 0
    BY <2>2, FS_EmptySet
  <2>4. PostsOK(d)
    BY <2>3 DEF PostsOK, Begun
  <2>5. AcceptedOK(d)
    BY <2>3 DEF AcceptedOK, Open
  <2> QED BY <2>1, <2>4, <2>5
<1>5. RowsGetJobs
  BY DEF RowsGetJobs
<1> QED BY <1>1, <1>2, <1>3, <1>4, <1>5 DEF IInv, DeliveryFacts, WorkerFacts, Undisturbed

LEMMA Inductive == IInv /\ [Next]_vars => IInv'
<1> SUFFICES ASSUME IInv, [Next]_vars PROVE IInv'
  OBVIOUS
<1>1. ASSUME NEW w \in Webhooks, RegisterWebhook(w) PROVE IInv'
  <2>1. PICK ds \in SUBSET Delivery : ds = {}
    OBVIOUS
  <2>2. DeleteRows(ds)
    BY <1>1, <2>1 DEF RegisterWebhook, DeleteRows, IInv, TypeOK
  <2>3. hook' \in [Webhooks -> {"new", "registered", "removed"}]
    BY <1>1 DEF RegisterWebhook, IInv, TypeOK
  <2> QED BY <1>1, <2>2, <2>3, OwnersStep DEF RegisterWebhook, postVars
<1>2. ASSUME NEW w \in Webhooks, RemoveWebhook(w) PROVE IInv'
  <2>1. PICK ds \in SUBSET Delivery : ds = RowsOf(w)
    BY DEF RowsOf
  <2>2. hook' \in [Webhooks -> {"new", "registered", "removed"}]
    BY <1>2 DEF RemoveWebhook, IInv, TypeOK
  <2> QED BY <1>2, <2>1, <2>2, OwnersStep DEF RemoveWebhook, postVars
<1>3. ASSUME CleanupExpiredDeliveries PROVE IInv'
  <2>1. PICK k \in DOMAIN born :
          /\ DeleteRows({born[i] : i \in 1..k})
          /\ UNCHANGED <<hook, born, enqueuer, jobs, worker, upsets, revived>>
          /\ UNCHANGED postVars
    BY <1>3 DEF CleanupExpiredDeliveries
  <2>2. \A i \in 1..k : born[i] \in Delivery
    BY DEF IInv, TypeOK
  <2>3. PICK ds \in SUBSET Delivery : ds = {born[i] : i \in 1..k}
    BY <2>2
  <2>4. hook' \in [Webhooks -> {"new", "registered", "removed"}]
    BY <2>1 DEF IInv, TypeOK
  <2> QED BY <2>1, <2>3, <2>4, OwnersStep DEF postVars
<1>4. ASSUME NEW e \in Events, EnqueueEvent(e) \/ Proceed(e) \/ EnqueueFails(e) PROVE IInv'
  BY <1>4, EnqueueEventStep, BeginSaveStep, SaveDeliveryStep, PruneFindStep, PruneDeleteStep,
     AddJobStep, EnqueueFailsStep DEF Proceed
<1>5. ASSUME NEW v \in Workers, Work(v) \/ StatementFails(v) \/ Die(v) PROVE IInv'
  BY <1>5, FindStep, PostStep, SelectStep, UpdateStep, InsertStep, ReportStep,
     StatementFailsStep, DieStep DEF Work
<1>6. ASSUME NEW v \in Workers, NEW d \in Delivery, Take(v, d) PROVE IInv'
  BY <1>6, TakeStep
<1>7. ASSUME NEW d \in Delivery, StallDead(d) \/ StallAlive(d) PROVE IInv'
  BY <1>7, StallStep
<1>8. CASE UNCHANGED vars
  BY <1>8 DEF vars, IInv, TypeOK, Enqueuing, Current, Recorded, DeliveryFacts, JobOK, Unfinished,
              TruthOK, PostsOK, Pending, WillPost, Begun, AcceptedOK, Open, PostStages,
              WorkerFacts, WorkerOK, Owns, Undisturbed, QuietWorker, QuietJob, Over,
              RowsGetJobs, OnItsWay
<1> QED BY <1>1, <1>2, <1>3, <1>4, <1>5, <1>6, <1>7, <1>8 DEF Next

\* Everything the proofs know of deliveries, jobs and workers stays true.
THEOREM InductiveInvariant == Spec => []IInv
  BY Initially, Inductive, PTL DEF Spec

\* Rows, jobs and workers keep their types; in particular no attempt is counted beyond
\* WEBHOOK_MAX_RETRIES + 1.
THEOREM TypeCorrect == Spec => []TypeOK
  BY InductiveInvariant, PTL DEF IInv

\* A job ends as completed only after the endpoint accepted the delivery, or when its row
\* was deleted under it.
THEOREM NothingLostInSilence == Spec => []CompletedWasAccepted
<1>1. IInv => CompletedWasAccepted
  BY DEF IInv, DeliveryFacts, JobOK, CompletedWasAccepted
<1> QED BY <1>1, InductiveInvariant, PTL

\* A success was accepted, and what is given up was posted in every attempt that no
\* failure cut short.
THEOREM TruthfulRows == Spec => []RowsTellTheTruth
<1>1. IInv => RowsTellTheTruth
  BY DEF IInv, DeliveryFacts, TruthOK, RowsTellTheTruth
<1> QED BY <1>1, InductiveInvariant, PTL

\* An endpoint gets at most one copy for each attempt and stall, and accepts one more copy
\* than there are failures only if the row was deleted under a worker.
THEOREM BoundedCopies == Spec => []CopiesBounded
<1>1. IInv => CopiesBounded
  <2> SUFFICES ASSUME IInv, NEW d \in Delivery
               PROVE  /\ posts[d] <= TotalAttempts + jobs[d].stalls
                      /\ d \notin dropped => received[d] <= 1 + upsets[d]
    BY DEF CopiesBounded
  <2>1. /\ JobOK(d) /\ PostsOK(d) /\ AcceptedOK(d) /\ jobs[d] \in Job
        /\ posts[d] \in Nat /\ received[d] \in Nat /\ upsets[d] \in Nat
    BY WebhookAssumption DEF IInv, TypeOK, DeliveryFacts
  <2>2. Cardinality(Pending(d)) \in Nat
    BY PendingFinite
  <2>3. Begun(d) <= TotalAttempts + jobs[d].stalls /\ Begun(d) \in Nat
    BY <2>1, WebhookAssumption DEF Begun, JobOK, Unfinished, Job, TotalAttempts
  <2>4. jobs[d].stalls \in Nat /\ TotalAttempts \in Nat
    BY <2>1, WebhookAssumption DEF Job, TotalAttempts
  <2>5. posts[d] <= TotalAttempts + jobs[d].stalls
    BY <2>1, <2>2, <2>3, <2>4 DEF PostsOK
  <2>6. d \notin dropped => received[d] <= 1 + upsets[d]
    BY <2>1, <2>2 DEF AcceptedOK
  <2> QED BY <2>5, <2>6
<1> QED BY <1>1, InductiveInvariant, PTL

\* Whatever happens to other deliveries, a row at which nothing went wrong is on its way
\* to a job or has one that is not over, unless it has its final status.
THEOREM PromisesAreKept == Spec => []NoBrokenPromise
<1>1. IInv => NoBrokenPromise
  <2> SUFFICES ASSUME IInv, NEW d \in Delivery, upsets[d] = 0,
                      rows[d] \notin {"none", "success", "failed"}
               PROVE  \/ jobs[d].state \in {"waiting", "active"}
                      \/ jobs[d].state = "none" /\ OnItsWay(d)
    BY DEF NoBrokenPromise, OnItsWay
  <2>1. QuietJob(d) /\ (jobs[d].state = "none" => OnItsWay(d))
    BY DEF IInv, Undisturbed, RowsGetJobs
  <2>2. jobs[d].state \in {"none", "waiting", "active", "completed", "failed"}
    BY DEF IInv, TypeOK, Job
  <2> QED BY <2>1, <2>2 DEF QuietJob, Over
<1> QED BY <1>1, InductiveInvariant, PTL
=============================================================================
