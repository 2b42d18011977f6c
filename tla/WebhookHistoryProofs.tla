------------------------ MODULE WebhookHistoryProofs ------------------------
(***************************************************************************)
(* Proofs about the history of a webhook, for any events, webhooks,        *)
(* workers, limits and numbers of failures: it stays within its limit but  *)
(* for what is being pruned, was never pruned, or came back.               *)
(*                                                                         *)
(* Prunings overlap: one may delete what another has found, or find what   *)
(* another is about to delete.  The invariant therefore bounds what is     *)
(* left after any set of the prunings that have found their rows.          *)
(***************************************************************************)
EXTENDS WebhookDeliveryProofs, WellFoundedInduction

\* The deliveries that were ever given a createdAt.
Known == {born[i] : i \in DOMAIN born}

\* The events that were emitted.
Started == {e \in Events : enqueuer[e].stage # "idle"}

\* The rows of a webhook that no worker brought back.
Counted(w) == {d \in RowsOf(w) : d \notin revived}

\* The inserts whose pruning is not over: what an enqueuer s says of it.
IsUnpruned(s, w) ==
  /\ s.stage \in {"find", "delete", "unpruned"}
  /\ s.delivery[2] = w
Unpruned(w) == {e \in Events : IsUnpruned(enqueuer[e], w)}

\* The prunings that have found their rows, and the rows some of them have found.
IsDeleting(s, w) == s.stage = "delete" /\ s.delivery[2] = w
Deleting(w) == {e \in Events : IsDeleting(enqueuer[e], w)}
Condemned(X) == UNION {enqueuer[e].stale : e \in X}

Bounded(w) ==
  \A X \in SUBSET Deleting(w) :
    Cardinality(Counted(w) \ Condemned(X)) <= RetentionLimit + Cardinality(Unpruned(w) \ X)

BornInv ==
  /\ \A d \in Delivery : Recorded(d) => d \in Known
  /\ \A e \in Events : enqueuer[e].stage = "insert" => Current(e) \in Known
HistoryInv == BornInv /\ IsFiniteSet(Started) /\ \A w \in Webhooks : Bounded(w)

-----------------------------------------------------------------------------
(* What a query of the newest rows leaves.                                 *)

\* A set of indexes that is not empty has a first element.
LEMMA FirstExists ==
  ASSUME NEW n \in Nat, NEW S \in SUBSET (1 .. n), S # {}
  PROVE  \E x \in S : \A y \in S : x <= y
<1> DEFINE Below(x) == {y \in S : y < x}
           T == {Below(x) : x \in S}
<1>1. IsFiniteSet(S)
  <2>1. IsFiniteSet(1 .. n)
    BY FS_Interval
  <2> QED BY <2>1, FS_Subset
<1>2. T \subseteq FiniteSubsetsOf(S) /\ T # {}
  <2>1. ASSUME NEW x \in S PROVE Below(x) \in FiniteSubsetsOf(S)
    <3>1. Below(x) \in SUBSET S
      OBVIOUS
    <3>2. IsFiniteSet(Below(x))
      BY <1>1, <3>1, FS_Subset
    <3> QED BY <3>1, <3>2 DEF FiniteSubsetsOf
  <2> QED BY <2>1
<1>3. PICK A \in T : \A B \in T : ~ (<<B, A>> \in StrictSubsetOrdering(S))
  <2>1. IsWellFoundedOn(StrictSubsetOrdering(S), FiniteSubsetsOf(S))
    BY FS_StrictSubsetOrderingWellFounded
  <2> HIDE DEF T
  <2> QED BY <1>2, <2>1, WFMin
<1>4. PICK x \in S : A = Below(x)
  OBVIOUS
<1>5. ASSUME NEW y \in S, ~ (x <= y) PROVE FALSE
  <2>1. y < x /\ x \in Nat /\ y \in Nat
    BY <1>5
  <2>2. Below(y) \subseteq Below(x)
    <3>1. ASSUME NEW z \in S, z < y PROVE z < x
      <4>1. z \in Nat
        OBVIOUS
      <4> QED BY <2>1, <3>1, <4>1
    <3> QED BY <3>1
  <2>3. y \in Below(x) /\ y \notin Below(y)
    BY <2>1
  <2>4. <<Below(y), Below(x)>> \in StrictSubsetOrdering(S)
    BY <2>2, <2>3 DEF StrictSubsetOrdering
  <2> QED BY <2>4, <1>3, <1>4
<1> QED BY <1>5

LEMMA KnownFinite == ASSUME born \in Seq(Delivery) PROVE IsFiniteSet(Known)
<1>1. DOMAIN born = 1 .. Len(born) /\ Len(born) \in Nat /\ born \in [1 .. Len(born) -> Known]
  BY DEF Known
<1>2. IsFiniteSet(1 .. Len(born))
  BY <1>1, FS_Interval
<1>3. born \in Surjection(1 .. Len(born), Known)
  BY <1>1 DEF Surjection, Known
<1> QED BY <1>2, <1>3, FS_Surjection

LEMMA RowsFinite ==
  ASSUME IInv, BornInv, NEW w PROVE IsFiniteSet(RowsOf(w)) /\ RowsOf(w) \subseteq Known
<1>1. RowsOf(w) \subseteq Known
  BY DEF BornInv, Recorded, RowsOf
<1> QED BY <1>1, KnownFinite, FS_Subset DEF IInv, TypeOK

\* What pruneDeliveryHistory does not find is within the limit.
LEMMA Retained ==
  ASSUME IInv, BornInv, NEW w
  PROVE  Cardinality(RowsOf(w) \ Stale(w)) <= RetentionLimit
<1> DEFINE K == RowsOf(w) \ Stale(w)
<1>1. IsFiniteSet(RowsOf(w)) /\ IsFiniteSet(K) /\ K \subseteq Known
  BY RowsFinite, FS_Subset
<1>2. RetentionLimit \in Nat \ {0}
  BY WebhookAssumption
<1>3. CASE K = {}
  BY <1>2, <1>3, FS_EmptySet
<1>4. CASE K # {}
  <2> DEFINE I == {i \in DOMAIN born : born[i] \in K}
  <2>1. I \in SUBSET (1 .. Len(born)) /\ Len(born) \in Nat /\ I # {}
    BY <1>1, <1>4 DEF Known, IInv, TypeOK
  <2>2. PICK m \in I : \A i \in I : m <= i
    <3> HIDE DEF I
    <3> QED BY <2>1, FirstExists
  <2> DEFINE d == born[m]
  <2>3. d \in K /\ d[2] = w
    BY <2>2 DEF RowsOf
  <2>4. K \ {d} \subseteq Newer(d)
    <3> SUFFICES ASSUME NEW n \in K, n # d PROVE n \in Newer(d)
      OBVIOUS
    <3>1. PICK j \in DOMAIN born : born[j] = n
      BY <1>1 DEF Known
    <3>2. j \in I /\ m \in DOMAIN born /\ m <= j /\ m # j
      BY <2>2, <3>1
    <3>3. m < j
      BY <2>1, <3>2
    <3> QED BY <2>3, <3>1, <3>2, <3>3 DEF Newer, RowsOf
  <2>5. Newer(d) \subseteq RowsOf(w)
    BY <2>3 DEF Newer
  <2>6. IsFiniteSet(Newer(d)) /\ Cardinality(Newer(d)) \in Nat
    BY <1>1, <2>5, FS_Subset, FS_CardinalityType
  <2>7. ~ (Cardinality(Newer(d)) >= RetentionLimit)
    BY <2>3 DEF Stale
  <2> HIDE DEF d, K
  <2>8. Cardinality(K \ {d}) <= Cardinality(Newer(d))
    BY <2>4, <2>6, FS_Subset
  <2>9. Cardinality(K \ {d}) = Cardinality(K) - 1 /\ Cardinality(K) \in Nat
    BY <1>1, <2>3, FS_RemoveElement, FS_CardinalityType
  <2> QED BY <1>2, <2>6, <2>7, <2>8, <2>9 DEF K
<1> QED BY <1>3, <1>4

-----------------------------------------------------------------------------
(* Steps that prune nothing.                                               *)

LEMMA SetsFinite ==
  ASSUME IInv, BornInv, IsFiniteSet(Started), NEW w, NEW C, NEW X
  PROVE  /\ IsFiniteSet(Counted(w) \ C) /\ Cardinality(Counted(w) \ C) \in Nat
         /\ IsFiniteSet(Unpruned(w) \ X) /\ Cardinality(Unpruned(w) \ X) \in Nat
<1>1. Counted(w) \ C \subseteq RowsOf(w) /\ Unpruned(w) \ X \subseteq Started
  BY DEF Counted, Unpruned, Started, IsUnpruned
<1>2. IsFiniteSet(RowsOf(w))
  BY RowsFinite
<1> QED BY <1>1, <1>2, FS_Subset, FS_CardinalityType

\* A bound stays when rows disappear and prunings fail or begin.
LEMMA BoundedStays ==
  ASSUME IInv, HistoryInv, NEW w \in Webhooks, IsFiniteSet(Started'),
         Unpruned(w) \subseteq Unpruned(w)', Deleting(w)' \subseteq Deleting(w),
         \A e \in Deleting(w)' : enqueuer'[e].stale = enqueuer[e].stale,
         Counted(w)' \subseteq Counted(w)
  PROVE  Bounded(w)'
<1> SUFFICES ASSUME NEW X \in SUBSET Deleting(w)'
             PROVE  Cardinality(Counted(w)' \ Condemned(X)') <=
                      RetentionLimit + Cardinality(Unpruned(w)' \ X)
  BY DEF Bounded
<1> DEFINE C == Condemned(X)
           old == Counted(w) \ C
           new == Counted(w)' \ C
           before == Unpruned(w) \ X
           after == Unpruned(w)' \ X
<1>1. Condemned(X)' = C
  BY DEF Condemned
<1>2. Cardinality(old) <= RetentionLimit + Cardinality(before)
  BY DEF HistoryInv, Bounded
<1>3. /\ IsFiniteSet(old) /\ Cardinality(old) \in Nat
      /\ IsFiniteSet(before) /\ Cardinality(before) \in Nat
  BY SetsFinite DEF HistoryInv
<1>4. IsFiniteSet(after) /\ Cardinality(after) \in Nat
  <2>1. after \subseteq Started'
    BY DEF Unpruned, Started, IsUnpruned
  <2> QED BY <2>1, FS_Subset, FS_CardinalityType
<1>5. new \subseteq old /\ before \subseteq after
  OBVIOUS
<1> HIDE DEF old, new, before, after, C
<1>6. Cardinality(new) <= Cardinality(old) /\ Cardinality(new) \in Nat
  BY <1>3, <1>5, FS_Subset, FS_CardinalityType
<1>7. Cardinality(before) <= Cardinality(after)
  BY <1>4, <1>5, FS_Subset
<1>8. RetentionLimit \in Nat
  BY WebhookAssumption
<1>9. Cardinality(new) <= RetentionLimit + Cardinality(after)
  BY <1>2, <1>3, <1>4, <1>6, <1>7, <1>8
<1> QED BY <1>1, <1>9 DEF new, after

\* Steps of owners and workers.
LEMMA OutsideHistory ==
  ASSUME IInv, HistoryInv, UNCHANGED <<born, enqueuer>>,
         \A d \in Delivery : Recorded(d)' => Recorded(d),
         \A w \in Webhooks : Counted(w)' \subseteq Counted(w)
  PROVE  HistoryInv'
<1>1. Known' = Known /\ Started' = Started
  BY DEF Known, Started
<1>2. BornInv'
  BY <1>1 DEF HistoryInv, BornInv, Current
<1>3. ASSUME NEW w \in Webhooks PROVE Bounded(w)'
  <2>1. Unpruned(w)' = Unpruned(w) /\ Deleting(w)' = Deleting(w)
    BY DEF Unpruned, Deleting
  <2> QED BY <1>1, <2>1, BoundedStays DEF HistoryInv
<1> QED BY <1>1, <1>2, <1>3 DEF HistoryInv

\* The events that were emitted stay finitely many.
LEMMA StartedFinite ==
  ASSUME IInv, HistoryInv, NEW e \in Events, NEW n, enqueuer' = [enqueuer EXCEPT ![e] = n]
  PROVE  IsFiniteSet(Started')
<1>1. Started' \subseteq Started \union {e}
  BY DEF Started, IInv, TypeOK
<1>2. IsFiniteSet(Started \union {e})
  BY FS_AddElement DEF HistoryInv
<1> QED BY <1>1, <1>2, FS_Subset

\* A step of an enqueuer to a state n that leaves a webhook's pruning alone.
LEMMA ElsewhereBounded ==
  ASSUME IInv, HistoryInv, NEW e \in Events, NEW n, enqueuer' = [enqueuer EXCEPT ![e] = n],
         NEW w \in Webhooks, IsUnpruned(enqueuer[e], w) => IsUnpruned(n, w),
         ~IsDeleting(n, w), Counted(w)' \subseteq Counted(w)
  PROVE  Bounded(w)'
<1>1. enqueuer'[e] = n /\ \A o \in Events : o # e => enqueuer'[o] = enqueuer[o]
  BY DEF IInv, TypeOK
<1>2. Unpruned(w) \subseteq Unpruned(w)'
  <2> SUFFICES ASSUME NEW o \in Events, IsUnpruned(enqueuer[o], w)
               PROVE  IsUnpruned(enqueuer'[o], w)
    BY DEF Unpruned, IsUnpruned
  <2> QED BY <1>1
<1>3. /\ Deleting(w)' \subseteq Deleting(w)
      /\ \A o \in Deleting(w)' : enqueuer'[o].stale = enqueuer[o].stale
  <2> SUFFICES ASSUME NEW o \in Events, IsDeleting(enqueuer'[o], w)
               PROVE  IsDeleting(enqueuer[o], w) /\ enqueuer'[o] = enqueuer[o]
    BY DEF Deleting, IsDeleting
  <2> QED BY <1>1
<1> QED BY <1>2, <1>3, StartedFinite, BoundedStays

\* A step of an enqueuer to a state n, once the webhooks are bounded.
LEMMA EnqueuerHistory ==
  ASSUME IInv, HistoryInv, NEW e \in Events, NEW n, enqueuer' = [enqueuer EXCEPT ![e] = n],
         Known \subseteq Known', \A d \in Delivery : Recorded(d)' => d \in Known',
         n.stage = "insert" => n.delivery \in Known',
         \A w \in Webhooks : Bounded(w)'
  PROVE  HistoryInv'
<1>1. enqueuer'[e] = n /\ \A o \in Events : o # e => enqueuer'[o] = enqueuer[o]
  BY DEF IInv, TypeOK
<1>2. ASSUME NEW o \in Events, enqueuer'[o].stage = "insert" PROVE Current(o)' \in Known'
  BY <1>1, <1>2 DEF HistoryInv, BornInv, Current
<1>3. BornInv'
  BY <1>2 DEF BornInv
<1> QED BY <1>3, StartedFinite DEF HistoryInv

-----------------------------------------------------------------------------
(* The steps of an enqueuer.                                               *)

\* Rows are deleted, and an enqueuer does not prune or fails.
LEMMA QuietEnqueuer ==
  ASSUME IInv, HistoryInv, NEW e \in Events, NEW n, enqueuer' = [enqueuer EXCEPT ![e] = n],
         Known \subseteq Known', UNCHANGED <<rows, dropped, revived>>,
         n.stage = "insert" => n.delivery \in Known', n.stage # "delete",
         \A w \in Webhooks : IsUnpruned(enqueuer[e], w) => IsUnpruned(n, w)
  PROVE  HistoryInv'
<1>1. \A w \in Webhooks : Counted(w)' \subseteq Counted(w)
  BY DEF Counted, RowsOf
<1>2. \A w \in Webhooks : Bounded(w)'
  BY <1>1, ElsewhereBounded DEF IsDeleting
<1>3. \A d \in Delivery : Recorded(d)' => d \in Known'
  BY DEF HistoryInv, BornInv, Recorded
<1> QED BY <1>2, <1>3, EnqueuerHistory

LEMMA EnqueueEventHistory ==
  ASSUME IInv, HistoryInv, NEW e \in Events, EnqueueEvent(e) PROVE HistoryInv'
<1> DEFINE n == [enqueuer[e] EXCEPT !.stage = "loop",
                   !.todo = {w \in Webhooks : hook[w] = "registered" /\ e \in Subscribed[w]}]
<1>1. /\ enqueuer[e].stage = "idle" /\ enqueuer' = [enqueuer EXCEPT ![e] = n]
      /\ UNCHANGED <<rows, born, dropped, revived>>
  BY DEF EnqueueEvent, AtStage, dbVars
<1>2. n.stage = "loop"
  BY AtEnqueuer DEF EnqueuerState
<1> HIDE DEF n
<1>3. \A w \in Webhooks : ~IsUnpruned(enqueuer[e], w)
  BY <1>1 DEF IsUnpruned
<1>4. Known' = Known
  BY <1>1 DEF Known
<1> QED BY <1>1, <1>2, <1>3, <1>4, QuietEnqueuer

LEMMA BeginSaveHistory ==
  ASSUME IInv, HistoryInv, NEW e \in Events, BeginSave(e) PROVE HistoryInv'
<1>1. PICK w \in enqueuer[e].todo :
        /\ enqueuer' = [enqueuer EXCEPT ![e].stage = "insert", ![e].delivery = <<e, w>>,
                                        ![e].todo = enqueuer[e].todo \ {w}]
        /\ born' = Append(born, <<e, w>>)
  BY DEF BeginSave
<1> DEFINE n == [enqueuer[e] EXCEPT !.stage = "insert", !.delivery = <<e, w>>,
                                    !.todo = enqueuer[e].todo \ {w}]
<1>2. /\ enqueuer[e].stage = "loop" /\ enqueuer' = [enqueuer EXCEPT ![e] = n]
      /\ UNCHANGED <<rows, dropped, revived>>
  BY <1>1 DEF BeginSave, AtStage
<1>3. n.stage = "insert" /\ n.delivery = <<e, w>>
  BY AtEnqueuer DEF EnqueuerState
<1> HIDE DEF n
<1>4. Known \subseteq Known' /\ <<e, w>> \in Known'
  <2>1. born \in Seq(Delivery) /\ <<e, w>> \in Delivery
    BY <1>2, AtEnqueuer
  <2>2. /\ Len(born) \in Nat /\ DOMAIN born = 1 .. Len(born)
        /\ DOMAIN born' = 1 .. (Len(born) + 1) /\ born'[Len(born) + 1] = <<e, w>>
        /\ \A i \in 1 .. Len(born) : born'[i] = born[i]
    BY <1>1, <2>1
  <2>3. DOMAIN born \subseteq DOMAIN born' /\ Len(born) + 1 \in DOMAIN born'
    BY <2>2
  <2> QED BY <2>2, <2>3 DEF Known
<1>5. \A x \in Webhooks : ~IsUnpruned(enqueuer[e], x)
  BY <1>2 DEF IsUnpruned
<1> QED BY <1>2, <1>3, <1>4, <1>5, QuietEnqueuer

\* An enqueuer at stage s goes to another one with the same delivery and finds no rows.
LEMMA GoneTo ==
  ASSUME IInv, NEW e \in Events, NEW stage, GoTo(e, stage)
  PROVE  \E n : /\ enqueuer' = [enqueuer EXCEPT ![e] = n]
                /\ n.stage = stage /\ n.delivery = enqueuer[e].delivery
<1> DEFINE n == [enqueuer[e] EXCEPT !.stage = stage, !.stale = {}]
<1>1. enqueuer' = [enqueuer EXCEPT ![e] = n]
  BY DEF GoTo
<1>2. n.stage = stage /\ n.delivery = enqueuer[e].delivery
  BY AtEnqueuer DEF EnqueuerState
<1> QED BY <1>1, <1>2

LEMMA AddJobHistory ==
  ASSUME IInv, HistoryInv, NEW e \in Events, AddJob(e) PROVE HistoryInv'
<1>1. /\ enqueuer[e].stage = "add" /\ GoTo(e, "loop")
      /\ UNCHANGED <<rows, born, dropped, revived>>
  BY DEF AddJob, AtStage, dbVars
<1>2. PICK n : enqueuer' = [enqueuer EXCEPT ![e] = n] /\ n.stage = "loop"
  BY <1>1, GoneTo
<1>3. \A w \in Webhooks : ~IsUnpruned(enqueuer[e], w)
  BY <1>1 DEF IsUnpruned
<1>4. Known' = Known
  BY <1>1 DEF Known
<1> QED BY <1>1, <1>2, <1>3, <1>4, QuietEnqueuer

LEMMA EnqueueFailsHistory ==
  ASSUME IInv, HistoryInv, NEW e \in Events, EnqueueFails(e) PROVE HistoryInv'
<1>0. PICK stage : stage = IF enqueuer[e].stage \in {"find", "delete"} THEN "unpruned" ELSE "failed"
  OBVIOUS
<1>1. /\ enqueuer[e].stage \in {"loop", "insert", "find", "delete", "add"}
      /\ GoTo(e, stage) /\ UNCHANGED <<rows, born, dropped, revived>>
  BY <1>0 DEF EnqueueFails, AtStage, dbVars
<1>2. PICK n : /\ enqueuer' = [enqueuer EXCEPT ![e] = n] /\ n.stage = stage
               /\ n.delivery = enqueuer[e].delivery
  BY <1>1, GoneTo
<1>3. ASSUME NEW w \in Webhooks, IsUnpruned(enqueuer[e], w) PROVE IsUnpruned(n, w)
  <2>1. enqueuer[e].stage \in {"find", "delete"} /\ enqueuer[e].delivery[2] = w
    BY <1>1, <1>3 DEF IsUnpruned
  <2>2. n.stage = "unpruned"
    BY <1>0, <1>2, <2>1
  <2> QED BY <1>2, <2>1, <2>2 DEF IsUnpruned
<1>4. Known' = Known
  BY <1>1 DEF Known
<1>5. n.stage \in {"failed", "unpruned"}
  BY <1>0, <1>2
<1> QED BY <1>1, <1>2, <1>3, <1>4, <1>5, QuietEnqueuer

\* The insert of a row adds a row and a pruning that is not over.
LEMMA SaveDeliveryHistory ==
  ASSUME IInv, HistoryInv, NEW e \in Events, SaveDelivery(e) PROVE HistoryInv'
<1>0. PICK d : d = Current(e)
  OBVIOUS
<1>1. /\ enqueuer[e].stage = "insert" /\ UNCHANGED <<born, dropped, revived>>
      /\ d \in Delivery /\ d = enqueuer[e].delivery /\ d \in Known /\ Known' = Known
      /\ rows \in [Delivery -> Statuses \union {"none"}]
  BY <1>0, AtEnqueuer DEF SaveDelivery, AtStage, Current, HistoryInv, BornInv, Known
<1>2. \A w \in Webhooks : ~IsUnpruned(enqueuer[e], w)
  BY <1>1 DEF IsUnpruned
<1>3. CASE hook[d[2]] # "registered"
  <2>1. GoTo(e, "failed") /\ rows' = rows
    BY <1>0, <1>3 DEF SaveDelivery
  <2>2. PICK n : enqueuer' = [enqueuer EXCEPT ![e] = n] /\ n.stage = "failed"
    BY <2>1, GoneTo
  <2> QED BY <1>1, <1>2, <2>1, <2>2, QuietEnqueuer
<1>4. CASE hook[d[2]] = "registered"
  <2>1. GoTo(e, "find") /\ rows' = [rows EXCEPT ![d] = "pending"]
    BY <1>0, <1>4 DEF SaveDelivery
  <2>2. PICK n : /\ enqueuer' = [enqueuer EXCEPT ![e] = n] /\ n.stage = "find"
                 /\ n.delivery = d
    BY <1>1, <2>1, GoneTo
  <2>3. enqueuer'[e] = n /\ \A o \in Events : o # e => enqueuer'[o] = enqueuer[o]
    BY <2>2 DEF IInv, TypeOK
  <2>4. ASSUME NEW w \in Webhooks, w # d[2] PROVE Bounded(w)'
    <3>1. Counted(w)' \subseteq Counted(w)
      BY <1>1, <2>1, <2>4 DEF Counted, RowsOf
    <3> QED BY <1>2, <2>2, <3>1, ElsewhereBounded DEF IsDeleting
  <2>5. ASSUME NEW w \in Webhooks, w = d[2] PROVE Bounded(w)'
    <3>1. Unpruned(w)' = Unpruned(w) \union {e} /\ e \notin Unpruned(w)
      BY <1>2, <2>2, <2>3, <2>5 DEF Unpruned, IsUnpruned
    <3>2. Deleting(w)' = Deleting(w) /\ e \notin Deleting(w)
      BY <1>1, <2>2, <2>3 DEF Deleting, IsDeleting
    <3>3. Counted(w)' \subseteq Counted(w) \union {d}
      BY <1>1, <2>1 DEF Counted, RowsOf
    <3> SUFFICES ASSUME NEW X \in SUBSET Deleting(w)
                 PROVE  Cardinality(Counted(w)' \ Condemned(X)') <=
                          RetentionLimit + Cardinality(Unpruned(w)' \ X)
      BY <3>2 DEF Bounded
    <3>4. Condemned(X)' = Condemned(X)
      BY <2>3, <3>2 DEF Condemned, Deleting
    <3> DEFINE old == Counted(w) \ Condemned(X)
               new == Counted(w)' \ Condemned(X)
               before == Unpruned(w) \ X
               after == Unpruned(w)' \ X
    <3>5. Cardinality(old) <= RetentionLimit + Cardinality(before)
      BY DEF HistoryInv, Bounded
    <3>6. /\ IsFiniteSet(old) /\ Cardinality(old) \in Nat
          /\ IsFiniteSet(before) /\ Cardinality(before) \in Nat
      BY SetsFinite DEF HistoryInv
    <3>7. new \subseteq old \union {d} /\ after = before \union {e} /\ e \notin before
      BY <3>1, <3>2, <3>3
    <3> HIDE DEF old, new, before, after
    <3>8. Cardinality(after) = Cardinality(before) + 1
      BY <3>6, <3>7, FS_AddElement
    <3>9. IsFiniteSet(old \union {d}) /\ Cardinality(old \union {d}) <= Cardinality(old) + 1
      <4>1. IsFiniteSet(old)
        BY <3>6
      <4>2. /\ IsFiniteSet(old \union {d})
            /\ Cardinality(old \union {d}) =
                 IF d \in old THEN Cardinality(old) ELSE Cardinality(old) + 1
        BY <4>1, FS_AddElement
      <4> QED BY <3>6, <4>2
    <3>10. /\ Cardinality(new) <= Cardinality(old \union {d}) /\ Cardinality(new) \in Nat
           /\ Cardinality(old \union {d}) \in Nat
      BY <3>7, <3>9, FS_Subset, FS_CardinalityType
    <3>11. RetentionLimit \in Nat
      BY WebhookAssumption
    <3>12. Cardinality(new) <= RetentionLimit + Cardinality(after)
      BY <3>5, <3>6, <3>8, <3>9, <3>10, <3>11
    <3> QED BY <3>4, <3>12 DEF new, after
  <2>6. \A x \in Delivery : Recorded(x)' => x \in Known'
    BY <1>1, <2>1 DEF HistoryInv, BornInv, Recorded
  <2> QED BY <1>1, <2>2, <2>4, <2>5, <2>6, EnqueuerHistory
<1> QED BY <1>3, <1>4


\* A query bounds what its DELETE will leave.
LEMMA PruneFindHistory ==
  ASSUME IInv, HistoryInv, NEW e \in Events, PruneFind(e) PROVE HistoryInv'
<1>0. PICK d, stale : d = Current(e) /\ stale = Stale(d[2])
  OBVIOUS
<1> DEFINE n == [enqueuer[e] EXCEPT !.stage = IF stale = {} THEN "add" ELSE "delete",
                                    !.stale = stale]
<1>1. /\ enqueuer[e].stage = "find" /\ enqueuer' = [enqueuer EXCEPT ![e] = n]
      /\ UNCHANGED <<rows, born, dropped, revived>> /\ d = enqueuer[e].delivery
  BY <1>0 DEF PruneFind, AtStage, dbVars, Current
<1>2. /\ n.stage = IF stale = {} THEN "add" ELSE "delete"
      /\ n.stale = stale /\ n.delivery = d
  BY <1>1, AtEnqueuer DEF EnqueuerState
<1> HIDE DEF n
<1>3. enqueuer'[e] = n /\ \A o \in Events : o # e => enqueuer'[o] = enqueuer[o]
  BY <1>1 DEF IInv, TypeOK
<1>4. \A w : RowsOf(w)' = RowsOf(w) /\ Counted(w)' = Counted(w)
  BY <1>1 DEF Counted, RowsOf
<1>5. ASSUME NEW w \in Webhooks, w # d[2] PROVE Bounded(w)'
  <2>1. ~IsUnpruned(enqueuer[e], w) /\ ~IsDeleting(n, w)
    BY <1>1, <1>2, <1>5 DEF IsUnpruned, IsDeleting
  <2> QED BY <1>1, <1>4, <2>1, ElsewhereBounded
<1>6. ASSUME NEW w \in Webhooks, w = d[2] PROVE Bounded(w)'
  <2> SUFFICES ASSUME NEW X \in SUBSET Deleting(w)'
               PROVE  Cardinality(Counted(w)' \ Condemned(X)') <=
                        RetentionLimit + Cardinality(Unpruned(w)' \ X)
    BY DEF Bounded
  <2>1. IsFiniteSet(Unpruned(w)' \ X) /\ Cardinality(Unpruned(w)' \ X) \in Nat
    <3>1. Unpruned(w)' \ X \subseteq Started'
      BY DEF Unpruned, IsUnpruned, Started
    <3>2. IsFiniteSet(Started')
      BY <1>1, StartedFinite
    <3> QED BY <3>1, <3>2, FS_Subset, FS_CardinalityType
  <2>2. RetentionLimit \in Nat
    BY WebhookAssumption
  <2>3. CASE stale = {} \/ e \in X
    <3> DEFINE new == Counted(w)' \ Condemned(X)'
               kept == RowsOf(w) \ Stale(w)
    <3>1. new \subseteq kept
      <4>1. Counted(w)' \subseteq RowsOf(w)
        BY <1>4 DEF Counted
      <4>2. CASE stale = {}
        BY <1>0, <1>6, <4>1, <4>2
      <4>3. CASE e \in X
        <5>1. stale \subseteq Condemned(X)'
          BY <1>2, <1>3, <4>3 DEF Condemned
        <5> QED BY <1>0, <1>6, <4>1, <5>1
      <4> QED BY <2>3, <4>2, <4>3
    <3>2. Cardinality(kept) <= RetentionLimit
      BY Retained DEF HistoryInv
    <3>3. IsFiniteSet(kept)
      BY RowsFinite, FS_Subset DEF HistoryInv
    <3> HIDE DEF new, kept
    <3>4. Cardinality(new) <= Cardinality(kept) /\ Cardinality(new) \in Nat
          /\ Cardinality(kept) \in Nat
      BY <3>1, <3>3, FS_Subset, FS_CardinalityType
    <3>5. Cardinality(new) <= RetentionLimit + Cardinality(Unpruned(w)' \ X)
      BY <2>1, <2>2, <3>2, <3>4
    <3> QED BY <3>5 DEF new
  <2>4. CASE stale # {} /\ e \notin X
    <3>1. X \subseteq Deleting(w) /\ \A o \in X : enqueuer'[o] = enqueuer[o]
      BY <1>3, <2>4 DEF Deleting
    <3>2. Condemned(X)' = Condemned(X)
      BY <3>1 DEF Condemned
    <3>3. Unpruned(w)' = Unpruned(w)
      <4>1. IsUnpruned(enqueuer[e], w) /\ IsUnpruned(n, w)
        BY <1>1, <1>2, <1>6, <2>4 DEF IsUnpruned
      <4>2. \A o \in Events : IsUnpruned(enqueuer'[o], w) <=> IsUnpruned(enqueuer[o], w)
        BY <1>3, <4>1
      <4> QED BY <4>2 DEF Unpruned, IsUnpruned
    <3> QED BY <1>4, <3>1, <3>2, <3>3 DEF HistoryInv, Bounded
  <2> QED BY <2>3, <2>4
<1>7. Known' = Known /\ \A x \in Delivery : Recorded(x)' => x \in Known'
  BY <1>1 DEF Known, HistoryInv, BornInv, Recorded
<1>8. n.stage # "insert"
  BY <1>2
<1> QED BY <1>1, <1>5, <1>6, <1>7, <1>8, EnqueuerHistory

\* A DELETE leaves what was bounded before it.
LEMMA PruneDeleteHistory ==
  ASSUME IInv, HistoryInv, NEW e \in Events, PruneDelete(e) PROVE HistoryInv'
<1>0. PICK d, stale : d = Current(e) /\ stale = enqueuer[e].stale
  OBVIOUS
<1>1. /\ enqueuer[e].stage = "delete" /\ GoTo(e, "add") /\ DeleteRows(stale)
      /\ UNCHANGED <<born, revived>> /\ d = enqueuer[e].delivery
  BY <1>0 DEF PruneDelete, AtStage, Current
<1>2. PICK n : enqueuer' = [enqueuer EXCEPT ![e] = n] /\ n.stage = "add"
  BY <1>1, GoneTo
<1>3. enqueuer'[e] = n /\ \A o \in Events : o # e => enqueuer'[o] = enqueuer[o]
  BY <1>2 DEF IInv, TypeOK
<1>4. \A w : Counted(w)' = Counted(w) \ stale
  BY <1>1 DEF DeleteRows, Counted, RowsOf, IInv, TypeOK
<1>5. ASSUME NEW w \in Webhooks, w # d[2] PROVE Bounded(w)'
  <2>1. ~IsUnpruned(enqueuer[e], w) /\ ~IsDeleting(n, w)
    BY <1>1, <1>2, <1>5 DEF IsUnpruned, IsDeleting
  <2>2. Counted(w)' \subseteq Counted(w)
    BY <1>4
  <2> QED BY <1>2, <2>1, <2>2, ElsewhereBounded
<1>6. ASSUME NEW w \in Webhooks, w = d[2] PROVE Bounded(w)'
  <2> SUFFICES ASSUME NEW X \in SUBSET Deleting(w)'
               PROVE  Cardinality(Counted(w)' \ Condemned(X)') <=
                        RetentionLimit + Cardinality(Unpruned(w)' \ X)
    BY DEF Bounded
  <2> DEFINE Y == X \union {e}
  <2>1. e \in Deleting(w) /\ e \notin Deleting(w)'
    BY <1>1, <1>2, <1>3, <1>6 DEF Deleting, IsDeleting
  <2>2. X \subseteq Deleting(w) /\ \A o \in X : enqueuer'[o] = enqueuer[o]
    BY <1>3, <2>1 DEF Deleting
  <2>3. Counted(w)' \ Condemned(X)' = Counted(w) \ Condemned(Y)
    <3>1. Condemned(X)' = Condemned(X)
      BY <2>2 DEF Condemned
    <3>2. Condemned(Y) = Condemned(X) \union stale
      BY <1>0 DEF Condemned
    <3>3. Counted(w)' = Counted(w) \ stale
      BY <1>4
    <3> HIDE DEF Y
    <3> QED BY <3>1, <3>2, <3>3
  <2>4. Unpruned(w)' \ X = Unpruned(w) \ Y
    <3>1. ~IsUnpruned(n, w)
      BY <1>2 DEF IsUnpruned
    <3>2. Unpruned(w)' = {o \in Events : IsUnpruned(enqueuer'[o], w)}
      BY DEF Unpruned, IsUnpruned
    <3>3. Unpruned(w)' = Unpruned(w) \ {e}
      BY <1>3, <3>1, <3>2 DEF Unpruned
    <3> QED BY <3>3
  <2>5. Y \in SUBSET Deleting(w)
    BY <2>1, <2>2
  <2> HIDE DEF Y
  <2> QED BY <2>3, <2>4, <2>5 DEF HistoryInv, Bounded
<1>7. Known' = Known
  BY <1>1 DEF Known
<1>8. \A x \in Delivery : Recorded(x)' => x \in Known'
  BY <1>1, <1>7 DEF DeleteRows, HistoryInv, BornInv, Recorded, IInv, TypeOK
<1> QED BY <1>2, <1>5, <1>6, <1>7, <1>8, EnqueuerHistory


-----------------------------------------------------------------------------
(* The theorem.                                                            *)

\* Rows disappear, or nothing is written.
LEMMA DeletedHistory ==
  ASSUME IInv, HistoryInv, UNCHANGED <<born, enqueuer, revived>>,
         UNCHANGED <<rows, dropped>> \/ \E ds : DeleteRows(ds)
  PROVE  HistoryInv'
<1>1. /\ \A d \in Delivery : rows'[d] # "none" => rows[d] # "none"
      /\ \A d \in Delivery : Recorded(d)' => Recorded(d)
  BY DEF DeleteRows, Recorded, IInv, TypeOK
<1>2. \A w \in Webhooks : Counted(w)' \subseteq Counted(w)
  BY <1>1 DEF Counted, RowsOf
<1> QED BY <1>1, <1>2, OutsideHistory

\* A worker's save writes to a row that is there, or brings one back.
LEMMA SavedHistory ==
  ASSUME IInv, HistoryInv, NEW v \in Workers, Update(v) \/ Insert(v) PROVE HistoryInv'
<1>0. PICK d : d = worker[v].delivery
  OBVIOUS
<1>1. /\ UNCHANGED <<born, enqueuer, dropped>> /\ worker[v].stage # "idle"
      /\ worker[v].stage \in {"update", "insert"}
  BY DEF Update, Insert
<1>2. /\ d \in Delivery /\ WorkerOK(v) /\ rows \in [Delivery -> Statuses \union {"none"}]
      /\ revived \subseteq Delivery
  BY <1>0, <1>1, AtDelivery DEF IInv, TypeOK
<1>3. CASE Update(v)
  <2>1. /\ rows' = [rows EXCEPT ![d] = IF rows[d] = "none" THEN rows[d] ELSE worker[v].status]
        /\ revived' = revived
    BY <1>0, <1>3 DEF Update
  <2>2. \A x \in Delivery : rows'[x] # "none" => rows[x] # "none"
    BY <1>2, <2>1
  <2>3. \A x \in Delivery : Recorded(x)' => Recorded(x)
    BY <1>1, <2>2 DEF Recorded
  <2>4. \A w \in Webhooks : Counted(w)' \subseteq Counted(w)
    BY <2>1, <2>2 DEF Counted, RowsOf
  <2> QED BY <1>1, <2>3, <2>4, OutsideHistory
<1>4. CASE Insert(v)
  <2>1. \/ /\ rows' = [rows EXCEPT ![d] = worker[v].status]
           /\ revived' = revived \union {d}
        \/ UNCHANGED <<rows, revived>>
    BY <1>0, <1>4 DEF Insert
  <2>2. d \in dropped
    BY <1>0, <1>2, <1>4 DEF WorkerOK, Insert
  <2>3. \A x \in Delivery : rows'[x] # "none" => rows[x] # "none" \/ (x = d /\ d \in revived')
    BY <1>2, <2>1
  <2>4. \A x \in Delivery : Recorded(x)' => Recorded(x)
    BY <1>1, <2>2, <2>3 DEF Recorded
  <2>5. revived \subseteq revived'
    BY <2>1
  <2>6. \A w \in Webhooks : Counted(w)' \subseteq Counted(w)
    BY <2>3, <2>5 DEF Counted, RowsOf
  <2> QED BY <1>1, <2>4, <2>6, OutsideHistory
<1> QED BY <1>3, <1>4

LEMMA InitialHistory == Init => HistoryInv
<1> SUFFICES ASSUME Init PROVE HistoryInv
  OBVIOUS
<1>1. BornInv
  BY DEF Init, BornInv, Recorded
<1>2. Started = {} /\ \A w \in Webhooks : Counted(w) = {}
  BY DEF Init, Started, Counted, RowsOf
<1>3. ASSUME NEW w \in Webhooks, NEW X \in SUBSET Deleting(w)
      PROVE  Cardinality(Counted(w) \ Condemned(X)) <=
               RetentionLimit + Cardinality(Unpruned(w) \ X)
  <2>1. Counted(w) \ Condemned(X) = {}
    BY <1>2
  <2>2. Unpruned(w) \ X = {}
    BY <1>2 DEF Unpruned, Started, IsUnpruned
  <2>3. RetentionLimit \in Nat
    BY WebhookAssumption
  <2> QED BY <2>1, <2>2, <2>3, FS_EmptySet
<1> QED BY <1>1, <1>2, <1>3, FS_EmptySet DEF HistoryInv, Bounded

LEMMA NextHistory == IInv /\ HistoryInv /\ [Next]_vars => HistoryInv'
<1> SUFFICES ASSUME IInv, HistoryInv, [Next]_vars PROVE HistoryInv'
  OBVIOUS
<1>1. ASSUME NEW w \in Webhooks, RegisterWebhook(w) \/ RemoveWebhook(w) PROVE HistoryInv'
  BY <1>1, DeletedHistory DEF RegisterWebhook, RemoveWebhook
<1>2. CASE CleanupExpiredDeliveries
  <2>1. UNCHANGED <<born, enqueuer, revived>> /\ \E ds : DeleteRows(ds)
    BY <1>2 DEF CleanupExpiredDeliveries
  <2> QED BY <2>1, DeletedHistory
<1>3. ASSUME NEW e \in Events, EnqueueEvent(e) \/ Proceed(e) \/ EnqueueFails(e)
      PROVE  HistoryInv'
  BY <1>3, EnqueueEventHistory, BeginSaveHistory, SaveDeliveryHistory, PruneFindHistory,
     PruneDeleteHistory, AddJobHistory, EnqueueFailsHistory DEF Proceed
<1>4. ASSUME UNCHANGED <<rows, born, enqueuer, dropped, revived>> PROVE HistoryInv'
  BY <1>4, DeletedHistory
<1>5. ASSUME NEW v \in Workers, Work(v) \/ StatementFails(v) \/ Die(v) PROVE HistoryInv'
  <2>1. CASE Update(v) \/ Insert(v)
    BY <2>1, SavedHistory
  <2>2. CASE ~ (Update(v) \/ Insert(v))
    BY <1>4, <1>5, <2>2 DEF Work, Find, PostAccepted, PostRejected, PostUnheard, Select, Report,
                            StatementFails, Die, dbVars
  <2> QED BY <2>1, <2>2
<1>6. ASSUME NEW v \in Workers, NEW d \in Delivery, Take(v, d) PROVE HistoryInv'
  BY <1>4, <1>6 DEF Take, dbVars
<1>7. ASSUME NEW d \in Delivery, StallDead(d) \/ StallAlive(d) PROVE HistoryInv'
  BY <1>4, <1>7 DEF StallDead, StallAlive, dbVars
<1>8. CASE UNCHANGED vars
  BY <1>4, <1>8 DEF vars
<1> QED BY <1>1, <1>2, <1>3, <1>5, <1>6, <1>7, <1>8 DEF Next

\* However enqueueings, prunings, the cleanup and the saves of workers overlap and fail, the
\* history of a webhook exceeds its limit by no more than the inserts whose pruning is not
\* over or was given up, and the rows that workers brought back.
THEOREM HistoryStaysWithinLimit == Spec => []HistoryWithinLimit
<1>1. IInv /\ HistoryInv => HistoryWithinLimit
  <2> SUFFICES ASSUME IInv, HistoryInv, NEW w \in Webhooks
               PROVE  Cardinality(RowsOf(w)) <=
                        RetentionLimit + Cardinality(Pruning(w)) + Cardinality(GaveUpPruning(w))
                          + Cardinality({d \in revived : rows[d] # "none" /\ d[2] = w})
    BY DEF HistoryWithinLimit
  <2> DEFINE back == {d \in revived : rows[d] # "none" /\ d[2] = w}
  <2>1. Cardinality(Counted(w)) <= RetentionLimit + Cardinality(Unpruned(w))
    <3>1. PICK X \in SUBSET Deleting(w) : X = {}
      OBVIOUS
    <3>2. Condemned(X) = {}
      BY <3>1 DEF Condemned
    <3>3. Counted(w) \ Condemned(X) = Counted(w) /\ Unpruned(w) \ X = Unpruned(w)
      BY <3>1, <3>2
    <3>4. Cardinality(Counted(w) \ Condemned(X)) <= RetentionLimit + Cardinality(Unpruned(w) \ X)
      BY DEF HistoryInv, Bounded
    <3> QED BY <3>3, <3>4
  <2>2. Unpruned(w) = Pruning(w) \union GaveUpPruning(w)
    BY DEF Unpruned, IsUnpruned, Pruning, GaveUpPruning, AtStage, Current
  <2>3. RowsOf(w) = Counted(w) \union back
    BY DEF Counted, RowsOf, IInv, TypeOK
  <2>4. /\ IsFiniteSet(Counted(w)) /\ IsFiniteSet(back)
        /\ IsFiniteSet(Pruning(w)) /\ IsFiniteSet(GaveUpPruning(w))
    <3>1. IsFiniteSet(RowsOf(w)) /\ IsFiniteSet(Started)
      BY RowsFinite DEF HistoryInv
    <3>2. Counted(w) \subseteq RowsOf(w) /\ back \subseteq RowsOf(w)
      BY <2>3
    <3>3. Pruning(w) \subseteq Started /\ GaveUpPruning(w) \subseteq Started
      BY DEF Pruning, GaveUpPruning, AtStage, Started
    <3> HIDE DEF back
    <3> QED BY <3>1, <3>2, <3>3, FS_Subset
  <2> HIDE DEF back
  <2>5. /\ Cardinality(Counted(w)) \in Nat /\ Cardinality(back) \in Nat
        /\ Cardinality(Pruning(w)) \in Nat /\ Cardinality(GaveUpPruning(w)) \in Nat
    BY <2>4, FS_CardinalityType
  <2>6. Cardinality(RowsOf(w)) <= Cardinality(Counted(w)) + Cardinality(back)
    <3>1. Cardinality(Counted(w) \cap back) \in Nat
      BY <2>4, FS_Intersection, FS_CardinalityType
    <3>2. Cardinality(RowsOf(w)) =
            Cardinality(Counted(w)) + Cardinality(back) - Cardinality(Counted(w) \cap back)
      BY <2>3, <2>4, FS_Union
    <3> QED BY <2>5, <3>1, <3>2
  <2>7. /\ Cardinality(Unpruned(w)) <= Cardinality(Pruning(w)) + Cardinality(GaveUpPruning(w))
        /\ Cardinality(Unpruned(w)) \in Nat
    <3>1. Cardinality(Pruning(w) \cap GaveUpPruning(w)) \in Nat
      BY <2>4, FS_Intersection, FS_CardinalityType
    <3>2. Cardinality(Unpruned(w)) = Cardinality(Pruning(w)) + Cardinality(GaveUpPruning(w))
                                       - Cardinality(Pruning(w) \cap GaveUpPruning(w))
      BY <2>2, <2>4, FS_Union
    <3>3. IsFiniteSet(Unpruned(w))
      BY <2>2, <2>4, FS_Union
    <3>4. Cardinality(Unpruned(w)) \in Nat
      BY <3>3, FS_CardinalityType
    <3> QED BY <2>5, <3>1, <3>2, <3>4
  <2>8. RetentionLimit \in Nat /\ Cardinality(RowsOf(w)) \in Nat
    BY RowsFinite, FS_CardinalityType, WebhookAssumption DEF HistoryInv
  <2>9. Cardinality(RowsOf(w)) <= RetentionLimit + Cardinality(Pruning(w))
          + Cardinality(GaveUpPruning(w)) + Cardinality(back)
    BY <2>1, <2>5, <2>6, <2>7, <2>8
  <2> QED BY <2>9 DEF back
<1> QED BY <1>1, InitialHistory, NextHistory, InductiveInvariant, PTL DEF Spec
=============================================================================
