---------------------------- MODULE EventDelivery ----------------------------
(***************************************************************************)
(* What the event bus promises to whoever publishes on it, with no queue,  *)
(* retry counter, timer or consumer in sight: an event the broker accepted *)
(* is processed at least once or ends in the dead letter queue (possibly   *)
(* both), and only then does the bus forget it; a forgotten event is never *)
(* processed again.  EventBus is shown to implement this module.           *)
(***************************************************************************)
CONSTANT Events

VARIABLES
  phase,      \* phase[e]: "unsent", "dropped", "accepted" or "retired"
  processed,  \* the events some handler invocation completed
  dead        \* the events with a copy in the dead letter queue

vars == <<phase, processed, dead>>

Init ==
  /\ phase = [e \in Events |-> "unsent"]
  /\ processed = {}
  /\ dead = {}

\* The broker confirms the publication and some queue is bound to the event type.
Accept(e) ==
  /\ phase[e] = "unsent"
  /\ phase' = [phase EXCEPT ![e] = "accepted"]
  /\ UNCHANGED <<processed, dead>>

\* The broker confirms the publication and no queue is bound: nobody will see it.
Drop(e) ==
  /\ phase[e] = "unsent"
  /\ phase' = [phase EXCEPT ![e] = "dropped"]
  /\ UNCHANGED <<processed, dead>>

Process(e) ==
  /\ phase[e] = "accepted"
  /\ processed' = processed \union {e}
  /\ UNCHANGED <<phase, dead>>

DeadLetter(e) ==
  /\ phase[e] = "accepted"
  /\ dead' = dead \union {e}
  /\ UNCHANGED <<phase, processed>>

\* The bus forgets the events of a set: each has been processed or dead-lettered.
RetireAll(S) ==
  /\ S # {}
  /\ \A e \in S : phase[e] = "accepted" /\ e \in processed \union dead
  /\ phase' = [e \in Events |-> IF e \in S THEN "retired" ELSE phase[e]]
  /\ UNCHANGED <<processed, dead>>

\* The first outcome of an event, and the step that forgets it.
Settle(e) == e \notin processed \union dead /\ (Process(e) \/ DeadLetter(e))
Retire(e) == \E S \in SUBSET Events : e \in S /\ RetireAll(S)

Next ==
  \/ \E e \in Events : Accept(e) \/ Drop(e) \/ Process(e) \/ DeadLetter(e)
  \/ \E S \in SUBSET Events : RetireAll(S)

Fairness == \A e \in Events : WF_vars(Settle(e)) /\ WF_vars(Retire(e))

Spec == Init /\ [][Next]_vars /\ Fairness
=============================================================================
