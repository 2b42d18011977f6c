----------------------------- MODULE CacheLock -----------------------------
(***************************************************************************)
(* The lock of the cache service: a key of Redis that holds the token of   *)
(* the call that took it and expires with its lease.                       *)
(*                                                                         *)
(* acquireLock tries to set the key, reads it back and tries again after a *)
(* pause; releaseLock deletes it if it still holds the token.  The key     *)
(* lives in a store shared with the cache: it may be evicted, or deleted   *)
(* by an invalidation.  Calls are cut at each command of Redis, which is   *)
(* external, as is what the holder of a lock does with it.                 *)
(***************************************************************************)
EXTENDS Integers, FiniteSets, Functions

CONSTANTS
  Calls,        \* calls of acquireLock for one resource; each makes a token of its own
  RetryCount,   \* how often a call tries
  MaxUpsets,    \* bound of the model: how many commands may fail
  MaxRemovals   \* bound of the model: how often the key is deleted by others

Free == "free"

ASSUME CacheLockAssumption ==
  /\ Free \notin Calls /\ IsFiniteSet(Calls)
  /\ RetryCount \in Nat \ {0} /\ MaxUpsets \in Nat /\ MaxRemovals \in Nat

VARIABLES
  lock,      \* the key: the call whose token it holds, or Free
  lease,     \* the time the key was last set for, for each call
  stage,     \* what each call awaits
  left,      \* how many attempts it has left
  sweep,     \* invalidatePattern has found the key and not yet deleted it
  upsets,    \* history: how many commands of each call failed
  removals   \* history: how often others deleted a lock

vars == <<lock, lease, stage, left, sweep, upsets, removals>>

Stages ==
  {"idle", "eval", "verify", "sleep", "held", "refused",   \* acquireLock
   "release", "exists", "released", "kept"}                \* releaseLock

TypeOK ==
  /\ lock \in Calls \union {Free}
  /\ lease \in [Calls -> {"none", "running", "over"}]
  /\ stage \in [Calls -> Stages]
  /\ left \in [Calls -> 0..RetryCount]
  /\ sweep \in BOOLEAN
  /\ upsets \in [Calls -> Nat]
  /\ removals \in 0..MaxRemovals

Init ==
  /\ lock = Free
  /\ lease = [c \in Calls |-> "none"]
  /\ stage = [c \in Calls |-> "idle"]
  /\ left = [c \in Calls |-> RetryCount]
  /\ sweep = FALSE
  /\ upsets = [c \in Calls |-> 0] /\ removals = 0

GoTo(c, s) == stage' = [stage EXCEPT ![c] = s]
Upset(c) == SumFunction(upsets) < MaxUpsets /\ upsets' = [upsets EXCEPT ![c] = @ + 1]

-----------------------------------------------------------------------------
(* acquireLock.                                                            *)

Acquire(c) ==
  /\ stage[c] = "idle"
  /\ GoTo(c, "eval")
  /\ UNCHANGED <<lock, lease, left, sweep, upsets, removals>>

\* SET key token PX ttl NX.
Set(c) == lock = Free /\ lock' = c /\ lease' = [lease EXCEPT ![c] = "running"]

\* Slip: the reply of a script that took the lock is not understood.
EvalSetUnnoticed(c) ==
  /\ stage[c] = "eval"
  /\ Set(c)
  /\ GoTo(c, "sleep")
  /\ UNCHANGED <<left, sweep, upsets, removals>>

\* The script answers 1.
EvalSet(c) ==
  /\ stage[c] = "eval"
  /\ Set(c)
  /\ GoTo(c, "verify")
  /\ UNCHANGED <<left, sweep, upsets, removals>>

\* The key is set, if by an earlier attempt of this call.
EvalTaken(c) ==
  /\ stage[c] = "eval" /\ lock # Free
  /\ GoTo(c, "sleep")
  /\ UNCHANGED <<lock, lease, left, sweep, upsets, removals>>

\* The connection fails before the script runs, or after: the error is caught, or the
\* client sends the script again, which then finds the key set.
EvalFails(c) ==
  /\ stage[c] = "eval"
  /\ Upset(c)
  /\ Set(c) \/ UNCHANGED <<lock, lease>>
  /\ GoTo(c, "sleep")
  /\ UNCHANGED <<left, sweep, removals>>

\* GET, repeated for 100 ms: a key that is gone does not come back meanwhile.
Verify(c) ==
  /\ stage[c] = "verify"
  /\ GoTo(c, IF lock = c THEN "held" ELSE "sleep")
  /\ UNCHANGED <<lock, lease, left, sweep, upsets, removals>>

\* GET fails, or the 100 ms are over before the first one is sent.
VerifyFails(c) ==
  /\ stage[c] = "verify"
  /\ Upset(c)
  /\ GoTo(c, "sleep")
  /\ UNCHANGED <<lock, lease, left, sweep, removals>>

\* Slip: one attempt too many.
RetryOnceMore(c) ==
  /\ stage[c] = "sleep"
  /\ left' = [left EXCEPT ![c] = @ - 1]
  /\ GoTo(c, IF left[c] >= 1 THEN "eval" ELSE "refused")
  /\ UNCHANGED <<lock, lease, sweep, upsets, removals>>

\* After the pause: the next attempt, or null.
Retry(c) ==
  /\ stage[c] = "sleep"
  /\ left' = [left EXCEPT ![c] = @ - 1]
  /\ GoTo(c, IF left[c] > 1 THEN "eval" ELSE "refused")
  /\ UNCHANGED <<lock, lease, sweep, upsets, removals>>

-----------------------------------------------------------------------------
(* releaseLock.                                                            *)

\* The caller releases what it holds, also when its lease is over, and may ask again when
\* the answer was false.
Release(c) ==
  /\ stage[c] \in {"held", "kept"}
  /\ GoTo(c, "release")
  /\ UNCHANGED <<lock, lease, left, sweep, upsets, removals>>

\* Slip: deletes the key whatever it holds.
DeleteAny(c) == lock' = Free

\* The script: deletes the key if it holds the token.
Delete(c) == lock' = IF lock = c THEN Free ELSE lock

\* Whether the script deleted the key.
ReleaseEval(c) ==
  /\ stage[c] = "release"
  /\ Delete(c)
  /\ GoTo(c, IF lock = c THEN "released" ELSE "exists")
  /\ UNCHANGED <<lease, left, sweep, upsets, removals>>

\* The connection fails before the script runs, or after: the error is caught, or the
\* client sends the script again, which then finds another value or none.
ReleaseFails(c) ==
  /\ stage[c] = "release"
  /\ Upset(c)
  /\ \/ UNCHANGED lock /\ GoTo(c, "kept")
     \/ Delete(c) /\ stage' \in {[stage EXCEPT ![c] = s] : s \in {"kept", "exists"}}
  /\ UNCHANGED <<lease, left, sweep, removals>>

\* EXISTS: true when there is no key.
Exists(c) ==
  /\ stage[c] = "exists"
  /\ GoTo(c, IF lock = Free THEN "released" ELSE "kept")
  /\ UNCHANGED <<lock, lease, left, sweep, upsets, removals>>

\* Slip: takes a lock it could not look up for one that is gone.
ExistsFailsReleased(c) ==
  /\ stage[c] \in {"release", "exists"}
  /\ Upset(c)
  /\ GoTo(c, "released")
  /\ UNCHANGED <<lock, lease, left, sweep, removals>>

\* EXISTS fails: the error is caught.
ExistsFails(c) ==
  /\ stage[c] = "exists"
  /\ Upset(c)
  /\ GoTo(c, "kept")
  /\ UNCHANGED <<lock, lease, left, sweep, removals>>

-----------------------------------------------------------------------------
(* The key.                                                                *)

\* The lease ends, and with it the key it was set for.
Lapse(c) ==
  /\ lease[c] = "running"
  /\ lease' = [lease EXCEPT ![c] = "over"]
  /\ lock' = IF lock = c THEN Free ELSE lock
  /\ UNCHANGED <<stage, left, sweep, upsets, removals>>

Removed == removals < MaxRemovals /\ lock # Free /\ lock' = Free /\ removals' = removals + 1

\* invalidate is called for the key, or Redis evicts it.
Invalidate ==
  /\ Removed
  /\ UNCHANGED <<lease, stage, left, sweep, upsets>>

\* invalidatePattern: the scan finds the key ...
Scan ==
  /\ ~sweep /\ lock # Free
  /\ sweep' = TRUE
  /\ UNCHANGED <<lock, lease, stage, left, upsets, removals>>

\* ... and the pipeline deletes it, whoever holds it by then.
SweepDelete ==
  /\ sweep /\ sweep' = FALSE
  /\ Removed \/ (lock = Free /\ UNCHANGED <<lock, removals>>)
  /\ UNCHANGED <<lease, stage, left, upsets>>

-----------------------------------------------------------------------------
Acquiring(c) ==
  EvalSet(c) \/ EvalTaken(c) \/ EvalFails(c) \/ Verify(c) \/ VerifyFails(c) \/ Retry(c)
Releasing(c) == ReleaseEval(c) \/ ReleaseFails(c) \/ Exists(c) \/ ExistsFails(c)

Next ==
  \/ \E c \in Calls :
       Acquire(c) \/ Acquiring(c) \/ Release(c) \/ Releasing(c) \/ Lapse(c)
  \/ Invalidate \/ Scan \/ SweepDelete

Spec == Init /\ [][Next]_vars

-----------------------------------------------------------------------------
(* What the lock guarantees.                                               *)

\* The calls that were given the lock, did not release it and are within their lease.
Holders == {c \in Calls : stage[c] = "held" /\ lease[c] = "running"}

\* Mutual exclusion within the lease: however calls overlap, fail and release too late,
\* each deletion of the key by others lets at most one more caller in.
HoldersBounded == Cardinality(Holders) <= 1 + removals

\* What releaseLock reports as released does not block the next caller, also if the
\* lease was over or a command failed.
ReleasedIsGone == \A c \in Calls : stage[c] = "released" => lock # c

\* A caller who is refused does not block the resource with its own token, unless one of
\* its own commands failed, and then no longer than the lease.
RefusedBlocksNobody ==
  \A c \in Calls :
    stage[c] = "refused" /\ lock = c => upsets[c] > 0 /\ lease[c] = "running"
=============================================================================
