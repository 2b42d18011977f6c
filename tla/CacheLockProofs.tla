-------------------------- MODULE CacheLockProofs --------------------------
(***************************************************************************)
(* Proofs about CacheLock, for any calls, attempts, failures and deletions.*)
(* Mutual exclusion is an argument on the calls that lost the key within   *)
(* their lease: each of them was deprived of it by a deletion of its own.  *)
(***************************************************************************)
EXTENDS CacheLock, FiniteSetTheorems, TLAPS

\* The calls whose key is gone although their lease is running.
Ousted == {c \in Calls : stage[c] \in {"verify", "held"} /\ lease[c] = "running" /\ lock # c}
OustedBounded == Cardinality(Ousted) <= removals

\* The key never outlives its lease.
LeaseRuns == \A c \in Calls : lock = c => lease[c] = "running"

\* The key is not there for a call that never tried or has released it; a call that has
\* not noticed that it took the lock had a failing command.
Unnoticed ==
  \A c \in Calls :
    /\ stage[c] \in {"idle", "exists", "released"} => lock # c
    /\ stage[c] \in {"eval", "sleep", "refused"} /\ lock = c => upsets[c] > 0

\* A call that goes on trying has an attempt left.
AttemptsLeft ==
  \A c \in Calls : stage[c] \in {"idle", "eval", "verify", "sleep"} => left[c] > 0

\* Why a call may find that its key is gone.
Reason(c) == lease[c] = "over" \/ removals > 0 \/ upsets[c] > 0
Reasons ==
  \A c \in Calls :
    /\ stage[c] \in {"exists", "kept"} => Reason(c)
    /\ stage[c] \in {"verify", "held", "release"} => lock = c \/ Reason(c)

IInv == TypeOK /\ OustedBounded /\ LeaseRuns /\ Unnoticed /\ AttemptsLeft /\ Reasons

-----------------------------------------------------------------------------
LEMMA OustedFinite ==
  IsFiniteSet(Ousted) /\ Cardinality(Ousted) \in Nat
  BY CacheLockAssumption, FS_Subset, FS_CardinalityType DEF Ousted

\* A step that ousts nobody.
LEMMA NobodyOusted ==
  ASSUME TypeOK, OustedBounded, removals' = removals, Ousted' \subseteq Ousted
  PROVE  OustedBounded'
<1>1. Cardinality(Ousted') <= Cardinality(Ousted)
  BY OustedFinite, FS_Subset
<1>2. Cardinality(Ousted') \in Nat
  BY OustedFinite, FS_Subset, FS_CardinalityType
<1> QED BY <1>1, <1>2, OustedFinite DEF OustedBounded, TypeOK

\* A deletion ousts at most the call that has the lock.
LEMMA OneOusted ==
  ASSUME TypeOK, OustedBounded, Removed, UNCHANGED <<lease, stage>>
  PROVE  OustedBounded'
<1>1. Ousted' \subseteq Ousted \union {lock}
  BY DEF Ousted
<1>2. /\ IsFiniteSet(Ousted \union {lock})
      /\ Cardinality(Ousted \union {lock}) <= Cardinality(Ousted) + 1
  BY OustedFinite, FS_AddElement
<1>3. Cardinality(Ousted \union {lock}) \in Nat
  BY <1>2, FS_CardinalityType
<1>4. Cardinality(Ousted') <= Cardinality(Ousted \union {lock}) /\ Cardinality(Ousted') \in Nat
  BY <1>1, <1>2, FS_Subset, FS_CardinalityType
<1> QED BY <1>2, <1>3, <1>4, OustedFinite DEF OustedBounded, Removed, TypeOK

-----------------------------------------------------------------------------
LEMMA InitInvariant == Init => IInv
<1> SUFFICES ASSUME Init PROVE IInv
  OBVIOUS
<1>1. Ousted = {}
  BY DEF Init, Ousted
<1>2. OustedBounded
  BY <1>1, FS_EmptySet DEF OustedBounded, Init
<1>3. TypeOK
  <2>1. RetryCount \in 0..RetryCount /\ 0 \in 0..MaxRemovals
    BY CacheLockAssumption
  <2>2. stage \in [Calls -> Stages]
    BY DEF Init, Stages
  <2> QED BY <2>1, <2>2 DEF Init, TypeOK
<1>4. LeaseRuns /\ Unnoticed /\ AttemptsLeft /\ Reasons
  BY CacheLockAssumption DEF Init, LeaseRuns, Unnoticed, AttemptsLeft, Reasons
<1> QED BY <1>2, <1>3, <1>4 DEF IInv

\* The steps of a call that leave the key alone.
LEMMA Waiting ==
  ASSUME IInv, NEW c \in Calls,
         Acquire(c) \/ EvalTaken(c) \/ Verify(c) \/ VerifyFails(c) \/ Retry(c) \/ Release(c)
           \/ Exists(c) \/ ExistsFails(c)
  PROVE  IInv'
<1> USE DEF GoTo, Upset, Acquire, EvalTaken, Verify, VerifyFails, Retry, Release, Exists, ExistsFails
<1>1. TypeOK'
  <2>1. lock' \in Calls \union {Free} /\ stage' \in [Calls -> Stages]
    BY DEF IInv, TypeOK, Stages
  <2>2. left' \in [Calls -> 0..RetryCount]
    BY CacheLockAssumption DEF IInv, TypeOK, AttemptsLeft
  <2>3. upsets' \in [Calls -> Nat] /\ UNCHANGED <<lease, sweep, removals>>
    BY CacheLockAssumption DEF IInv, TypeOK
  <2> QED BY <2>1, <2>2, <2>3 DEF IInv, TypeOK
<1>2. Ousted' \subseteq Ousted
  BY DEF Ousted, IInv, TypeOK
<1>3. OustedBounded'
  BY <1>2, NobodyOusted DEF IInv
<1>4. LeaseRuns'
  BY DEF IInv, LeaseRuns
<1>5. Unnoticed'
  BY DEF IInv, TypeOK, Unnoticed
<1>7. AttemptsLeft'
  BY DEF IInv, TypeOK, AttemptsLeft
<1>6. Reasons'
  BY DEF IInv, TypeOK, Reasons, Reason, Unnoticed
<1> QED BY <1>1, <1>3, <1>4, <1>5, <1>6, <1>7 DEF IInv

\* The script that takes the lock, whether its reply arrives or not.
LEMMA Taking ==
  ASSUME IInv, NEW c \in Calls, EvalSet(c) \/ EvalFails(c)
  PROVE  IInv'
<1> USE DEF GoTo, Upset, Set, EvalSet, EvalFails
<1>1. TypeOK'
  BY CacheLockAssumption DEF IInv, TypeOK, Stages
<1>2. Ousted' \subseteq Ousted
  BY CacheLockAssumption DEF Ousted, IInv, TypeOK
<1>3. OustedBounded'
  BY <1>2, NobodyOusted DEF IInv
<1>4. LeaseRuns'
  BY DEF IInv, TypeOK, LeaseRuns
<1>5. Unnoticed'
  BY CacheLockAssumption DEF IInv, TypeOK, Unnoticed
<1>7. AttemptsLeft'
  BY CacheLockAssumption DEF IInv, TypeOK, AttemptsLeft
<1>6. Reasons'
  BY CacheLockAssumption DEF IInv, TypeOK, Reasons, Reason
<1> QED BY <1>1, <1>3, <1>4, <1>5, <1>6, <1>7 DEF IInv

\* The script that releases the lock, whether its reply arrives or not.
LEMMA Letting ==
  ASSUME IInv, NEW c \in Calls, ReleaseEval(c) \/ ReleaseFails(c)
  PROVE  IInv'
<1> USE DEF GoTo, Upset, Delete, ReleaseEval, ReleaseFails
<1>0. \/ UNCHANGED lock
      \/ lock = c /\ lock' = Free
  OBVIOUS
<1>s. /\ stage[c] = "release" /\ UNCHANGED <<lease, left, sweep, removals>>
      /\ \E s \in {"released", "exists", "kept"} : stage' = [stage EXCEPT ![c] = s]
  OBVIOUS
<1>1. TypeOK'
  BY CacheLockAssumption DEF IInv, TypeOK, Stages
<1>2. Ousted' \subseteq Ousted
  BY <1>0, <1>s DEF Ousted, IInv, TypeOK
<1>3. OustedBounded'
  BY <1>2, <1>s, NobodyOusted DEF IInv
<1>4. LeaseRuns'
  BY <1>0, <1>s, CacheLockAssumption DEF IInv, LeaseRuns
<1>5. Unnoticed'
  BY CacheLockAssumption DEF IInv, TypeOK, Unnoticed
<1>7. AttemptsLeft'
  BY CacheLockAssumption DEF IInv, TypeOK, AttemptsLeft
<1>6. Reasons'
  BY CacheLockAssumption DEF IInv, TypeOK, Reasons, Reason
<1> QED BY <1>1, <1>3, <1>4, <1>5, <1>6, <1>7 DEF IInv

\* The end of a lease.
LEMMA Lapsing ==
  ASSUME IInv, NEW c \in Calls, Lapse(c)
  PROVE  IInv'
<1> USE DEF Lapse
<1>1. TypeOK'
  BY DEF IInv, TypeOK
<1>2. Ousted' \subseteq Ousted
  BY CacheLockAssumption DEF Ousted, IInv, TypeOK
<1>3. OustedBounded'
  BY <1>2, NobodyOusted DEF IInv
<1>4. LeaseRuns'
  BY CacheLockAssumption DEF IInv, TypeOK, LeaseRuns
<1>5. Unnoticed'
  BY CacheLockAssumption DEF IInv, TypeOK, Unnoticed
<1>7. AttemptsLeft'
  BY CacheLockAssumption DEF IInv, TypeOK, AttemptsLeft
<1>6. Reasons'
  BY CacheLockAssumption DEF IInv, TypeOK, Reasons, Reason
<1> QED BY <1>1, <1>3, <1>4, <1>5, <1>6, <1>7 DEF IInv

\* The deletion of the key by others, and their scan.
LEMMA Removing ==
  ASSUME IInv, Invalidate \/ Scan \/ SweepDelete
  PROVE  IInv'
<1>1. CASE Removed /\ UNCHANGED <<lease, stage, left, upsets>> /\ sweep' \in BOOLEAN
  <2>1. TypeOK'
    BY <1>1, CacheLockAssumption DEF IInv, TypeOK, Removed
  <2>2. OustedBounded'
    BY <1>1, OneOusted DEF IInv
  <2>3. LeaseRuns' /\ Unnoticed' /\ AttemptsLeft' /\ Reasons'
    BY <1>1, CacheLockAssumption
    DEF IInv, TypeOK, Removed, LeaseRuns, Unnoticed, AttemptsLeft, Reasons, Reason
  <2> QED BY <2>1, <2>2, <2>3 DEF IInv
<1>2. CASE UNCHANGED <<lock, lease, stage, left, upsets, removals>> /\ sweep' \in BOOLEAN
  <2>1. OustedBounded'
    BY <1>2 DEF IInv, OustedBounded, Ousted
  <2> QED BY <1>2, <2>1 DEF IInv, TypeOK, LeaseRuns, Unnoticed, AttemptsLeft, Reasons, Reason
<1> QED BY <1>1, <1>2 DEF Invalidate, Scan, SweepDelete, IInv, TypeOK

LEMMA Stuttering == IInv /\ UNCHANGED vars => IInv'
  BY DEF IInv, vars, TypeOK, OustedBounded, Ousted, LeaseRuns, Unnoticed, AttemptsLeft, Reasons, Reason

\* The inductive invariant: who has lost the key, and why.
THEOREM InductiveInvariant == Spec => []IInv
<1>1. IInv /\ [Next]_vars => IInv'
  BY Waiting, Taking, Letting, Lapsing, Removing, Stuttering DEF Next, Acquiring, Releasing
<1> QED BY InitInvariant, <1>1, PTL DEF Spec

\* The lock's state keeps its type: in particular a call makes no more than RetryCount
\* attempts.
THEOREM TypeCorrect == Spec => []TypeOK
<1>1. IInv => TypeOK
  BY DEF IInv
<1> QED BY <1>1, InductiveInvariant, PTL

\* Mutual exclusion within the lease: whatever fails and however late a lock is released,
\* each deletion by others lets at most one more caller in.
THEOREM MutualExclusion == Spec => []HoldersBounded
<1>1. IInv => HoldersBounded
  <2> SUFFICES ASSUME IInv PROVE HoldersBounded
    OBVIOUS
  <2>1. Holders \subseteq Ousted \union {lock}
    BY DEF Holders, Ousted
  <2>2. /\ IsFiniteSet(Ousted \union {lock})
        /\ Cardinality(Ousted \union {lock}) <= Cardinality(Ousted) + 1
    BY OustedFinite, FS_AddElement
  <2>3. Cardinality(Ousted \union {lock}) \in Nat
    BY <2>2, FS_CardinalityType
  <2>4. Cardinality(Holders) <= Cardinality(Ousted \union {lock}) /\ Cardinality(Holders) \in Nat
    BY <2>1, <2>2, FS_Subset, FS_CardinalityType
  <2> QED BY <2>2, <2>3, <2>4, OustedFinite DEF HoldersBounded, IInv, OustedBounded, TypeOK
<1> QED BY <1>1, InductiveInvariant, PTL

\* A late or repeated releaseLock takes nothing from the next holder: without deletions by
\* others, whoever is within its lease still has the key.
LockIsKept == removals = 0 => \A c \in Holders : lock = c

\* No late or repeated release takes the key away.
THEOREM HolderKeepsLock == Spec => []LockIsKept
<1>1. IInv => LockIsKept
  <2> SUFFICES ASSUME IInv, removals = 0, NEW c \in Holders, lock # c PROVE FALSE
    BY DEF LockIsKept
  <2>1. c \in Ousted
    BY DEF Holders, Ousted
  <2>2. Cardinality(Ousted) = 0
    BY OustedFinite DEF IInv, OustedBounded
  <2> QED BY <2>1, <2>2, OustedFinite, FS_EmptySet
<1> QED BY <1>1, InductiveInvariant, PTL

\* What is reported as released does not block the next caller.
THEOREM ReleasesAreTrue == Spec => []ReleasedIsGone
<1>1. IInv => ReleasedIsGone
  BY DEF IInv, Unnoticed, ReleasedIsGone
<1> QED BY <1>1, InductiveInvariant, PTL

\* releaseLock answers false only with a reason: the lease was over, others deleted the
\* key, or a command of this call failed.
KeptForAReason ==
  \A c \in Calls :
    stage[c] = "kept" => lease[c] = "over" \/ removals > 0 \/ upsets[c] > 0

\* releaseLock answers false only after a lapse, a deletion by others or a failure at
\* the same call.
THEOREM RefusalsHaveReasons == Spec => []KeptForAReason
<1>1. IInv => KeptForAReason
  BY DEF IInv, Reasons, Reason, KeptForAReason
<1> QED BY <1>1, InductiveInvariant, PTL

\* A refused caller has left its token only by a failing command of its own, and within
\* a lease.
THEOREM NoLitter == Spec => []RefusedBlocksNobody
<1>1. IInv => RefusedBlocksNobody
  BY DEF IInv, Unnoticed, LeaseRuns, RefusedBlocksNobody
<1> QED BY <1>1, InductiveInvariant, PTL
=============================================================================
