------------------------------ MODULE XpLedger ------------------------------
(***************************************************************************)
(* What a player's experience is supposed to be: a ledger.  Each source    *)
(* event is entered at most once, and the balance is the sum of the        *)
(* entries.  XpService.awardXp is meant to implement it.                   *)
(***************************************************************************)
EXTENDS Integers

CONSTANTS
  Entries,   \* the source events
  Worth(_)   \* what each of them is worth

VARIABLES
  entered,   \* the source events entered
  balance    \* the player's experience

vars == <<entered, balance>>

Init == entered = {} /\ balance = 0

Enter(e) ==
  /\ e \notin entered
  /\ entered' = entered \union {e}
  /\ balance' = balance + Worth(e)

Next == \E e \in Entries : Enter(e)

Spec == Init /\ [][Next]_vars
=============================================================================
