---------------------------- MODULE MCXpService ----------------------------
(* The instances of XpService that TLC checks. *)
EXTENDS XpService, TLC

\* The first levels, and the amounts of a hard puzzle, of level-config.json; a bonus
\* for the second day of a streak, which fewer days reach than the file's third.
MCThresholds == <<0, 100, 250, 450>>
MCMilestones == 2 :> 15

\* Requests are interchangeable.
Symmetry == Permutations(Requests)
=============================================================================
