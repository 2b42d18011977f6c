---------------------------- MODULE MCCoCreation ----------------------------
(* The instances of CoCreation that TLC checks. *)
EXTENDS CoCreation, TLC

CONSTANTS ana, ben, eve   \* eve's address refuses ether

MCAccounts == {ana, ben, eve}
MCRefusing == {eve}
\* One creator alone; a split that leaves dust; a third creator without a share; one that
\* does not add up.
MCSplits == {<<10000>>, <<6667, 3333>>, <<5000, 5000, 0>>, <<5000, 2000>>}

\* The two accounts that accept ether are interchangeable.
Symmetry == Permutations({ana, ben})
=============================================================================
