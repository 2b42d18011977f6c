--------------------------- MODULE MCChainEvents ---------------------------
(* The instances of ChainEvents that TLC checks. *)
EXTENDS ChainEvents, TLC

CONSTANTS gold, silver   \* two registered contracts

MCContractList == <<gold, silver>>

Of(contract, tx, ledger, registered) ==
  [contract |-> contract, tx |-> tx, ledger |-> ledger, registered |-> registered]

\* Two ledgers of one contract; two events of one transaction, and an unregistered
\* topic; two contracts in one ledger, where a cursor for all contracts goes wrong.
MCTwoContracts == {<<Of(gold, 1, 1, TRUE), Of(silver, 2, 1, TRUE)>>}
MCHistories ==
  MCTwoContracts \union
  {<<Of(gold, 1, 1, TRUE), Of(gold, 2, 2, TRUE)>>,
   <<Of(gold, 1, 1, TRUE), Of(gold, 1, 1, TRUE), Of(gold, 2, 2, FALSE)>>}

\* Two events of one page whose rest is given up; two ledgers, the first one without work.
MCEvents ==
  {<<Of(gold, 1, 1, TRUE), Of(gold, 1, 1, TRUE)>>,
   <<Of(gold, 1, 1, FALSE), Of(gold, 2, 2, TRUE)>>}

\* The ticks are interchangeable.
Symmetry == Permutations(Ticks)
=============================================================================
