SPECIFICATION Spec
SYMMETRY Symmetry
CONSTANTS
  gold = gold
  silver = silver
  ContractList <- MCContractList
  Histories <- MCHistories
  Ticks = {t1, t2}
  PageLimit = 2
  MaxUpsets = 1
INVARIANTS
  TypeOK
  HandledOnce
  ProcessedWasHandled
  PendingIsNoticed
  CursorLeavesNothingBehind
CHECK_DEADLOCK FALSE
