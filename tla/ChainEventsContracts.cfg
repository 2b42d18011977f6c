SPECIFICATION Spec
CONSTANTS
  gold = gold
  silver = silver
  ContractList <- MCContractList
  Histories <- MCTwoContracts
  Ticks = {t1}
  PageLimit = 2
  MaxUpsets = 0
PROPERTY EventsSynced
CHECK_DEADLOCK FALSE
