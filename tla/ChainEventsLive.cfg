SPECIFICATION Spec
CONSTANTS
  gold = gold
  silver = silver
  ContractList <- MCContractList
  Histories <- MCEvents
  Ticks = {t1, t2}
  PageLimit = 2
  MaxUpsets = 1
PROPERTY EventuallySettled
CHECK_DEADLOCK FALSE
