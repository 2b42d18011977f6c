SPECIFICATION Spec
CONSTANTS
  ana = ana
  ben = ben
  eve = eve
  Accounts <- MCAccounts
  Refusing <- MCRefusing
  Splits <- MCSplits
  Deposits = {3}
  Amounts = {2, 3}
  MaxCoCreations = 1
  MaxReceived = 0
  MaxRounds = 2
INVARIANT AllCreatorsSignOff
CHECK_DEADLOCK FALSE
