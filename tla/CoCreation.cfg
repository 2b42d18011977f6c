SPECIFICATION Spec
SYMMETRY Symmetry
CONSTANTS
  ana = ana
  ben = ben
  eve = eve
  Accounts <- MCAccounts
  Refusing <- MCRefusing
  Splits <- MCSplits
  Deposits = {3}
  Amounts = {2, 3}
  MaxCoCreations = 2
  MaxReceived = 3
  MaxRounds = 2
INVARIANTS
  TypeOK
  SignatureCountExact
  ReportedStatusesAgree
  PublishedUnanimously
  RoyaltiesFair
  OnlyDustStays
  EtherConserved
PROPERTIES
  PublicationIsFinal
CHECK_DEADLOCK FALSE
