SPECIFICATION Spec
CONSTANTS
  Events = {e1, e2}
  Consumers = {c1, c2}
  MaxAttempts = 3
  Prefetch = 2
  MaxCrashes = 2
INVARIANTS
  TypeOK
  EveryEventAccounted
  OneLiveCopy
  InvocationsBounded
  DuplicatesNeedCrashes
PROPERTIES
  RetriesRunToTheirEnd
  ImplementsEventDelivery
CHECK_DEADLOCK FALSE
