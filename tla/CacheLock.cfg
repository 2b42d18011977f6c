SPECIFICATION Spec
CONSTANTS
  Calls = {a, b, c}
  RetryCount = 2
  MaxUpsets = 1
  MaxRemovals = 1
INVARIANTS
  TypeOK
  HoldersBounded
  ReleasedIsGone
  RefusedBlocksNobody
CHECK_DEADLOCK FALSE
