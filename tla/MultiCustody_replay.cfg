CONSTANTS
  a = a  b = b  small = small  empty = empty
  Commitments = {a, b}
  GuardianLists <- MCGuardianLists
  Thresholds = {1}
  Data = {small, empty}
  EmptyData = empty
  Expiries = {0}
  TimelockFrom = 5
  TimelockFor = 2
  MaxInitialize = 2
  MaxNonce = 2
  MaxTime = 1
  None = None
SPECIFICATION Spec
INVARIANT ReplayProtected
CHECK_DEADLOCK FALSE
