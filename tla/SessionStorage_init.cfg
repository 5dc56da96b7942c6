\* One call, and one session from an earlier visit.
SPECIFICATION Spec
CONSTANTS
  Calls = {c1}
  Sessions = {s1}
  None = None
PROPERTY SessionsRecovered
CHECK_DEADLOCK FALSE
