CONSTANTS
  r1 = r1  r2 = r2  r3 = r3
  NoHash = NoHash  ClientHash = ClientHash
  Requests = {r1, r2}
  Routes = {"withdraw"}
  Faults = {"overlap"}
  Total = 4
  Duration = 2
  Curve <- MCCurve
  Starts = {1}
  RequestedAmounts = {0, 2}
  Reserve = 1
  FundingExtra = 4
  Fee = 1
  MaxTime = 3
SPECIFICATION Spec
SYMMETRY MCSymmetry
INVARIANT OnlyVestedReceived
CHECK_DEADLOCK FALSE
