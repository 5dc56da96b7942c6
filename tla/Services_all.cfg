SPECIFICATION ServicesSpec
CONSTANTS
  None = None  MaxLogins = 3
  \* Totals that no duration divides, and durations on both sides of the ten steps'
  \* rounding; the clock goes past the end of every stream.
  Totals = {3, 7, 10}
  Durations = {2, 3, 5}
  Curves = {"linear", "cliff", "exponential", "steps"}
  MaxElapsed = 6
  \* Two requests at once, for two participants or for the same one; as many codes as
  \* participants, so that a second one may have to try again.
  QuestRequests = {r1, r2}
  Emails = {ann, bob}
  Codes = {x1, x2}
  Points <- MCPoints
  Retries = 1  MaxCount = 2
  \* Two payers, each of whom may pay twice, before and after the link expires.
  Payers = {p1, p2}
  Expiry = {1}
  LinkMaxTime = 2  MaxPaid = 2
  \* Three requests, handled one at a time.
  StreamRequests = {w1, w2, w3}
  SerialRoutes = {"get", "withdraw", "report", "cancel"}
  SerialFaults = {"timeout", "drop", "crash"}
  ReliableRoutes = {"get", "withdraw", "cancel"}
  Total = 4  Duration = 2
  Curve <- MCCurve
  Starts = {1}
  RequestedAmounts = {0, 2}
  Reserve = 1  FundingExtra = 4  Fee = 1  MaxTime = 2
  NoHash = NoHash  ClientHash = ClientHash
  \* Two tabs, and a balance for two streams at most.
  Streams = {x, y}
  Deposits = {3, 4}
  Tabs = 2  Balance = 12  DepositExtra = 1  Buffer = 2
  \* Two keys, for a user with three accounts who may use one of them twice.
  OAuthAccounts = {g1, g2, g3}
  Wallets = {k1, k2}
SYMMETRY Symmetry
INVARIANTS ServicesTypeOK CurvesFitDeposit PointsEarned SessionOfOneLogin RegisteredWhole
  RecordedWithinStreamed BooksAgree RowsBacked AnyTwoRecover
PROPERTIES NeverShrinks SettledOnce PromiseKept
CHECK_DEADLOCK FALSE
