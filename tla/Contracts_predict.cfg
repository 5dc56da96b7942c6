SPECIFICATION ContractsSpec
CONSTANTS
  None = None
  MaxLedger = 3
  \* Two keys, the wallet's identity and another one, and epochs that end inside the
  \* ledgers of the run.
  WalletKeys = {k1, k2}
  Identities = {own, other}
  WalletProofs = {p1}
  Epochs = {1, 2}
  MaxOperations = 2
  MaxGrants = 4
  p1 = p1  p2 = p2  p3 = p3  p4 = p4  s1 = s1  s2 = s2
  vk1 = vk1  vk2 = vk2  m1 = m1  m2 = m2  short = short
  Proofs = {p1, p2, p3, p4}
  Statements = {s1, s2}
  Epoch <- MCEpoch
  Vks = {vk1, vk2, short}
  ZeroPoint = {p4}
  WellFormed = {vk1, vk2}
  PairingHolds <- MCPairingHolds
  \* Two accounts, each of which may pay, be paid or take the fee, and amounts that
  \* round: a fee of 11.1 of the smallest unit at 10 percent, and one of 0.9.
  Accounts = {alice, merchant}
  Assets = {usdc, xlm}
  Amounts <- MCAmounts
  Validity = {0}
  Fees = {0, 1000, 2000}
  Funds = 150
  MaxRequests = 2
  MaxFeeUpdates = 1
  MaxSeconds = 1
  \* Two providers, and a modulus in too few chunks.
  Providers = {google, apple}
  Issuers = {iss1, iss2}
  Oracles = {o1, o2}
  Kids = {kid1, kid2}
  Moduli = {m1, m2, short}
  ChunkCount <- MCChunkCount
  \* Two identities of two issuers, and a configuration that changes twice.
  Seeds = {s1, s2}
  IssuerHashes = {google, apple}
  Services = {sv1, sv2}
  Wasms = {w1, w2}
  Admins = {alice, merchant}
  MaxFactoryUpdates = 2
  \* The multi-custody wallet.
  a = a  b = b  small = small  empty = empty
  Commitments = {a, b}
  GuardianLists <- MCGuardianLists
  Thresholds = {1, 2, 3}
  Data = {small, empty}
  EmptyData = empty
  Expiries = {0}
  TimelockFrom = 5  TimelockFor = 2
  MaxInitialize = 2  MaxNonce = 2  MaxTime = 1
INVARIANT DeployedWherePredicted
CHECK_DEADLOCK FALSE
