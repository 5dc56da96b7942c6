SPECIFICATION MCSpec
CONSTANTS
  MaxLogins = 3  PopupTimeout = 2  MaxTime = 4
  None = None
  \* Two payments of two accounts, whose results are asked for once before it is given
  \* up, and two changes of the account or the network meanwhile.
  Payments = {a, b}
  Sessions = {s1, s2}
  Networks = {testnet, mainnet}
  maxAttempts = 1  MaxSwitches = 2
  \* Two resources that cost as much as the threshold or more, the one in the native asset
  \* and the other in a token, requests that are in time or too late, and time for a second
  \* call before and after the first one's timeout.
  Resources = {a, b}
  Asks <- MCAsks
  autoPayThreshold = 2  Unit = 5
  Validity <- MCValidity
  Timeout = 1  ClientMaxTime = 3  MaxCalls = 3
  \* A subject's number at two providers, whose keys change twice.
  Subjects = {u}
  Kids = {kid1, kid2}
  SALT_MASTER_KEY = masterKey
  SALT_DERIVATION_SECRET = secret
  MaxRotations = 2  MaxRestarts = 1
  \* Accounts, keys and moduli in pairs of which two programs compute a value each.
  Accounts <- MCAccounts  EphemeralKeys <- MCKeys  Moduli <- MCModuli
  BytesPerElement = 2  MaxBytes = 5  ChunkBits = 1  MaxComputed = 2
  \* Three chunks of three bits, and four bytes of two.
  CircuitBits = 3  CircuitChunks = 3  ByteBits = 2  NumberBytes = 4
  Operands <- MCOperands  ByteStrings <- MCByteStrings
  \* Messages of two fields in words of three bytes of four values, amounts of two decimals.
  Byte = 4  WordBytes = 3  Fields <- MCFields  MaxFields = 2
  Stroops <- MCStroops  Decimals = 2
INVARIANTS SdkTypeOK TokenOfOwnNonce ReportedTruthfully PaidAndPresented
  SaltIsOfIdentity HashesAgree NumbersKept ReadAsWritten
PROPERTIES ConnectEnds KeysFollow
CHECK_DEADLOCK FALSE
