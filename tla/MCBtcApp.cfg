\* The Bitcoin V-App: all requests, and a loss of power at any point.
CONSTANTS
  None = None
  WarnAmount = 8
  WarnPercent = 30
  MaxPubkeysPerMusig = 2
  LockTimeThreshold = 3
  ValidNames = {"w", "m", "l", "c", "r", "m2"}
  Requests <- MCRequests
  Wallets <- MCWallets
  Enrolled <- MCEnrolled
  Stored <- MCStored
  StandardSeed <- MCStandardSeed
  MaxPath = 2
  MaxIndex = 1
  MaxRequests = 2
  MaxCrashes = 1
SPECIFICATION Spec
INVARIANTS
  SignedAsApproved
  NonceUsedOnce
  ExportedKeysStayOurs
  OutputsAttested
  HonestPsbtSigned
CHECK_DEADLOCK FALSE
