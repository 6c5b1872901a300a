\* The two rounds of a MuSig2 session, and a loss of power at any point.
CONSTANTS
  None = None
  WarnAmount = 8
  WarnPercent = 30
  MaxPubkeysPerMusig = 2
  LockTimeThreshold = 3
  ValidNames = {"w", "m", "l", "c", "r", "m2"}
  Requests <- MCRounds
  Wallets <- MCWallets
  Enrolled <- MCEnrolled
  Stored <- MCNothing
  StandardSeed <- MCStandardSeed
  MaxPath = 2
  MaxIndex = 1
  MaxRequests = 2
  MaxCrashes = 1
SPECIFICATION Spec
INVARIANT NoStaleSession
CHECK_DEADLOCK FALSE
