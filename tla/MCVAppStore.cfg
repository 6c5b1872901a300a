CONSTANTS
  v1 = v1
  v2 = v2
  v3 = v3
  v4 = v4
  Vapps = {v1, v2, v3, v4}
  NameOf <- MCNameOf
  SlotsOf <- MCSlotsOf
  Entries = {0, 1}
  MaxStorageSlots = 2
  Data = {d1}
  Zero = Zero
  Keys = {k1, k2}
  NoVapp = NoVapp
  Garbage = Garbage
  AuthKey = AuthKey
  Absent = Absent
  Failed = Failed
  MaxPowerLosses = 2
  Preloaded = {v1, v2}
  CodePages = 2
  MaxHashes = 2
  Wrong = Wrong
  NoFile = NoFile
  MaxPreloads = 2
SPECIFICATION MCSpec
INVARIANTS ValidIsWhole OneEntryPerName OneAuthKey UnmaskedAreGenuine HmacsAreCurrent
PROPERTY IsolatedStorage
