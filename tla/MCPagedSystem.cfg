CONSTANTS
  NoWrite = NoWrite
  Code = Code
  Data = Data
  Stack = Stack
  c0 = c0
  c1 = c1
  Sections = {Code, Data}
  Contents = {c0, c1}
  InitialContent <- MCInitialContent
  ThisVApp = ThisVApp
  OtherVApp = OtherVApp
  NPages = 2
  NSlots = 1
  ProofLen = 2
  FirstFragment = 1
  NextFragment = 2
  MaxNonce = 2
  MaxFaults = 1
SPECIFICATION Spec
INVARIANTS TypeOK NonceUsedOnce CachedHashIsCurrent ShortcutIsValid HonestClientSucceeds
PROPERTIES LastWriteIsRead AccessAdvances
CHECK_DEADLOCK FALSE
