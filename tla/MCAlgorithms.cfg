SPECIFICATION Spec
CHECK_DEADLOCK FALSE
CONSTANTS
  None = None
  P = 43
  N = 31
  GeneratorX = 2
  GeneratorY = 12
  Buf = 64
  Base = 4
  ScalarLength = 3
  Bip328Chaincode = 9
  ByteBits = 2
  PageSize = 4
  NoAddress = NoAddress
  HashChunk = 2
  MasterPrivkey = 5
  MasterChaincode = 3
  HardenedIndex = 100
  MaxNumber = 999999999
  MaxParseDepth = 5
  MaxKeysMulti = 3
  MaxKeysMultiA = 4
  MaxTemplateLen = 40
  MaxKeyCount = 4
  MaxPathLen = 5
  FirstData = 3
  NextData = 4
  ResponseData = 3
  NoLength = NoLength
PROPERTIES KeysExact AccumulatorExact PsbtExact ProcessorExact BuffersMovedWhole EcallsAgree
PROPERTIES PolicyTextExact DescriptionFaithful ScriptSpendsAsPolicy
