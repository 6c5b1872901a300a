CONSTANTS
  Requests = {r1, r2}
  MaxReqChunks = 2
  MaxRespChunks = 2
  VappMayStop = FALSE
  MaxCalls = 1
  MaxCancels = 0
  Calls = {"start"}
  NoTag = NoTag
SPECIFICATION Spec
INVARIANT TransmittedFully
