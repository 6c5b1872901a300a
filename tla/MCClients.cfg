CONSTANTS
  Requests = {r1, r2}
  MaxReqChunks = 2
  MaxRespChunks = 2
  VappMayStop = TRUE
  MaxCalls = 4
  MaxCancels = 2
  Calls = {"start", "stop", "info", "preload", "metrics"}
  NoTag = NoTag
  SyncChunks = 3
  SyncCalls = 4
SPECIFICATION MCSpec
INVARIANTS WorkerReplacesNothing EngineInLockstep AnswersMatch SyncTransmitsFully
PROPERTY EveryCallReturns
CHECK_DEADLOCK FALSE
