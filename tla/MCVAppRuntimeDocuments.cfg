CONSTANTS
  PairHeights <- MCPairHeights
  ContentHeight = 3
  NAppInfoSteps = 3
  Tasks = {t1, t2}
  Children = {c1}
  MaxPolls = 2
  InfoTicks = 2
  MaxCalls = 3
  Nobody = Nobody
SPECIFICATION Spec
INVARIANT SomeDocumentHolds
CHECK_DEADLOCK FALSE
