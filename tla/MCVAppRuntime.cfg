CONSTANTS
  PairHeights <- MCPairHeights
  ContentHeight = 3
  NAppInfoSteps = 3
  Tasks = {t1, t2}
  Children = {c1}
  MaxPolls = 2
  InfoTicks = 2
  MaxCalls = 3
  Nobody = Nobody
SPECIFICATION Spec
INVARIANTS BorrowsRespected EachPolledOnce ScreenMatchesView
PROPERTY NeverSpins
CHECK_DEADLOCK FALSE
