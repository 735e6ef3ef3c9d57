\* Announcements, all sources, and a slave clock: see MCTBCClock.
CONSTANTS
  n1 = n1
  n2 = n2
  p1 = p1
  p2 = p2
  NoIface = noIface
  WindowSize = 1
  InSyncThreshold = 1
  InSyncTimes = 1
  ToFreeRun = 5
  MaxInSpec = 3
  Scenarios <- MCScenarios
SPECIFICATION Spec
INVARIANTS
  DownstreamFollowsUpstream
  LocalDataAnnounced
  UpstreamLossSeen
CHECK_DEADLOCK FALSE
