\* A grandmaster and its DPLLs: see MCGMClock.
CONSTANTS
  n1 = n1
  n2 = n2
  NoIface = noIface
  AllNics <- MCAllNics
  WindowSize = 1
  Timeout = 2
  Slope = 1
  Backlog = 1
  Scenarios <- MCScenarios
SPECIFICATION Spec
INVARIANTS
  OneHoldover
  StateDelivered
  PublishedCurrent
PROPERTY
  ToldHoldoverEnds
CHECK_DEADLOCK FALSE
