CONSTANTS
  Contents <- MCContents
  HwSpecs <- MCHwSpecs
  SecretChanges <- MCSecretChanges
  Watched = TRUE
  Bad = Bad
  None = None
  Writers = {"ticker", "watcher"}
  HwNames = {h1}
  ChCap = 1
  MaxEvents = 2
  Start <- MCStart
SPECIFICATION Spec
INVARIANTS RunsWhatItRemembers SecretNotForgotten HardwareApplied
PROPERTY FileReachesNode
CHECK_DEADLOCK FALSE
