SPECIFICATION Spec
CONSTANTS
  DataSets = {"a", "b"}
  NoData = "nodata"
  ParentDSCap = 2
  PmcEventCap = 1
  MaxPolls = 1
  MaxHandlers = 2
  MaxChanges = 2
  Resources = {"r1", "r2"}
  MaxIds = 3
  Epochs = {"e1", "e2", "e3", "e4"}
  SubCap = 1
  GnssEventCap = 1
  MissedMax = 1
  MaxTools = 2
  MaxFaults = 2
  CommandLists <- MCCommandLists
  MaxExtra = 0
  MaxTime = 6
  StartOff = 3
  EndOff = 1
  LeapTimes = {4}
  MaxFailures = 2
  Members = {"m1", "m2"}
  NoMember = "nomember"
  SynceIfaces = {"i1", "i2"}
  Levels <- MCLevels
  NetworkOptions = {1, 2}
  Half = 5
  Second = 2
  NoDevice = NoDevice
  StepProfiles <- MCStepProfiles
  PhcOf <- MCPhcOf
  Domain = 24
  MaxSteps = 6
INVARIANTS SubscriptionsKept AckAttributed NoFalseLeap BestMemberPublished LevelAnnounced FirstStepLands
PROPERTIES ParentDSRecovers SourceLossTold
CHECK_DEADLOCK FALSE
