\* An E825 pair, the processes of a T-BC and of a T-GM with NTP failover, the
\* proxy's events: windows of two samples of which two are needed.
SPECIFICATION Spec
CONSTANTS
  None = None
  Nics <- MCNics
  PinTable <- MCPins
  Vendor <- MCVendor
  ClockChainProfiles <- MCProfiles
  HwConfigSets <- MCConfigSets
  MaxPinFaults = 1
  StartProfiles <- MCStartProfiles
  OffsetWindow = 2
  OffsetCount = 1
  QueueCap = 3
  MayDie = {"ts2phc"}
  MaxTurmoil = 1
  MsgTypeSets <- MCMsgTypeSets
  IFacesOf <- MCIFacesOf
  Levels = {1, 2}
  Subscribers = {u1}
  NoEvent = NoEvent
INVARIANTS
  PinsAsConfigured
  EventsCurrent
PROPERTIES
  PlatformStarts
CHECK_DEADLOCK FALSE
