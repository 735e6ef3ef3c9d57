\* One port; every profile type of MCProxy.
SPECIFICATION ProxySpec
CONSTANTS
  ProxyProfiles <- MCProxyProfiles
  ProxyPorts = {1}
INVARIANTS
  PullAgreesWithPush
  UndisciplinedIsFreerun
PROPERTY
  ProxyHoldoverEnds
CHECK_DEADLOCK FALSE
