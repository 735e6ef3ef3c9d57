\* One port; every profile type of MCProxy.
SPECIFICATION ProxySpec
CONSTANTS
  ProxyProfiles <- MCProxyProfiles
  ProxyPorts = {1}
INVARIANT
  FreerunTold
CHECK_DEADLOCK FALSE
