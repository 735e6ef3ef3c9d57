\* Updates and clears across write timeouts and restarts of either side.
CONSTANTS
  k1 = k1
  k2 = k2
  k3 = k3
  s1 = s1
  s2 = s2
  Slots = {s1, s2}
  SlotOf <- MCSlotOf
  None = None
  Keys = {k1, k2, k3}
  Vals = {v1, v2}
  OutCap = 2
  SockCap = 1
  MaxConns = 2
  MaxUpdates = 3
  MaxRestarts = 1
  MaxTimeouts = 1
SPECIFICATION FairSpec
INVARIANTS
  UpToDate
PROPERTY
  Settles
CHECK_DEADLOCK FALSE
