\* One boundary clock whose profile runs ts2phc (Reset events), applied once:
\* holdover is entered, left and entered again.
CONSTANTS
  Cfgs = {c1}
  OCs = {}
  Ts2phcCfgs = {c1}
  Ifaces = {i1}
  NoIface = noIface
  GMClasses = {6}
  OSStates <- MCOSStates
  InCap = 1
  OutCap = 2
  MaxApplies = 1
  MaxGen = 2
SPECIFICATION FairSpec
INVARIANTS
  TypeOK
  OneExpiryPerHoldover
PROPERTIES
  HoldoverEnds
  ExpiryFromOwnTimer
  KeepsPromise
