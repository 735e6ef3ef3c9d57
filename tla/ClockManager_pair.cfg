\* Two clocks that share the system clock, no ts2phc, two applies.  Without
\* parent data sets a boundary and an ordinary clock are the same.
CONSTANTS
  Cfgs = {c1, c2}
  OCs = {}
  Ts2phcCfgs = {}
  Ifaces = {i1}
  NoIface = noIface
  GMClasses = {}
  OSStates <- MCOSStates
  InCap = 1
  OutCap = 1
  MaxApplies = 2
  MaxGen = 1
SPECIFICATION Spec
SYMMETRY MCClocks
INVARIANTS
  OverallReconciled
  SnapshotCurrent
