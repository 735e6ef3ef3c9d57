\* ptp4l with its pmc, and phc2sys started and stopped by conditions; deaths or a second apply.
CONSTANTS
  ptp4l = ptp4l
  pmc = pmc
  phc2sys = phc2sys
  ptp4lB = ptp4lB
  pmcB = pmcB
  Names = {ptp4l, pmc, phc2sys}
  Pmcs = {pmc}
  StopOnHalt = {phc2sys}
  Order <- MCOrder
  Parent <- MCParent
  StartOn <- MCStartOn
  MayFail = {ptp4l}
  InCap = 1
  MaxApplies = 2
  Budgets <- MCBudgets
  MaxStarts = 2
SPECIFICATION FairSpec
INVARIANTS
  OneChild
PROPERTIES
  WaitingIsStarted
  DeadIsRestarted
CHECK_DEADLOCK FALSE
