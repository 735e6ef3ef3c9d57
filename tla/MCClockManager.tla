--------------------------- MODULE MCClockManager ---------------------------
(***************************************************************************)
(* Instances of ClockManager for TLC; the bounds are in the .cfg files.    *)
(***************************************************************************)
EXTENDS ClockManager, TLC

MCOSStates == {"FREERUN", "LOCKED"}
MCClocks == Permutations(Cfgs)
=============================================================================
