------------------------------ MODULE MCProxy ------------------------------
(***************************************************************************)
(* Instances of ProxyEvents for TLC: an ordinary clock, a grandmaster with *)
(* chronyd beside phc2sys, and a telecom boundary clock.                   *)
(***************************************************************************)
EXTENDS ProxyEvents

MCProxyProfile(t, chronyd) == [type |-> t, chronyd |-> chronyd]
MCProxyProfiles ==
  {MCProxyProfile("OC", FALSE), MCProxyProfile("T-GM", TRUE), MCProxyProfile("T-BC", FALSE)}
=============================================================================
