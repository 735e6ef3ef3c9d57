------------------------------ MODULE MCGMClock ------------------------------
(***************************************************************************)
(* Instances of GMClock for TLC.                                           *)
(***************************************************************************)
EXTENDS GMClock

CONSTANTS n1, n2

X(k, v) == [kind |-> k, val |-> v]

I(n, source) == [name |-> n, source |-> source]
(* Profiles: a NIC with GNSS, one more that takes 1PPS from it, and a      *)
(* T-BC whose hardware configuration names the NIC of the upstream ports.  *)
WithGNSS(inSpec) ==
  [tbc |-> FALSE, ifaces |-> <<I(n1, "gnss")>>, ignored |-> {n2}, inSpec |-> inSpec,
   clocks |-> n1 :> 1, flags |-> << >>, hardware |-> <<>>]
Telecom ==
  [WithGNSS({2}) EXCEPT !.tbc = TRUE, !.ifaces = <<I(n1, "pps")>>,
     !.hardware = <<[ifaces |-> <<n1>>, clock |-> 1, inputs |-> TRUE, holdover |-> {0}, flags |-> {}],
                    [ifaces |-> <<n2>>, clock |-> 0, inputs |-> FALSE, holdover |-> {2}, flags |-> {}]>>]
Follower ==
  [WithGNSS({}) EXCEPT !.ifaces = <<I(n1, "gnss"), I(n2, "pps")>>, !.ignored = {},
     !.hardware = <<[ifaces |-> <<n1>>, clock |-> 1, inputs |-> FALSE, holdover |-> {},
                     flags |-> {"noPhaseOffset", "noPhaseStatus"}]>>]
NoDpll == [WithGNSS({}) EXCEPT !.ignored = {n1}]

Env(p, nics, hwOf(_)) ==
  [profile |-> p, changes |-> 1, batch |-> 1, faults |-> {}, hw |-> [n \in nics |-> hwOf(n)],
   gnss |-> n1, fixes |-> {"LOCKED"}, ts2phc |-> {"LOCKED"}, os |-> {},
   pmcFails |-> FALSE, noSource |-> FALSE]
Changes == {X("pps", "HOLDOVER"), X("pps", "LOCKED"), X("pin", 0)}

(* One NIC with GNSS whose DPLL loses the receiver's signal: the holdover  *)
(* ends by its ramp, or the DPLL locks or runs free.                       *)
Ramp == Env(WithGNSS({}), {n1}, LAMBDA n : Changes \cup {X("eec", "FREERUN")})

(* The same with a holdover that ends by its timeout. *)
Expiry == Env(WithGNSS({2}), {n1}, LAMBDA n : Changes)

(* A DPLL that follows ptp4l, its limit from the hardware configuration. *)
Ptp == [Env(Telecom, {n1}, LAMBDA n : Changes) EXCEPT !.gnss = NoIface, !.fixes = {}, !.ts2phc = {}]

(* The connection fails, the monitor is stopped. *)
Faults ==
  [Env([WithGNSS({}) EXCEPT !.flags = n1 :> OnlyPhaseStatus],
       {n1}, LAMBDA n : {X("pps", "HOLDOVER"), X("pps", "INVALID")})
     EXCEPT !.ts2phc = {}, !.faults = {"join", "conn", "stop"}]

(* A second NIC that takes 1PPS from the first and has its flags, which    *)
(* are those of the last clock set.                                        *)
Pair == Env(Follower, {n1, n2}, LAMBDA n : IF n = n1 THEN {} ELSE {X("pps", "HOLDOVER")})

(* No DPLL: GNSS and ts2phc come and go, PMC fails, the system clock. *)
Announce ==
  [Env(NoDpll, {}, LAMBDA n : {}) EXCEPT
     !.fixes = {"LOCKED", "FREERUN"}, !.ts2phc = {"LOCKED", "FREERUN", "HOLDOVER"},
     !.os = {"LOCKED", "FREERUN"}, !.pmcFails = TRUE, !.noSource = TRUE]

MCAllNics == {n1, n2}
MCScenarios == <<Ramp, Expiry, Ptp, Faults, Pair, Announce>>
=============================================================================
