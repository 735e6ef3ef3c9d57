----------------------------- MODULE MCTBCClock -----------------------------
(***************************************************************************)
(* Instances of TBCClock for TLC.  Offsets stand for ranges: 0 in sync, 4  *)
(* out of spec, 6 beyond the free-run threshold.                           *)
(***************************************************************************)
EXTENDS TBCClock

CONSTANTS n1, n2, p1, p2

D(n, s, o) == [nic |-> n, state |-> s, offset |-> o]

(* One upstream port and one DPLL: the grandmaster changes, fetches are    *)
(* superseded, outlive the lock and fail.                                  *)
Fetches ==
  [configured |-> n1, leading |-> n1, ports |-> <<p1>>, noHoldover |-> FALSE, ttsc |-> FALSE,
   hwConfig |-> TRUE, dpll |-> {D(n1, "LOCKED", 0)}, ptp4l |-> {0}, ts2phc |-> {},
   upstreams |-> {6, 7}, os |-> {}, stale |-> {}, older |-> {}, fails |-> {"fetch", "gs"},
   announces |-> 2, reports |-> 1, resets |-> 0]

(* Holdovers that go out of spec or beyond the free-run threshold. *)
Specs ==
  [Fetches EXCEPT !.dpll = @ \cup {D(n1, "HOLDOVER", 4), D(n1, "HOLDOVER", 6)},
     !.ptp4l = {}, !.upstreams = {6}, !.older = {"dpll"}, !.fails = {}, !.announces = 3]

(* The clock is reset or replaced while a fetch is under way. *)
Restarts == [Fetches EXCEPT !.ptp4l = {}, !.fails = {}, !.resets = 1]

(* The lock is lost and found again while the grandmaster changes. *)
Relocks ==
  [Fetches EXCEPT !.ptp4l = {}, !.upstreams = {6, 248}, !.fails = {}, !.announces = 3]

(* A second DPLL, ts2phc and the system clock, the ports without a         *)
(* hardware configuration, a grandmaster that free-runs.                   *)
Sources ==
  [Fetches EXCEPT !.ptp4l = {}, !.configured = NoIface, !.hwConfig = FALSE,
     !.dpll = {D(n1, "LOCKED", 0), D(n2, "LOCKED", 0), D(n2, "FREERUN", 0)},
     !.ts2phc = {[nic |-> n1, offset |-> 2]}, !.upstreams = {6, 248},
     !.os = {"LOCKED"}, !.stale = {"ts2phc"}, !.fails = {}, !.announces = 1,
     !.reports = 0]

(* A telecom slave clock without holdover. *)
Slave == [Fetches EXCEPT !.ttsc = TRUE, !.noHoldover = TRUE, !.upstreams = {6}, !.announces = 1]

(* Two upstream ports of which one at a time is SLAVE. *)
TwoPorts == [Fetches EXCEPT !.ports = <<p1, p2>>, !.fails = {}]

MCScenarios == <<Fetches, Specs, Restarts, Relocks, Sources, Slave>>
MCTwoPorts  == <<TwoPorts>>
=============================================================================
