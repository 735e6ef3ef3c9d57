------------------------------- MODULE GMClock -------------------------------
(***************************************************************************)
(* The grandmaster clock of linuxptp-daemon (pkg/clock/gm.go) on top of    *)
(* the DPLLs of its NICs (DpllMonitor), the GNSS receiver                  *)
(* (pkg/daemon/gpsd.go) and ts2phc: it takes their events from the channel *)
(* one at a time, computes its state and clock class and sets what ptp4l   *)
(* announces.                                                              *)
(*                                                                         *)
(* No producer sets frequencyTraceable, so class 140 is never reached and  *)
(* left out.  In a scenario without a GNSS receiver (a telecom boundary    *)
(* clock, see TBCClock) only the bookkeeping of the events remains.        *)
(***************************************************************************)
EXTENDS PTPStates, ClockData, DpllMonitor

CONSTANTS NoIface, AllNics
    \* further fields of a scenario:
    \* gnss      the NIC with the receiver, or NoIface
    \* fixes     what the receiver reports: subset of {"LOCKED", "FREERUN"}
    \* ts2phc    states ts2phc reports
    \* os        states of the system clock
    \* pmcFails  whether PMC commands may fail
    \* noSource  ts2phc may log that it has no source time stamp

VARIABLES
  gm,        \* GM: state and class of syncState, gnssState, announced class
  data,      \* DataHolder.data
  osState, overall,
  store,     \* ipc.Cache
  ptp4l,     \* clock class ptp4l announces
  noSource   \* parser.NoSourceTSCount

gmVars == <<gm, data, osState, overall, store, ptp4l, noSource>>
vars == <<scenario, dpllVars, gmVars>>

-----------------------------------------------------------------------------
Sorted(d, p) == d[CHOOSE k \in Entries(d, p) : TRUE].details

isSourceLost(d) == Entries(d, "gnss") # {} /\ Sorted(d, "gnss")[1].lost

getLeadingInterface(d) == IF Entries(d, "gnss") = {} THEN NoIface ELSE Sorted(d, "gnss")[1].iface

hasNonLeadingDPLLFault(d) ==
  LET lead == DetailsOf(d, "dpll", getLeadingInterface(d))
  IN  /\ lead # {} /\ \A x \in lead : x.state = "LOCKED"
      /\ \E x \in Details(d, "dpll") : x.state # "LOCKED"

Now(c, state, class) == [c EXCEPT !.state = state, !.class = class]

ByState(c, s) ==
  CASE s = "LOCKED"   -> Now(c, "LOCKED", 6)
    [] s = "HOLDOVER" -> Now(c, "HOLDOVER", 7)
    [] s = "FREERUN"  -> Now(c, "FREERUN", 248)
    [] OTHER          -> c

(* The decision table of updateState. *)
decide(c, dp, gn, ts, lost) ==
  CASE dp \in {"FREERUN", "HOLDOVER"}  -> ByState(c, dp)
    [] dp \in {"LOCKED", "NOTSET"} /\ gn = "LOCKED" -> ByState(c, ts)
    [] dp \in {"LOCKED", "NOTSET"} /\ gn = "FREERUN" /\ lost ->
         CASE ts = "FREERUN"  -> [c EXCEPT !.state = "FREERUN"]
           [] ts = "HOLDOVER" -> Now(c, "HOLDOVER", 7)
           [] OTHER           -> c
    [] OTHER -> IF ts = "HOLDOVER" THEN c ELSE Now(c, "FREERUN", 248)

updateState(c, d) ==
  LET dp == IF hasNonLeadingDPLLFault(d) THEN "FREERUN" ELSE StateOf(d, "dpll", "NOTSET")
      gn == StateOf(d, "gnss", "FREERUN")
      ts == IF noSource = 2 THEN "FREERUN" ELSE StateOf(d, "ts2phc", "FREERUN")
  IN  [decide(c, dp, gn, ts, isSourceLost(d)) EXCEPT !.gnss = gn]

(* announceClockClassIfChanged: a class whose announcement failed is tried *)
(* again with the next event.                                              *)
announceClockClassIfChanged(c, ok) ==
  IF c.class = 0 \/ c.class = c.announced \/ ~ok THEN gm' = c /\ UNCHANGED ptp4l
  ELSE gm' = [c EXCEPT !.announced = c.class] /\ ptp4l' = c.class

(* AddEvent for an event of a process. *)
AddGMEvent(ev, ok) ==
  \E d \in {AddEvent(data, ev, FALSE)} :
    \E c \in {IF getLeadingInterface(d) = NoIface THEN gm ELSE updateState(gm, d)} :
      LET known == getLeadingInterface(d) # NoIface
          worst == worstOfState(c.state, osState)
      IN  /\ data' = d
          /\ overall' = worst
          /\ store' = [store EXCEPT
               !.ptp = IF c.state # gm.state /\ gm.state # "NOTSET"
                       THEN PtpStateToIPCState(c.state) ELSE @,
               !.class = IF c.class # gm.class /\ gm.class # 0 THEN c.class ELSE @,
               !.gnss = IF c.gnss # gm.gnss THEN PtpStateToIPCState(c.gnss) ELSE @,
               !.sync = IF worst # overall THEN PtpStateToIPCState(worst) ELSE @]
          /\ IF known THEN announceClockClassIfChanged(c, ok) ELSE gm' = c /\ UNCHANGED ptp4l

NoStore == [ptp |-> "none", class |-> 0, gnss |-> "none", sync |-> "none"]

(* Mutant: the cache keeps what the clock said before the reset. *)
GMReset_KeepCache ==
  /\ gm' = [state |-> "ZERO", class |-> 0, gnss |-> "NOTSET", announced |-> 0]
  /\ data' = <<>> /\ osState' = "FREERUN" /\ overall' = "FREERUN"
  /\ UNCHANGED <<ptp4l, store>>

(* Reset: the zero value of SyncState has the state "", not NOTSET.  The   *)
(* clock manager has cleared the cache before.                             *)
GMReset ==
  /\ gm' = [state |-> "ZERO", class |-> 0, gnss |-> "NOTSET", announced |-> 0]
  /\ data' = <<>> /\ osState' = "FREERUN" /\ overall' = "FREERUN"
  /\ store' = NoStore
  /\ UNCHANGED ptp4l

Full(ev) ==
  [proc |-> ev.proc, iface |-> ev.iface, state |-> ev.state, lost |-> ev.lost,
   outOfSpec |-> FALSE, hasOffset |-> FALSE, offset |-> 0]

(* ProcessEvents takes the next event. *)
Handle(ok) ==
  /\ events # <<>> /\ (ok \/ sc.pmcFails)
  /\ events' = Tail(events)
  /\ IF Head(events).proc = "reset" THEN GMReset
     ELSE IF sc.gnss = NoIface
          THEN /\ data' = AddEvent(data, Full(Head(events)), FALSE)
               /\ UNCHANGED <<gm, osState, overall, store, ptp4l>>
          ELSE /\ AddGMEvent(Full(Head(events)), ok)
               /\ UNCHANGED osState
  /\ UNCHANGED <<scenario, hw, mon, ntf, dpll, hos, noSource>>

-----------------------------------------------------------------------------
(* A sample that says what the last one of its process said is left out,   *)
(* unless an announcement has to be tried again: it would change nothing.  *)
Telling(p, s) ==
  \/ \A x \in DetailsOf(data, p, sc.gnss) : x.state # s
  \/ gm.announced # gm.class

(* checkForiTOWCorrelation: the receiver's state is lost without a fix of  *)
(* three dimensions, when spoofed or when the offset is out of range.      *)
GnssSample(s) ==
  /\ sc.gnss # NoIface /\ Len(events) < Backlog /\ Telling("gnss", s)
  /\ Offer([proc |-> "gnss", iface |-> sc.gnss, state |-> s, lost |-> s # "LOCKED"])
  /\ UNCHANGED <<scenario, hw, mon, ntf, dpll, hos, gmVars>>

(* A ts2phc offset line. *)
Ts2phcSample(s) ==
  /\ Len(events) < Backlog /\ (noSource > 0 \/ Telling("ts2phc", s))
  /\ noSource' = 0
  /\ Offer([proc |-> "ts2phc", iface |-> sc.gnss, state |-> s, lost |-> FALSE])
  /\ UNCHANGED <<scenario, hw, mon, ntf, dpll, hos, gm, data, osState, overall, store, ptp4l>>

(* extractNoSourceTS *)
Ts2phcNoSource ==
  /\ sc.noSource /\ noSource < 2
  /\ noSource' = noSource + 1
  /\ UNCHANGED <<scenario, dpllVars, gm, data, osState, overall, store, ptp4l>>

(* handleOSClockEvent and SystemClockUpdate. *)
OsClockSample(s) ==
  LET worst == worstOfState(gm.state, s)
  IN  /\ s # osState
      /\ osState' = s
      /\ overall' = worst
      /\ store' = [store EXCEPT !.sync = IF worst # overall THEN PtpStateToIPCState(worst) ELSE @]
      /\ UNCHANGED <<scenario, dpllVars, gm, data, ptp4l, noSource>>

-----------------------------------------------------------------------------
Init ==
  /\ DpllInit
  /\ gm = [state |-> "NOTSET", class |-> 0, gnss |-> "NOTSET", announced |-> 0]
  /\ data = <<>> /\ osState = "FREERUN" /\ overall = "NOTSET" /\ store = NoStore
  /\ ptp4l = 248 /\ noSource = 0

Samples ==
  \/ \E s \in sc.fixes : GnssSample(s)
  \/ \E s \in sc.ts2phc : Ts2phcSample(s)
  \/ Ts2phcNoSource
  \/ \E s \in sc.os : OsClockSample(s)

Next ==
  \/ DpllNext /\ UNCHANGED <<scenario, gmVars>>
  \/ Samples
  \/ \E ok \in BOOLEAN : Handle(ok)

(* The timers run out and the goroutines and the event loop go on. *)
Fairness ==
  /\ WF_vars(\E ok \in BOOLEAN : Handle(ok))
  /\ \A n \in AllNics : WF_vars(n \in sc.nics /\ Holdover(n) /\ UNCHANGED <<scenario, gmVars>>)

Spec == Init /\ [][Next]_vars /\ Fairness

-----------------------------------------------------------------------------
(* At most one goroutine of a DPLL is in holdover, and while it is, no     *)
(* other can be started: onHoldover is cleared only on its way out and     *)
(* closing is for good (stateDecision, holdover).                          *)
OneHoldover ==
  \A n \in sc.nics :
    /\ Cardinality(hos[n]) <= 1
    /\ hos[n] # {} => dpll[n].onHoldover \/ dpll[n].closing

(* Every change of a DPLL's state, whoever makes it, is followed by an     *)
(* event: when the channel is empty and no goroutine is under way, the     *)
(* clock has the state the monitor has (stateDecision, holdover,           *)
(* sendDpllEvent).                                                         *)
StateDelivered ==
  events = <<>> =>
    \A n \in sc.nics :
      (\A g \in hos[n] : g.pc = "wait") =>
        \A x \in DetailsOf(data, "dpll", n) : x.state = dpll[n].state

(* No clock is left with a DPLL in holdover while the DPLL is monitored:   *)
(* by the ramp, the timeout or a lock the goroutine ends, and the clock is *)
(* told (holdover of dpll.go, AddEvent of gm.go).                          *)
ToldHoldoverEnds ==
  (StateOf(data, "dpll", "NOTSET") = "HOLDOVER") ~>
    \/ StateOf(data, "dpll", "NOTSET") # "HOLDOVER"
    \/ \E n \in sc.nics : mon[n] \in {"stopping", "stopped"}

(* What the IPC cache tells a proxy is never a state the grandmaster has   *)
(* left, also after a Reset (updateState, Reset of gm.go); and its class   *)
(* counts as announced only when ptp4l has it, so that a PMC command that  *)
(* failed is tried again (announceClockClass).                             *)
PublishedCurrent ==
  /\ (gm.class # 0 /\ gm.announced = gm.class) => ptp4l = gm.class
  /\ store.ptp \in {"none", PtpStateToIPCState(gm.state)}
  /\ store.class \in {0, gm.class}
  /\ store.gnss \in {"none", PtpStateToIPCState(gm.gnss)}
=============================================================================
