------------------------------ MODULE TBCClock ------------------------------
(***************************************************************************)
(* The telecom boundary clock of linuxptp-daemon (pkg/clock/tbc.go) and    *)
(* what feeds it: the ptp4l of its upstream ports                          *)
(* (pkg/daemon/ptp_process.go), the DPLLs of its NICs, ts2phc and the PMC  *)
(* monitor.                                                                *)
(*                                                                         *)
(* The clock's handlers run one at a time on the clock manager's loop.     *)
(* Beside it run the goroutines a handler starts: fetches of the upstream  *)
(* data sets, whose results come back to the loop, and commands that set   *)
(* what the downstream ports announce.  The channels between producers and *)
(* loop are modelled in ClockManager; here an event is handled when it is  *)
(* sent.                                                                   *)
(***************************************************************************)
EXTENDS PTPStates, ClockData

CONSTANTS
  NoIface,
  InSyncThreshold, InSyncTimes, ToFreeRun, MaxInSpec,   \* PtpSettings of the profile
  Scenarios         \* what a behaviour has to deal with: a sequence of records of
    \* configured  the profile's leadingInterface, or NoIface
    \* leading     the NIC whose DPLL follows ptp4l, or NoIface
    \* ports       upstream (TR) ports of ptp4l, in a sequence
    \* noHoldover  LocalHoldoverTimeout is 0
    \* ttsc        no controlledId: a telecom slave clock
    \* hwConfig    a hardware configuration drives the port transitions
    \* dpll        [nic, state, offset] that the DPLLs report
    \* ptp4l       offsets ptp4l reports
    \* ts2phc      [nic, offset] that ts2phc reports
    \* upstreams   clock classes of the upstream grandmasters
    \* os          states of the system clock
    \* stale       processes whose reports may stay away
    \* older       processes whose reports the wall clock may date back
    \* fails       PMC commands that may fail: "gs", "egp", "own", "fetch"
    \* announces, reports, resets   bounds: announcements started, changes of
    \*             the grandmaster not yet reported, resets of the clock

Freerun == 248
SlaveOnly == 255

IsScenario(x) ==
  /\ Len(x.ports) > 0 /\ x.upstreams \subseteq 1..255
  /\ {x.noHoldover, x.ttsc, x.hwConfig} \subseteq BOOLEAN
  /\ \A d \in x.dpll : d.nic # NoIface /\ d.state \in IPCState /\ d.offset \in Int
  /\ x.os \subseteq IPCState
  /\ {x.announces, x.reports, x.resets} \subseteq Nat

ASSUME TBCAssumption ==
  /\ {InSyncThreshold, InSyncTimes, ToFreeRun, MaxInSpec} \subseteq 1..998   \* below FaultyPhaseOffset
  /\ \A n \in DOMAIN Scenarios : IsScenario(Scenarios[n])

VARIABLES
  scenario,   \* the scenario of this behaviour
  clk,        \* TBC: syncState and leadingClockData
  data,       \* DataHolder.data
  osState,    \* OsClock.State
  overall,    \* BaseClock.overallSyncState
  store,      \* ipc.Cache: last message of each kind for this profile
  tokens,     \* announceSeq
  fetches,    \* goroutines in downstreamAnnounceIWF
  locals,     \* goroutines of announceLocalData with a command to issue
  announces,  \* announcements started so far
  ports,      \* what the controlled ports, and the clock's own, announce
  wire,       \* the class the upstream grandmaster has
  reports,    \* parent data sets the PMC monitor has still to deliver
  clean,      \* the last announcement met no other, none of it failed, and no
              \* report that asked for none of its own met its fetch
  upstream,   \* tBCProcessAttributes of the upstream ptp4l
  resets

vars == <<scenario, clk, data, osState, overall, store, tokens, fetches, locals, announces,
          ports, wire, reports, clean, upstream, resets>>
envVars == <<scenario, wire, reports, upstream>>

sc == Scenarios[scenario]

-----------------------------------------------------------------------------
(* Conditions of the state machine, over the clock c and its data d. *)

getLeadingInterfaceBC(c) == IF c.leading # NoIface THEN c.leading ELSE sc.configured

isTTSC(c) == c.clockID /\ ~c.controlled

hasNonLeadingDPLLFault(c, d) ==
  LET lead == DetailsOf(d, "dpll", getLeadingInterfaceBC(c))
  IN  /\ lead # {} /\ \A x \in lead : x.state = "LOCKED"
      /\ \E x \in Details(d, "dpll") : x.state # "LOCKED"

(* The details getLargestOffset looks at: not stale, of an entry with an    *)
(* offset.  The code ends the search at a window that is not full yet.     *)
Fresh(d) ==
  {p \in (1..Len(d)) \X (1..4) :
     LET e == d[p[1]]
     IN  /\ e.proc = "ts2phc" \/ ~IsEmpty(e.window)
         /\ p[2] <= Len(e.details) /\ ~e.details[p[2]].stale}

(* The absolute value of getLargestOffset is below bound, which is at most *)
(* the FaultyPhaseOffset it returns without data.  The interface seen      *)
(* first counts with the mean of the window when it is the leading one,    *)
(* the others with their last offset.                                      *)
getLargestOffset(c, d, bound) ==
  /\ \A k \in 1..Len(d) : d[k].proc = "ts2phc" \/ IsEmpty(d[k].window) \/ IsFull(d[k].window)
  /\ Fresh(d) # {}
  /\ \A p \in Fresh(d) :
       LET e == d[p[1]]
           x == e.details[p[2]]
           meant == /\ \A q \in Fresh(d) : p[1] < q[1] \/ (p[1] = q[1] /\ p[2] <= q[2])
                    /\ e.proc # "ts2phc" /\ x.iface = getLeadingInterfaceBC(c)
       IN  Abs(IF meant THEN Mean(e.window) ELSE x.offset) < bound

(* inSyncCondition: its verdict and the counter it leaves behind. *)
inSyncCondition(c, d) ==
  LET inSync == getLargestOffset(c, d, InSyncThreshold)
      n == IF ~c.thresholds THEN c.counter ELSE IF inSync THEN c.counter + 1 ELSE 0
  IN  [ok |-> c.thresholds /\ inSync /\ n >= InSyncTimes,
       counter |-> IF n > InSyncTimes THEN InSyncTimes ELSE n]

isSourceLostBC(d) ==
  \/ \A x \in Details(d, "ptp4l") : x.state # "LOCKED"
  \/ \E x \in Details(d, "dpll") : x.state # "LOCKED"

freeRunCondition(c, d) ==
  \/ ~c.thresholds
  \/ \E x \in DetailsOf(d, "dpll", getLeadingInterfaceBC(c)) : Abs(x.offset) > ToFreeRun
  \/ \E k \in Entries(d, "ptp4l") :
       ~IsEmpty(d[k].window) /\ Abs(Mean(d[k].window)) > ToFreeRun

inSpecCondition(c, d) ==
  /\ c.thresholds
  /\ \A x \in DetailsOf(d, "dpll", getLeadingInterfaceBC(c)) : Abs(x.offset) <= MaxInSpec

-----------------------------------------------------------------------------
(* updateState: the clock it leaves, and whether downstream must be told.  *)

To(c, state, class) == [c EXCEPT !.state = state, !.class = class]

fromFreerun(c, d) ==
  LET sync == inSyncCondition(c, d)
  IN  IF isSourceLostBC(d) THEN [c |-> c, tell |-> FALSE]
      ELSE IF sync.ok
           THEN [c |-> [c EXCEPT !.state = "LOCKED", !.counter = sync.counter, !.inSpec = TRUE],
                 tell |-> TRUE]
           ELSE [c |-> [c EXCEPT !.counter = sync.counter], tell |-> FALSE]

(* In LOCKED the data sets of the upstream are handed down; a free-running *)
(* upstream is not.                                                        *)
fromLocked(c, d) ==
  IF freeRunCondition(c, d) \/ hasNonLeadingDPLLFault(c, d)
  THEN [c |-> To(c, "FREERUN", Freerun), tell |-> TRUE]
  ELSE IF isSourceLostBC(d)
  THEN [c |-> IF c.noHoldover THEN To(c, "FREERUN", Freerun)
              ELSE [To(c, "HOLDOVER", 135) EXCEPT !.inSpec = TRUE],
        tell |-> TRUE]
  ELSE [c |-> [c EXCEPT !.down = c.up, !.downTP = c.upTP,
                        !.class = IF c.up = Freerun \/ isTTSC(c) THEN @ ELSE c.up],
        tell |-> c.up # Freerun /\ (c.up # c.down \/ c.upTP # c.downTP)]

(* In HOLDOVER the clock falls out of spec once and stays there. *)
fromHoldover(c, d) ==
  LET sync == inSyncCondition(c, d)
      c2 == [c EXCEPT !.counter = sync.counter]
      leavesSpec == c.inSpec /\ ~inSpecCondition(c, d)
  IN  IF hasNonLeadingDPLLFault(c, d) \/ freeRunCondition(c, d)
      THEN [c |-> To(c, "FREERUN", Freerun), tell |-> TRUE]
      ELSE IF sync.ok /\ ~isSourceLostBC(d)
      THEN [c |-> [c2 EXCEPT !.state = "LOCKED"], tell |-> TRUE]
      ELSE IF leavesSpec
      THEN [c |-> [c2 EXCEPT !.inSpec = FALSE, !.class = 165], tell |-> c.class # 165]
      ELSE [c |-> c2, tell |-> FALSE]

updateState(c, d) ==
  IF getLeadingInterfaceBC(c) = NoIface THEN [c |-> c, tell |-> FALSE]
  ELSE IF d = <<>> THEN [c |-> To(c, "FREERUN", Freerun), tell |-> FALSE]
  ELSE LET r == CASE c.state \in {"NOTSET", "FREERUN"} -> fromFreerun(c, d)
                  [] c.state = "LOCKED"                -> fromLocked(c, d)
                  [] c.state = "HOLDOVER"              -> fromHoldover(c, d)
           class == IF isTTSC(c) THEN SlaveOnly ELSE r.c.class
       IN  [c |-> [r.c EXCEPT !.class = class],
            tell |-> r.tell /\ class # 0 /\ ~isTTSC(c)]

-----------------------------------------------------------------------------
(* Announcements. *)

(* What a port announces: the grandmaster's identity or class, and the     *)
(* time properties or steps removed.                                       *)
Pair(up, tp) == [up |-> up, tp |-> tp]
Local(target, v, n) == [target |-> target, val |-> Pair(v, 0), n |-> n]
Issued(targets, v) == [t \in DOMAIN ports |-> IF t \in targets THEN v ELSE ports[t]]

(* updateDownstreamData: announceLocalData starts three commands that run  *)
(* in any order; in LOCKED a fetch is started under a new token.           *)
updateDownstreamData(c) ==
  /\ announces < sc.announces
  /\ announces' = announces + 1
  /\ clean' = (locals = {})
  /\ IF c.state # "LOCKED"
     THEN /\ locals' = locals \cup {Local("egp", 0, announces), Local("gs", c.class, announces),
                                    Local("own", c.class, announces)}
          /\ clk' = c /\ UNCHANGED <<tokens, fetches>>
     ELSE /\ tokens' = tokens + 1
          /\ clk' = [c EXCEPT !.token = tokens + 1]
          /\ fetches' = fetches \cup {[token |-> tokens + 1, up |-> 0, tp |-> 0]}
          /\ UNCHANGED locals

(* The fetch the clock waits for is under way. *)
Pending == \E f \in fetches : f.token = clk.token

(* evaluateState: update the state, send what changed, tell downstream.    *)
(* pmc says that a report of the grandmaster is what it follows.           *)
evaluateState(c, d, pmc) ==
  \E r \in {updateState(c, d)} :
    LET worst == worstOfState(r.c.state, osState)
    IN  /\ data' = d
        /\ overall' = worst
        /\ store' = [store EXCEPT
             !.ptp = IF r.c.state = c.state THEN @ ELSE PtpStateToIPCState(r.c.state),
             !.class = IF r.c.class = c.class THEN @ ELSE r.c.class,
             !.sync = IF worst = overall THEN @ ELSE PtpStateToIPCState(worst)]
        /\ IF r.tell THEN updateDownstreamData(r.c)
           ELSE /\ clk' = r.c /\ clean' = (clean /\ ~(pmc /\ Pending))
                /\ UNCHANGED <<tokens, fetches, locals, announces>>

(* AddEvent for the reports of a process; init is what updateLeadingClockData *)
(* has taken from the event.                                                 *)
Report(ev, c) ==
  /\ \E older \in BOOLEAN :
       /\ older => ev.proc \in sc.older
       /\ \E d \in {AddEvent(data, ev, older)}, cc \in {c} : evaluateState(cc, d, FALSE)
  /\ UNCHANGED <<osState, ports, resets>>

Sample(p, i, s, has, o) ==
  [proc |-> p, iface |-> i, state |-> s, lost |-> s # "LOCKED", outOfSpec |-> FALSE,
   hasOffset |-> has, offset |-> o]

-----------------------------------------------------------------------------
(* Producers. *)

(* A DPLL reports; the leading one says so, and every one carries the      *)
(* thresholds of the profile.                                              *)
DpllEvent(x) ==
  LET c1 == IF x.nic = sc.leading THEN [clk EXCEPT !.leading = x.nic] ELSE clk
      c2 == IF x.nic = getLeadingInterfaceBC(c1)
            THEN [c1 EXCEPT !.noHoldover = sc.noHoldover] ELSE c1
  IN  /\ Report(Sample("dpll", x.nic, x.state, TRUE, x.offset), [c2 EXCEPT !.thresholds = TRUE])
      /\ UNCHANGED envVars

Ts2phcEvent(x) ==
  /\ Report(Sample("ts2phc", x.nic, "LOCKED", TRUE, x.offset), clk)
  /\ UNCHANGED envVars

activeTRPort(u) == IF u.active # NoIface THEN u.active ELSE sc.ports[1]

(* sendPtp4lStateEvent *)
Ptp4lState(u) ==
  Report(Sample("ptp4l", activeTRPort(u), u.reported, FALSE, 0),
         [clk EXCEPT !.clockID = TRUE, !.controlled = ~sc.ttsc])

NoReport == UNCHANGED <<clk, data, osState, overall, store, tokens, fetches, locals,
                        announces, ports, clean, resets>>

(* ptp4l logs that a port became SLAVE: reported, not yet applied. *)
PortLocked(p) ==
  /\ upstream.slaves = {} /\ p \notin upstream.slaves
  /\ upstream' = [upstream EXCEPT !.slaves = {p}, !.active = p, !.reported = "LOCKED"]
  /\ NoReport /\ UNCHANGED <<scenario, wire, reports>>

(* Mutant: the event is built before the new state is recorded. *)
PortLost_SendFirst(p) ==
  LET u == [upstream EXCEPT !.slaves = @ \ {p}, !.reported = "FREERUN", !.applied = FALSE,
                            !.active = IF sc.hwConfig THEN NoIface ELSE @]
  IN  /\ p \in upstream.slaves
      /\ upstream' = u
      /\ Ptp4lState(upstream)
      /\ UNCHANGED <<scenario, wire, reports>>

(* ptp4l logs that the SLAVE port left that state, and no other has it:    *)
(* the clock is told, under the name of the active port, which the         *)
(* hardware-config path has cleared by then.                               *)
PortLost(p) ==
  LET u == [upstream EXCEPT !.slaves = @ \ {p}, !.reported = "FREERUN", !.applied = FALSE,
                            !.active = IF sc.hwConfig THEN NoIface ELSE @]
  IN  /\ p \in upstream.slaves
      /\ upstream' = u
      /\ Ptp4lState(u)
      /\ UNCHANGED <<scenario, wire, reports>>

(* checkOffsetFilterAndTransition: the filtered offset has come in range. *)
FilterPasses ==
  /\ upstream.reported = "LOCKED" /\ ~upstream.applied
  /\ upstream' = [upstream EXCEPT !.applied = TRUE]
  /\ Ptp4lState(upstream)
  /\ UNCHANGED <<scenario, wire, reports>>

(* sendPtp4lOffsetEvent, once per second: the average of the last offsets. *)
Ptp4lOffset(o) ==
  /\ Report(Sample("ptp4l", activeTRPort(upstream), upstream.reported, TRUE, o), clk)
  /\ UNCHANGED envVars

(* No report of process p about interface i for StaleEventAfter. *)
GoStale(p, i) ==
  /\ \E x \in DetailsOf(data, p, i) : ~x.stale
  /\ data' = Expire(data, p, i)
  /\ UNCHANGED <<clk, osState, overall, store, tokens, fetches, locals, announces, ports,
                 clean, resets, envVars>>

(* The upstream grandmaster changes; the PMC monitor reports it later. *)
UpstreamChanges(k) ==
  /\ k # wire /\ Len(reports) < sc.reports
  /\ wire' = k
  /\ reports' = Append(reports, k)
  /\ UNCHANGED <<scenario, upstream>> /\ NoReport

PmcParentDS ==
  /\ reports # <<>>
  /\ reports' = Tail(reports)
  /\ evaluateState([clk EXCEPT !.up = Head(reports)], data, TRUE)
  /\ UNCHANGED <<osState, ports, resets, scenario, wire, upstream>>

(* SystemClockUpdate *)
OsClockSample(s) ==
  LET worst == worstOfState(clk.state, s)
  IN  /\ s # osState
      /\ osState' = s
      /\ overall' = worst
      /\ store' = [store EXCEPT !.sync = IF worst = overall THEN @ ELSE PtpStateToIPCState(worst)]
      /\ UNCHANGED <<clk, data, tokens, fetches, locals, announces, ports, clean, resets, envVars>>

-----------------------------------------------------------------------------
(* Goroutines. *)

(* GetParentTimeAndCurrentDS: pmc is asked for the parent data set first, then *)
(* for the time properties and the current data set.                        *)
FetchReads(f) ==
  /\ f.up = 0
  /\ fetches' = (fetches \ {f}) \cup {[f EXCEPT !.up = wire]}
  /\ UNCHANGED <<clk, data, osState, overall, store, tokens, locals, announces, ports, clean,
                 resets, envVars>>
FetchReadsTime(f) ==
  /\ f.up # 0 /\ f.tp = 0
  /\ fetches' = (fetches \ {f}) \cup {[f EXCEPT !.tp = wire]}
  /\ UNCHANGED <<clk, data, osState, overall, store, tokens, locals, announces, ports, clean,
                 resets, envVars>>

(* One of them failed: nothing is sent, nothing retried. *)
FetchFails(f) ==
  /\ f.tp = 0 /\ "fetch" \in sc.fails
  /\ fetches' = fetches \ {f}
  /\ clean' = FALSE
  /\ UNCHANGED <<clk, data, osState, overall, store, tokens, locals, announces, ports,
                 resets, envVars>>

(* Mutant: any result is applied. *)
handleDownstreamAnnounceIWF_AnyToken(f) ==
  /\ f.tp # 0
  /\ fetches' = fetches \ {f}
  /\ IF clk.state # "LOCKED" THEN UNCHANGED <<clk, ports>>
     ELSE /\ clk' = [clk EXCEPT !.up = f.up, !.upTP = f.tp, !.down = f.up, !.downTP = f.tp]
          /\ ports' = Issued({"gs", "egp"}, Pair(f.up, f.tp))
  /\ UNCHANGED <<data, osState, overall, store, tokens, locals, announces, clean, resets, envVars>>

(* Mutant: a result is applied whatever state the clock is in. *)
handleDownstreamAnnounceIWF_AnyState(f) ==
  /\ f.tp # 0
  /\ fetches' = fetches \ {f}
  /\ IF f.token # clk.token THEN UNCHANGED <<clk, ports>>
     ELSE /\ clk' = [clk EXCEPT !.up = f.up, !.upTP = f.tp, !.down = f.up, !.downTP = f.tp]
          /\ ports' = Issued({"gs", "egp"}, Pair(f.up, f.tp))
  /\ UNCHANGED <<data, osState, overall, store, tokens, locals, announces, clean, resets, envVars>>

(* The loop takes the result of a fetch: dropped when it is not the one    *)
(* asked for last or the clock is not LOCKED any more.  The two commands   *)
(* run on the loop; a failed one is only logged.                           *)
handleDownstreamAnnounceIWF(f) ==
  /\ f.tp # 0
  /\ fetches' = fetches \ {f}
  /\ IF f.token # clk.token \/ clk.state # "LOCKED" THEN UNCHANGED <<clk, ports, clean>>
     ELSE /\ clk' = [clk EXCEPT !.up = f.up, !.upTP = f.tp, !.down = f.up, !.downTP = f.tp]
          /\ \E failed \in SUBSET (sc.fails \cap {"gs", "egp"}) :
               /\ ports' = Issued({"gs", "egp"} \ failed, Pair(f.up, f.tp))
               /\ clean' = (clean /\ failed = {})
  /\ UNCHANGED <<data, osState, overall, store, tokens, locals, announces, resets, envVars>>

(* A command of announceLocalData is issued, or fails. *)
LocalDone(l, ok) ==
  /\ ok \/ l.target \in sc.fails
  /\ locals' = locals \ {l}
  /\ ports' = IF ok THEN Issued({l.target}, l.val) ELSE ports
  /\ clean' = (clean /\ ok)
  /\ UNCHANGED <<clk, data, osState, overall, store, tokens, fetches, announces, resets, envVars>>

-----------------------------------------------------------------------------
NewClock(t) ==
  [state |-> "NOTSET", class |-> 0, leading |-> NoIface, thresholds |-> FALSE,
   noHoldover |-> FALSE, clockID |-> FALSE, controlled |-> FALSE, up |-> 0, upTP |-> 0,
   down |-> 0, downTP |-> 0, inSpec |-> FALSE, counter |-> 0, token |-> t]

NoStore == [ptp |-> "none", class |-> 0, sync |-> "none"]

(* A Reset event: the clock manager clears the IPC cache and resets the    *)
(* clock, which takes a new token.                                         *)
Reset ==
  /\ resets < sc.resets /\ resets' = resets + 1
  /\ tokens' = tokens + 1
  /\ clk' = NewClock(tokens + 1)
  /\ data' = <<>> /\ osState' = "FREERUN" /\ overall' = "FREERUN"
  /\ store' = NoStore /\ clean' = FALSE
  /\ UNCHANGED <<fetches, locals, announces, ports, envVars>>

(* A profile apply replaces the clock; the fetches of the old one go on,   *)
(* and so do the IPC cache's messages.                                     *)
NewTBC ==
  /\ resets < sc.resets /\ resets' = resets + 1
  /\ tokens' = tokens + 1
  /\ clk' = NewClock(tokens + 1)
  /\ data' = <<>> /\ osState' = "FREERUN" /\ overall' = "NOTSET"
  /\ clean' = FALSE
  /\ reports' = <<wire>>
  /\ upstream' = [slaves |-> {}, active |-> NoIface, reported |-> "NOTSET", applied |-> FALSE]
  /\ UNCHANGED <<scenario, store, fetches, locals, announces, ports, wire>>

Init ==
  /\ scenario \in DOMAIN Scenarios
  /\ tokens = 1 /\ clk = NewClock(1) /\ data = <<>>
  /\ osState = "FREERUN" /\ overall = "NOTSET" /\ store = NoStore
  /\ fetches = {} /\ locals = {} /\ announces = 0
  /\ ports = [t \in {"gs", "egp", "own"} |-> Pair(0, 0)]
  /\ wire \in sc.upstreams /\ reports = <<wire>> /\ clean = FALSE
  /\ upstream = [slaves |-> {}, active |-> NoIface, reported |-> "NOTSET", applied |-> FALSE]
  /\ resets = 0

PortSet == {sc.ports[n] : n \in 1..Len(sc.ports)}

Next ==
  \/ \E x \in sc.dpll : DpllEvent(x)
  \/ \E x \in sc.ts2phc : Ts2phcEvent(x)
  \/ \E p \in PortSet : PortLocked(p)
  \/ \E p \in PortSet : PortLost(p)
  \/ FilterPasses
  \/ \E o \in sc.ptp4l : Ptp4lOffset(o)
  \/ \E p \in sc.stale : \E x \in Details(data, p) : GoStale(p, x.iface)
  \/ \E k \in sc.upstreams : UpstreamChanges(k)
  \/ PmcParentDS
  \/ \E s \in sc.os : OsClockSample(s)
  \/ \E f \in fetches : FetchReads(f)
  \/ \E f \in fetches : FetchReadsTime(f)
  \/ \E f \in fetches : FetchFails(f)
  \/ \E f \in fetches : handleDownstreamAnnounceIWF(f)
  \/ \E l \in locals, ok \in BOOLEAN : LocalDone(l, ok)
  \/ Reset
  \/ NewTBC

Spec == Init /\ [][Next]_vars

-----------------------------------------------------------------------------
(* No goroutine has a result or a command left that the clock waits for. *)
Quiet == locals = {} /\ ~Pending

(* Once its goroutines are done and none failed or overlapped, a clock     *)
(* that is LOCKED makes its controlled ports announce the grandmaster it   *)
(* was last told of: no fetch that a newer request, a Reset or a new clock *)
(* has superseded, and none that read the data sets of two grandmasters,   *)
(* may leave its data there (announceToken of tbc.go).  A report that asks *)
(* for no fetch of its own and meets an older one can: its request was     *)
(* never made, so the token does not tell the older result apart.          *)
DownstreamFollowsUpstream ==
  (Quiet /\ clean /\ ~sc.ttsc /\ clk.state = "LOCKED" /\ reports = <<>> /\ wire # Freerun)
    => ports.gs = Pair(wire, wire) /\ ports.egp = Pair(wire, wire)

(* Under the same conditions a clock that has left LOCKED announces itself *)
(* with its own class, and a fetch started while it was LOCKED cannot put  *)
(* the upstream's data back (handleDownstreamAnnounceIWF).                 *)
LocalDataAnnounced ==
  (Quiet /\ clean /\ ~sc.ttsc /\ clk.state \in {"FREERUN", "HOLDOVER"})
    => ports.gs.up = clk.class /\ ports.own.up = clk.class /\ ports.egp.up = 0

(* When no upstream port is SLAVE any more, the clock knows that its       *)
(* source is lost: "All upstream ports lost SLAVE -> aggregate LOST (enter *)
(* holdover)" (processTBCTransitionHardwareConfig).                        *)
UpstreamLossSeen ==
  (upstream.slaves = {} /\ upstream.reported = "FREERUN")
    => isSourceLostBC(data)
=============================================================================
