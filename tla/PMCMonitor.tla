----------------------------- MODULE PMCMonitor -----------------------------
(***************************************************************************)
(* The PMC monitor of linuxptp-daemon (pkg/daemon/pmc.go) with the PMC     *)
(* client (pkg/pmc/pmc.go): a pmc process pushes the parent data set of    *)
(* ptp4l when it changes, and a poll before every wait makes up for pushes *)
(* that never come.  Polls and handlers are goroutines of their own.       *)
(*                                                                         *)
(* How the process is started and restarted is modelled in ProcessManager; *)
(* here it starts again by itself.                                         *)
(***************************************************************************)
EXTENDS Naturals, Sequences, FiniteSets

CONSTANTS
  DataSets,     \* parent data sets ptp4l may have
  NoData,       \* no data set yet
  ParentDSCap,  \* capacity of parentDSCh (10 in the code)
  PmcEventCap,     \* capacity of the daemon's event channel
  MaxPolls,     \* bound: data sets polled and not yet taken by the loop
  MaxHandlers,  \* bound: goroutines in handleParentDS
  MaxChanges    \* bound: changes of ptp4l's data set

ASSUME PMCAssumption ==
  /\ NoData \notin DataSets
  /\ {ParentDSCap, PmcEventCap, MaxPolls, MaxHandlers} \subseteq Nat \ {0}
  /\ MaxChanges \in Nat

VARIABLES
  wire,      \* PARENT_DATA_SET of ptp4l
  changes,   \* how often it has changed
  pushes,    \* notifications on their way to the monitoring pmc
  monitor,   \* where monitor() is: "start", "loop", "exiting", "down"
  worker,    \* where expectWorker is: "none", "top", "expect", "send"
  pushed,    \* the data set the worker has matched
  polls,     \* goroutines in Poll: id -> "read" or the data set read
  parentDSCh,
  handlers,  \* goroutines in handleParentDS
  parentDS,  \* PMCProcess.parentDS
  pmcEventCh, clock,   \* the clock's data set
  clean      \* no update was dropped and no two handlers have overlapped

pmcVars == <<wire, changes, pushes, monitor, worker, pushed, polls, parentDSCh, handlers,
             parentDS, pmcEventCh, clock, clean>>

PmcInit ==
  /\ wire \in DataSets /\ changes = 0 /\ pushes = <<>>
  /\ monitor = "start" /\ worker = "none" /\ pushed = NoData
  /\ polls = <<>> /\ parentDSCh = <<>> /\ handlers = {} /\ parentDS = NoData
  /\ pmcEventCh = <<>> /\ clock = NoData /\ clean = TRUE

-----------------------------------------------------------------------------
(* ptp4l: its parent data set changes; the notification may get lost. *)
WireChanges(v) ==
  /\ v # wire /\ changes < MaxChanges /\ Len(pushes) < 1
  /\ wire' = v /\ changes' = changes + 1
  /\ \E told \in BOOLEAN : pushes' = IF told THEN Append(pushes, v) ELSE pushes
  /\ UNCHANGED <<monitor, worker, pushed, polls, parentDSCh, handlers, parentDS,
                 pmcEventCh, clock, clean>>

-----------------------------------------------------------------------------
(* GetPMCMontior has its answer: monitor starts the worker and its loop. *)
MonitorStart ==
  /\ monitor = "start" /\ worker = "none"
  /\ monitor' = "loop" /\ worker' = "top"
  /\ UNCHANGED <<wire, changes, pushes, pushed, polls, parentDSCh, handlers, parentDS,
                 pmcEventCh, clock, clean>>

(* Mutant: the worker polls only when it has matched a notification. *)
WorkerPolls_AfterPush ==
  /\ worker = "top" /\ monitor = "loop"
  /\ worker' = "expect"
  /\ UNCHANGED <<wire, changes, pushes, monitor, pushed, polls, parentDSCh, handlers,
                 parentDS, pmcEventCh, clock, clean>>

(* expectWorker: "Check if anything changed while handling the last        *)
(* message", then wait.                                                    *)
WorkerPolls ==
  /\ worker = "top" /\ monitor = "loop" /\ Len(polls) + Len(parentDSCh) < MaxPolls
  /\ polls' = Append(polls, NoData)
  /\ worker' = "expect"
  /\ UNCHANGED <<wire, changes, pushes, monitor, pushed, parentDSCh, handlers, parentDS,
                 pmcEventCh, clock, clean>>

(* The wait times out after waitInterval. *)
WorkerTimesOut ==
  /\ worker = "expect" /\ pushes = <<>>
  /\ worker' = "top"
  /\ UNCHANGED <<wire, changes, pushes, monitor, pushed, polls, parentDSCh, handlers,
                 parentDS, pmcEventCh, clock, clean>>

WorkerMatches ==
  /\ worker = "expect" /\ pushes # <<>>
  /\ pushed' = Head(pushes) /\ pushes' = Tail(pushes)
  /\ worker' = "send"
  /\ UNCHANGED <<wire, changes, monitor, polls, parentDSCh, handlers, parentDS, pmcEventCh,
                 clock, clean>>

(* The send waits for room and for nothing else. *)
WorkerSends ==
  /\ worker = "send" /\ Len(parentDSCh) < ParentDSCap
  /\ parentDSCh' = Append(parentDSCh, pushed)
  /\ worker' = "top" /\ pushed' = NoData
  /\ UNCHANGED <<wire, changes, pushes, monitor, polls, handlers, parentDS, pmcEventCh,
                 clock, clean>>

(* The pmc process exits: monitor leaves its loop by r, or by the signal   *)
(* of the worker, closes doneCh and waits for the worker; notifications    *)
(* are lost.                                                               *)
PmcExits ==
  /\ monitor = "loop" /\ changes < MaxChanges
  /\ monitor' = "exiting" /\ pushes' = <<>>
  /\ changes' = changes + 1
  /\ UNCHANGED <<wire, worker, pushed, polls, parentDSCh, handlers, parentDS, pmcEventCh,
                 clock, clean>>

WorkerLeaves ==
  /\ monitor = "exiting" /\ worker \in {"top", "expect"}
  /\ worker' = "none"
  /\ UNCHANGED <<wire, changes, pushes, monitor, pushed, polls, parentDSCh, handlers,
                 parentDS, pmcEventCh, clock, clean>>

(* The process manager starts it again, with the same channel and the same *)
(* parentDS.                                                               *)
MonitorRestarts ==
  /\ monitor = "exiting" /\ worker = "none"
  /\ monitor' = "start"
  /\ UNCHANGED <<wire, changes, pushes, worker, pushed, polls, parentDSCh, handlers,
                 parentDS, pmcEventCh, clock, clean>>

-----------------------------------------------------------------------------
WithoutAt(s, k) == SubSeq(s, 1, k - 1) \o SubSeq(s, k + 1, Len(s))

(* GetParentDS reads what ptp4l has now, or fails. *)
PollReads(k) ==
  /\ polls[k] = NoData
  /\ \/ polls' = [polls EXCEPT ![k] = wire]
     \/ changes < MaxChanges /\ polls' = WithoutAt(polls, k)
  /\ changes' = IF Len(polls') < Len(polls) THEN changes + 1 ELSE changes
  /\ UNCHANGED <<wire, pushes, monitor, worker, pushed, parentDSCh, handlers, parentDS,
                 pmcEventCh, clock, clean>>

PollSends(k) ==
  /\ polls[k] # NoData /\ Len(parentDSCh) < ParentDSCap
  /\ parentDSCh' = Append(parentDSCh, polls[k])
  /\ polls' = WithoutAt(polls, k)
  /\ UNCHANGED <<wire, changes, pushes, monitor, worker, pushed, handlers, parentDS,
                 pmcEventCh, clock, clean>>

(* The loop of monitor starts a handler for every data set. *)
MonitorTakes ==
  /\ monitor = "loop" /\ parentDSCh # <<>> /\ Cardinality(handlers) < MaxHandlers
  /\ parentDSCh' = Tail(parentDSCh)
  /\ \E id \in {CHOOSE i \in 1..MaxHandlers : \A h \in handlers : h.id # i} :
       handlers' = handlers \cup {[id |-> id, pc |-> "compare", ds |-> Head(parentDSCh)]}
  /\ clean' = (clean /\ handlers = {})
  /\ UNCHANGED <<wire, changes, pushes, monitor, worker, pushed, polls, parentDS,
                 pmcEventCh, clock>>

(* handleParentDS: what is already known is skipped, the rest remembered,  *)
(* without a lock ...                                                      *)
handleParentDS(h) ==
  /\ h.pc = "compare"
  /\ handlers' = IF parentDS = h.ds THEN handlers \ {h}
                 ELSE (handlers \ {h}) \cup {[h EXCEPT !.pc = "offer"]}
  /\ parentDS' = h.ds
  /\ UNCHANGED <<wire, changes, pushes, monitor, worker, pushed, polls, parentDSCh,
                 pmcEventCh, clock, clean>>

(* ... and offered to the event channel without waiting. *)
OfferEvent(h) ==
  /\ h.pc = "offer"
  /\ handlers' = handlers \ {h}
  /\ IF Len(pmcEventCh) < PmcEventCap
     THEN pmcEventCh' = Append(pmcEventCh, h.ds) /\ UNCHANGED clean
     ELSE clean' = FALSE /\ UNCHANGED pmcEventCh
  /\ UNCHANGED <<wire, changes, pushes, monitor, worker, pushed, polls, parentDSCh,
                 parentDS, clock>>

(* The clock is given the event. *)
ClockTakesParentDS ==
  /\ pmcEventCh # <<>>
  /\ clock' = Head(pmcEventCh) /\ pmcEventCh' = Tail(pmcEventCh)
  /\ UNCHANGED <<wire, changes, pushes, monitor, worker, pushed, polls, parentDSCh,
                 handlers, parentDS, clean>>

-----------------------------------------------------------------------------
PollStep == \E k \in 1..Len(polls) : PollReads(k) \/ PollSends(k)

HandlerStep == \E h \in handlers : handleParentDS(h) \/ OfferEvent(h)

WorkerStep == WorkerPolls \/ WorkerTimesOut \/ WorkerMatches \/ WorkerSends \/ WorkerLeaves

MonitorStep == MonitorStart \/ MonitorTakes \/ MonitorRestarts

PmcNext ==
  \/ \E v \in DataSets : WireChanges(v)
  \/ PmcExits
  \/ PollStep \/ HandlerStep \/ WorkerStep \/ MonitorStep
  \/ ClockTakesParentDS

(* Goroutines go on, Expect times out and the process manager restarts     *)
(* what has exited.                                                        *)
PmcFairness ==
  /\ WF_pmcVars(WorkerStep) /\ WF_pmcVars(MonitorStep) /\ WF_pmcVars(ClockTakesParentDS)
  /\ WF_pmcVars(PollStep) /\ WF_pmcVars(HandlerStep)

PmcSpec == PmcInit /\ [][PmcNext]_pmcVars /\ PmcFairness

-----------------------------------------------------------------------------
(* "This guarantees the clock class metric recovers within one interval    *)
(* even if a NOTIFY_PARENT_DATA_SET push is never delivered" (PMCProcess): *)
(* the clock learns what ptp4l has now, also when polls fail and pmc       *)
(* exits; as long as no update is dropped at a full event channel and no   *)
(* two goroutines are in handleParentDS at a time.                         *)
RecoversIfClean ==
  \A v \in DataSets : (wire = v /\ clean) ~> (clock = v \/ wire # v \/ ~clean)
=============================================================================
