---------------------------- MODULE GNSSReceiver ----------------------------
(***************************************************************************)
(* The GNSS side of linuxptp-daemon: the gpsd process and its monitoring   *)
(* goroutine (pkg/daemon/gpsd.go) over the ubxtool receiver (pkg/ublox/    *)
(* ublox.go) and the broker that hands its messages on (broker.go).        *)
(*                                                                         *)
(* A navigation message is a record of its kind ("status", "clock"), the   *)
(* epoch it belongs to (iTOW) and whether it tells that the source is lost *)
(* (no fix, spoofing, offset out of range).  An epoch is a name that is    *)
(* free when the epoch begins.                                             *)
(***************************************************************************)
EXTENDS Naturals, Sequences, FiniteSets

CONSTANTS
  Epochs,      \* names of epochs, more than can be in use at a time
  SubCap,      \* capacity of a subscription (subscriptionBufferSize, 32)
  GnssEventCap,    \* capacity of the event channel
  MissedMax,   \* ticks without a pair before ubxtool is reset (3)
  MaxTools,    \* bound: receivers made
  MaxFaults    \* bound: faults, changes of the fix, stops

ASSUME GNSSAssumption ==
  {SubCap, GnssEventCap, MissedMax, MaxTools} \subseteq Nat \ {0} /\ MaxFaults \in Nat

VARIABLES
  gpsdState,     \* g.state
  child,     \* the gpsd process: "no" (not started), "runs", "gone"
  stopper,   \* where Stop is: "idle", "poll", "signal", "wait"
  closed,    \* stopCh is closed and the context cancelled
  mon,       \* the GNSS goroutine: "none", "init", "backoff", "poll", "restart"
  tools,     \* the receivers made: [status, alive, hung]
  gtool,     \* g.ublxTool, 0 for nil
  queue,     \* subscription.Messages
  nav,       \* lastNavStatus and lastNavClock
  missed, paired,   \* missedTickers, iTOWEventSinceLastTick
  gnssEventCh, gnssTold,    \* events on their way; what the clock was gnssTold last
  sky, half, \* the source is lost; the epoch whose clock message is due
  faults, failed    \* faults so far; ubxtool could not be started on a tick

gnssVars == <<gpsdState, child, stopper, closed, mon, tools, gtool, queue, nav, missed,
              paired, gnssEventCh, gnssTold, sky, half, faults, failed>>

None == [kind |-> "none", tow |-> "none", lost |-> FALSE]

GnssInit ==
  /\ gpsdState = "created" /\ child = "no" /\ stopper = "idle" /\ closed = FALSE
  /\ mon = "none" /\ tools = <<>> /\ gtool = 0
  /\ queue = <<>> /\ nav = [status |-> None, clock |-> None] /\ missed = 0 /\ paired = FALSE
  /\ gnssEventCh = <<>> /\ gnssTold = "none" /\ sky \in BOOLEAN /\ half = None
  /\ faults = 0 /\ failed = FALSE

Fault == faults < MaxFaults /\ faults' = faults + 1

(* sendGNSSEvent: never waits. *)
sendGNSSEvent(e) ==
  gnssEventCh' = IF Len(gnssEventCh) < GnssEventCap THEN Append(gnssEventCh, e) ELSE gnssEventCh

-----------------------------------------------------------------------------
(* The gpsd process. *)

(* Start: the GNSS goroutine of a process that died is still there, that   *)
(* of one stopped is taken to have ended.                                  *)
StartGpsd ==
  /\ gpsdState \in {"created", "stopped", "dead"} /\ stopper = "idle"
  /\ gpsdState = "stopped" => mon = "none"
  /\ gpsdState' = "starting" /\ closed' = FALSE /\ child' = "no"
  /\ mon' = IF gpsdState \in {"created", "stopped"} THEN "init" ELSE mon
  /\ UNCHANGED <<stopper, tools, gtool, queue, nav, missed, paired, gnssEventCh,
                 gnssTold, sky, half, faults, failed>>

Ended == IF gpsdState = "stopping" THEN "stopped" ELSE "dead"

(* run(): a Stop that came in the meantime is honoured. *)
RunStarts ==
  /\ gpsdState \in {"starting", "stopping"} /\ child = "no"
  /\ \/ child' = "runs" /\ UNCHANGED faults
        /\ gpsdState' = IF gpsdState = "starting" THEN "running" ELSE "stopping"
     \/ Fault /\ gpsdState' = Ended /\ UNCHANGED child
  /\ UNCHANGED <<stopper, closed, mon, tools, gtool, queue, nav, missed, paired,
                 gnssEventCh, gnssTold, sky, half, failed>>

ChildExits ==
  /\ child = "runs"
  /\ IF gpsdState = "stopping" THEN UNCHANGED faults ELSE Fault
  /\ child' = "gone" /\ gpsdState' = Ended
  /\ UNCHANGED <<stopper, closed, mon, tools, gtool, queue, nav, missed, paired,
                 gnssEventCh, gnssTold, sky, half, failed>>

(* Stop returns at once unless the process is starting or running.         *)
(* UbloxPollStop: the status first, then the process is killed and the     *)
(* reader waited for.                                                      *)
StopGpsd ==
  /\ gpsdState \in {"starting", "running"} /\ stopper = "idle" /\ Fault
  /\ gpsdState' = "stopping" /\ stopper' = "poll"
  /\ tools' = IF gtool = 0 THEN tools
              ELSE [tools EXCEPT ![gtool] = [@ EXCEPT !.status = "Stopped", !.alive = FALSE]]
  /\ UNCHANGED <<child, closed, mon, gtool, queue, nav, missed, paired, gnssEventCh,
                 gnssTold, sky, half, failed>>

(* The child is signalled: one that is gone cannot be, and Stop returns    *)
(* an error without waiting for the goroutines.                            *)
StopCloses ==
  /\ stopper = "poll" /\ child # "no"
  /\ closed' = TRUE /\ stopper' = IF child = "runs" THEN "wait" ELSE "idle"
  /\ UNCHANGED <<gpsdState, child, mon, tools, gtool, queue, nav, missed, paired,
                 gnssEventCh, gnssTold, sky, half, faults, failed>>

(* One that has no process yet has none to signal: the daemon panics and   *)
(* is started again (Signal of process_cmd.go).                            *)
StopPanics ==
  /\ stopper = "poll" /\ child = "no"
  /\ gpsdState' = "created" /\ stopper' = "idle" /\ closed' = FALSE /\ mon' = "none"
  /\ tools' = <<>> /\ gtool' = 0 /\ queue' = <<>>
  /\ nav' = [status |-> None, clock |-> None] /\ missed' = 0 /\ paired' = FALSE
  /\ gnssEventCh' = <<>> /\ gnssTold' = "none" /\ half' = None /\ failed' = FALSE
  /\ UNCHANGED <<child, sky, faults>>

(* wg.Wait: both goroutines have ended. *)
StopReturns ==
  /\ stopper = "wait" /\ gpsdState = "stopped" /\ mon = "none"
  /\ stopper' = "idle"
  /\ UNCHANGED <<gpsdState, child, closed, mon, tools, gtool, queue, nav, missed, paired,
                 gnssEventCh, gnssTold, sky, half, faults, failed>>

-----------------------------------------------------------------------------
(* monitorGNSSEventsWithUblox *)

Running == [status |-> "Active", alive |-> TRUE, hung |-> FALSE]

(* NewUblox: ubxtool is started and configured; when that fails it is      *)
(* stopped again.  pollForMessages then subscribes.                        *)
MonInit ==
  /\ mon = "init"
  /\ \/ /\ Len(tools) < MaxTools
        /\ tools' = Append(tools, Running) /\ gtool' = Len(tools) + 1
        /\ queue' = <<>> /\ nav' = [status |-> None, clock |-> None]
        /\ missed' = 0 /\ paired' = FALSE /\ mon' = "poll" /\ UNCHANGED faults
     \/ /\ Fault /\ mon' = "backoff"
        /\ UNCHANGED <<tools, gtool, queue, nav, missed, paired>>
  /\ UNCHANGED <<gpsdState, child, stopper, closed, gnssEventCh, gnssTold, sky, half,
                 failed>>

MonBackoff ==
  /\ mon = "backoff" /\ mon' = IF closed THEN "none" ELSE "init"
  /\ IF closed THEN sendGNSSEvent("reset") ELSE UNCHANGED gnssEventCh
  /\ UNCHANGED <<gpsdState, child, stopper, closed, tools, gtool, queue, nav, missed,
                 paired, gnssTold, sky, half, faults, failed>>

Working == gtool # 0 /\ tools[gtool].alive /\ ~tools[gtool].hung

(* Mutant: ubxtool is not reset however many ticks are missed. *)
MonTick_NoReset ==
  /\ mon = "poll"
  /\ missed' = IF paired THEN 0 ELSE IF missed < MissedMax THEN missed + 1 ELSE missed
  /\ paired' = FALSE
  /\ mon' = IF tools[gtool].status = "Dead" THEN "restart" ELSE "poll"
  /\ UNCHANGED <<gpsdState, child, stopper, closed, tools, gtool, queue, nav, gnssEventCh,
                 gnssTold, sky, half, faults, failed>>

(* A tick: after too many without a pair UbloxPollReset kills ubxtool (a   *)
(* working one is late only finitely often: its epochs are as long as the  *)
(* ticks).  UbloxPollInit then looks at the status ...                     *)
MonTick ==
  LET reset == ~paired /\ missed = MissedMax
      tool  == [tools[gtool] EXCEPT !.alive = FALSE,
                                    !.status = IF @ = "Stopped" THEN @ ELSE "Dead"]
  IN  /\ mon = "poll"
      /\ IF reset /\ Working THEN Fault ELSE UNCHANGED faults
      /\ missed' = IF paired \/ reset THEN 0 ELSE missed + 1
      /\ paired' = FALSE
      /\ nav' = IF reset THEN [status |-> None, clock |-> None] ELSE nav
      /\ tools' = IF reset THEN [tools EXCEPT ![gtool] = tool] ELSE tools
      /\ mon' = IF tools'[gtool].status = "Dead" THEN "restart" ELSE "poll"
      /\ UNCHANGED <<gpsdState, child, stopper, closed, gtool, queue, gnssEventCh,
                     gnssTold, sky, half, failed>>

(* ... and starts it; when that fails the status is that of a receiver     *)
(* that was stopped on purpose.                                            *)
MonRestart ==
  /\ mon = "restart" /\ mon' = "poll"
  /\ \/ tools' = [tools EXCEPT ![gtool] = Running] /\ UNCHANGED <<faults, failed>>
     \/ Fault /\ failed' = TRUE /\ tools' = [tools EXCEPT ![gtool].status = "Stopped"]
  /\ UNCHANGED <<gpsdState, child, stopper, closed, gtool, queue, nav, missed, paired,
                 gnssEventCh, gnssTold, sky, half>>

(* processGNSSMessage and checkForiTOWCorrelation: a pair of one epoch is  *)
(* reported and forgotten.                                                 *)
MonMessage ==
  /\ mon = "poll" /\ queue # <<>>
  /\ queue' = Tail(queue)
  /\ \E n \in {[nav EXCEPT ![Head(queue).kind] = Head(queue)]} :
       IF n.status.tow = n.clock.tow
       THEN /\ nav' = [status |-> None, clock |-> None] /\ paired' = TRUE
            /\ sendGNSSEvent(IF n.status.lost \/ n.clock.lost THEN "lost" ELSE "ok")
       ELSE nav' = n /\ UNCHANGED <<paired, gnssEventCh>>
  /\ UNCHANGED <<gpsdState, child, stopper, closed, mon, tools, gtool, missed, gnssTold,
                 sky, half, faults, failed>>

(* The context is cancelled and stopCh closed: the goroutine ends, and     *)
(* says so; or it finds its subscription closed first and begins again.    *)
MonExit ==
  /\ mon = "poll" /\ closed
  /\ mon' = "none" /\ sendGNSSEvent("reset")
  /\ UNCHANGED <<gpsdState, child, stopper, closed, tools, gtool, queue, nav, missed,
                 paired, gnssTold, sky, half, faults, failed>>

MonRetry ==
  /\ mon = "poll" /\ closed /\ Len(tools) < MaxTools
  /\ mon' = "init"
  /\ UNCHANGED <<gpsdState, child, stopper, closed, tools, gtool, queue, nav, missed,
                 paired, gnssEventCh, gnssTold, sky, half, faults, failed>>

-----------------------------------------------------------------------------
(* ubxtool and its reader: a status message opens an epoch, a clock        *)
(* message ends it.  deliver keeps the newest messages; the consumer is    *)
(* too slow for them only finitely often.                                  *)
Deliver(m) ==
  queue' = Append(IF Len(queue) < SubCap THEN queue ELSE Tail(queue), m)

InUse == {queue[n].tow : n \in 1..Len(queue)} \cup {nav.status.tow, nav.clock.tow}

ReceiverSends ==
  /\ mon \in {"poll", "restart"} /\ ~closed /\ Working
  /\ IF Len(queue) < SubCap THEN UNCHANGED faults ELSE Fault
  /\ IF half = None
     THEN \E e \in {CHOOSE x \in Epochs : x \notin InUse} :
            \E m \in {[kind |-> "status", tow |-> e, lost |-> sky]} :
              Deliver(m) /\ half' = m
     ELSE Deliver([half EXCEPT !.kind = "clock"]) /\ half' = None
  /\ UNCHANGED <<gpsdState, child, stopper, closed, mon, tools, gtool, nav, missed, paired,
                 gnssEventCh, gnssTold, sky, failed>>

(* ubxtool hangs, or exits: its reader then finds the end of its output.   *)
ToolFails ==
  /\ Working /\ Fault
  /\ \/ tools' = [tools EXCEPT ![gtool].hung = TRUE]
     \/ tools' = [tools EXCEPT ![gtool] =
                    [@ EXCEPT !.alive = FALSE,
                              !.status = IF @ = "Stopped" THEN @ ELSE "Dead"]]
  /\ UNCHANGED <<gpsdState, child, stopper, closed, mon, gtool, queue, nav, missed, paired,
                 gnssEventCh, gnssTold, sky, half, failed>>

SkyChanges ==
  /\ Fault /\ half = None /\ sky' = ~sky
  /\ UNCHANGED <<gpsdState, child, stopper, closed, mon, tools, gtool, queue, nav, missed,
                 paired, gnssEventCh, gnssTold, half, failed>>

ClockTakesGnss ==
  /\ gnssEventCh # <<>>
  /\ gnssTold' = Head(gnssEventCh) /\ gnssEventCh' = Tail(gnssEventCh)
  /\ UNCHANGED <<gpsdState, child, stopper, closed, mon, tools, gtool, queue, nav, missed,
                 paired, sky, half, faults, failed>>

-----------------------------------------------------------------------------
GpsdStep ==
  RunStarts \/ StopCloses \/ StopPanics \/ StopReturns \/ (gpsdState = "stopping" /\ ChildExits)

MonStep == MonInit \/ MonBackoff \/ MonRestart \/ MonExit \/ MonRetry

GnssNext ==
  \/ StartGpsd \/ StopGpsd \/ RunStarts \/ ChildExits \/ StopCloses \/ StopPanics
  \/ StopReturns
  \/ MonStep \/ MonTick \/ MonMessage
  \/ ReceiverSends \/ ToolFails \/ SkyChanges \/ ClockTakesGnss

(* The goroutines go on, the ticker ticks, ubxtool sends every second. *)
GnssFairness ==
  /\ WF_gnssVars(GpsdStep) /\ WF_gnssVars(MonStep) /\ WF_gnssVars(ClockTakesGnss)
  /\ SF_gnssVars(MonTick) /\ SF_gnssVars(MonMessage) /\ SF_gnssVars(ReceiverSends)

GnssSpec == GnssInit /\ [][GnssNext]_gnssVars /\ GnssFairness

-----------------------------------------------------------------------------
(* While the receiver is monitored, the clock learns whether the source is *)
(* lost, also when ubxtool hangs or exits, messages are dropped and events *)
(* are (pollForMessages); unless ubxtool cannot be started on a tick: it   *)
(* then has the status of one stopped on purpose, and nothing starts it    *)
(* again (UbloxPollInit).                                                  *)
SourceLossTold ==
  \A v \in BOOLEAN :
    (sky = v /\ mon = "poll" /\ ~closed /\ ~failed)
      ~> (gnssTold = (IF v THEN "lost" ELSE "ok") \/ sky # v \/ stopper # "idle" \/ failed)
=============================================================================
