--------------------------- MODULE StartConditions ---------------------------
(***************************************************************************)
(* Which process of a profile waits for which: the conditions that the     *)
(* constructors of a profile's processes attach to them (createProcesses   *)
(* and the New...Process functions of pkg/daemon), how an event meets a    *)
(* condition (pkg/process/conditions.go), and the plugin that hands the    *)
(* system clock from phc2sys to chronyd while GNSS is lost                 *)
(* (addons/generic/ntpfailover.go).                                        *)
(*                                                                         *)
(* A grandmaster runs gpsd, gpspipe, ts2phc and phc2sys, with chronyd as a *)
(* fallback; a telecom boundary clock runs ptp4l, phc2sys and ts2phc.      *)
(* Start and Stop take effect at once and the list of waiting processes is *)
(* exact: what happens in between is the subject of ProcessManager.        *)
(* CountSamples counts the newest samples in range, so that number, up to  *)
(* the size of the window, stands for the window.  An offset event goes to *)
(* the clock manager through a channel: the sample is in the window before *)
(* or after the conditions are evaluated for its event.                    *)
(***************************************************************************)
EXTENDS Naturals, Sequences, FiniteSets

CONSTANTS
  StartProfiles,  \* [type : {"T-GM", "T-BC"}, failover, phc2sys : BOOLEAN]
  OffsetWindow,   \* samples in a window (10 in the code)
  OffsetCount,    \* more samples than this are needed (3 in the code)
  QueueCap,       \* capacity of eventsIn (100)
  MayDie,         \* the processes that may exit by themselves
  MaxTurmoil      \* bound: such exits, and profile applies after the first

VARIABLES
  startProfile,
  procState,   \* of each process object: Created, Running, Stopped or Dead
  reports,     \* process status events not sent yet
  queue,       \* eventsIn
  samples,     \* per source: the newest samples in range
  latched,     \* All.met of the ts2phc condition of a T-BC
  pcfsm,       \* ntpFailoverPluginData.pcfsmState
  expired,     \* the clock is past expiryTime
  stable,      \* the time source is good
  turmoil      \* exits and applies so far

startVars == <<startProfile, procState, reports, queue, samples, latched, pcfsm, expired,
               stable, turmoil>>

IsGM == startProfile.type = "T-GM"
Failover == startProfile.failover
Process ==
  IF IsGM THEN {"gpsd", "gpspipe", "ts2phc", "phc2sys"} \cup (IF Failover THEN {"chronyd"} ELSE {})
  ELSE {"ptp4l", "ts2phc"} \cup (IF startProfile.phc2sys THEN {"phc2sys"} ELSE {})

(***************************************************************************)
(* Conditions.                                                             *)
(***************************************************************************)
Offset(src) == [on |-> "offset", of |-> src]
ProcessUp(src) == [on |-> "up", of |-> src]
PluginEvent(name) == [on |-> name, of |-> "ntpfailover"]
Immediate == [on |-> "immediate", of |-> ""]
Never == [on |-> "never", of |-> ""]

phc2sysOffsetStartCondition == Offset(IF IsGM THEN "ts2phc" ELSE "ptp4l")
ts2phcConditionsForTBC ==
  {Offset("ptp4l")} \cup (IF startProfile.phc2sys THEN {Offset("phc2sys")} ELSE {})

(* ActionStart and ActionStop, a condition that combines others as a set:  *)
(* the children of Any, or of All for the ts2phc of a T-BC.                *)
StartOn(p) ==
  CASE p \in {"gpsd", "ptp4l"} -> {Immediate}
    [] p = "gpspipe" -> {ProcessUp("gpsd")}
    [] p = "ts2phc" -> IF IsGM THEN {ProcessUp("gpspipe")} ELSE ts2phcConditionsForTBC
    [] p = "phc2sys" -> {phc2sysOffsetStartCondition}
                        \cup (IF Failover THEN {PluginEvent("recovered")} ELSE {})
    [] p = "chronyd" -> {PluginEvent("failover")}
StopOn(p) ==
  CASE p = "phc2sys" /\ Failover -> {PluginEvent("failover")}
    [] p = "chronyd" -> {PluginEvent("recovered")}
    [] OTHER -> {Never}
IsAll(p) == p = "ts2phc" /\ ~IsGM

(* An event is an offset, a process status, a plugin event or a reset. *)
MetBy(c, ev, seen) ==
  CASE c.on = "immediate" -> TRUE
    [] c.on = "never" -> FALSE
    [] c.on = "offset" -> ev.on = "offset" /\ ev.of = c.of /\ ev.good /\ seen[c.of] > OffsetCount
    [] OTHER -> ev.on = c.on /\ ev.of = c.of

(* All remembers what was met since it last was met as a whole; a reset    *)
(* event makes it forget.                                                  *)
Latch(ev, seen) ==
  IF ev.on = "reset" THEN {} ELSE latched \cup {c \in ts2phcConditionsForTBC : MetBy(c, ev, seen)}
Evaluated(p, ev, seen) ==
  IF IsAll(p) THEN ev.on # "reset" /\ Latch(ev, seen) = ts2phcConditionsForTBC
  ELSE \E c \in StartOn(p) : MetBy(c, ev, seen)

(* evalActions for one process.  A process that was stopped, or is dead    *)
(* and has a condition, is started again on its start condition.           *)
After(p, ev, seen, now) ==
  CASE now = "Running" -> IF \E c \in StopOn(p) : MetBy(c, ev, seen) THEN "Stopped" ELSE now
    [] now = "Dead" /\ StartOn(p) = {Immediate} -> now
    [] OTHER -> IF Evaluated(p, ev, seen) THEN "Running" ELSE now
(* The Up events somebody waits for; Down of a stopped process is ignored. *)
Reports(old, new) ==
  reports \cup {c \in UNION {StartOn(p) : p \in Process} :
                   c.on = "up" /\ old[c.of] # "Running" /\ new[c.of] = "Running"}

(* The clock manager inserts the sample; a reset empties the windows. *)
Inserted(ev) ==
  CASE ev.on = "reset" -> [s \in DOMAIN samples |-> 0]
    [] ev.on = "offset" -> [samples EXCEPT ![ev.of] =
                              IF ~ev.near THEN 0 ELSE IF @ = OffsetWindow THEN @ ELSE @ + 1]
    [] OTHER -> samples

(* processEvents: a dead process is restarted on its Down event, any other *)
(* event goes to the clock manager, then the conditions are evaluated.     *)
processEvents ==
  /\ queue # <<>> /\ queue' = Tail(queue)
  /\ LET ev == Head(queue)
         revived == [p \in Process |-> IF ev.on = "down" /\ ev.of = p /\ procState[p] = "Dead"
                                       THEN "Running" ELSE procState[p]]
         waits == revived["ts2phc"] # "Running" /\ ~IsGM
     IN \E seen \in {samples, Inserted(ev)} :
          /\ procState' = [p \in Process |-> After(p, ev, seen, revived[p])]
          /\ latched' = IF ~waits THEN latched
                        ELSE IF procState'["ts2phc"] = "Running" THEN {} ELSE Latch(ev, seen)
          /\ reports' = Reports(procState, procState') /\ samples' = Inserted(ev)
  /\ UNCHANGED <<startProfile, pcfsm, expired, stable, turmoil>>

(***************************************************************************)
(* The processes.                                                          *)
(***************************************************************************)
Send(evs) == Len(queue) + Len(evs) <= QueueCap /\ queue' = queue \o evs

sendProcessStatusEvent(r) ==
  /\ r \in reports /\ Send(<<r>>) /\ reports' = reports \ {r}
  /\ UNCHANGED <<startProfile, procState, samples, latched, pcfsm, expired, stable,
                 turmoil>>

(* ts2phc that exits offers a reset event without blocking. *)
Exit(p) ==
  /\ p \in MayDie /\ procState[p] = "Running" /\ turmoil < MaxTurmoil /\ turmoil' = turmoil + 1
  /\ procState' = [procState EXCEPT ![p] = "Dead"]
  /\ reports' = reports \cup {[on |-> "down", of |-> p]}
  /\ queue' = IF p = "ts2phc" /\ Len(queue) < QueueCap
              THEN Append(queue, [on |-> "reset", of |-> p]) ELSE queue
  /\ UNCHANGED <<startProfile, samples, latched, pcfsm, expired, stable>>

(* The phc2sys/chronyd state machine of the plugin, for a line of ts2phc   *)
(* (mine) or of another process: the state it ends in and what it emits.   *)
Plugin(name) == [on |-> name, of |-> "ntpfailover"]
processLogNtpFailover(state, mine, late) ==
  CASE ~Failover -> [state |-> state, emits |-> <<>>]
    [] state \in {"startup", "active"} ->
         LET first == IF state = "startup" THEN <<Plugin("recovered")>> ELSE <<>>
         IN IF mine /\ late
            THEN [state |-> "failover", emits |-> Append(first, Plugin("failover"))]
            ELSE [state |-> "active", emits |-> first]
    [] OTHER ->
         IF mine /\ ~late
         THEN [state |-> "active", emits |-> <<Plugin("recovered"), Plugin("recovered")>>]
         ELSE [state |-> state, emits |-> <<>>]

(* A line of a running process: an offset whose state is LOCKED (good) and *)
(* which is below the limit (near), of ts2phc with servo state s3 or not,  *)
(* or a line without an offset.  A stable source gives good offsets, and   *)
(* whether the servo says s3 matters to the failover plugin only.          *)
Kind(good, near, s3) == [good |-> good, near |-> near, s3 |-> s3]
Kinds == IF stable THEN {Kind(TRUE, TRUE, TRUE)}
         ELSE {Kind(TRUE, FALSE, FALSE), Kind(FALSE, TRUE, FALSE)}
              \cup (IF Failover THEN {Kind(TRUE, TRUE, FALSE)} ELSE {})
OffsetEvent(p, k) == [on |-> "offset", of |-> p, good |-> k.good, near |-> k.near]
Watched == {c.of : c \in {d \in UNION {StartOn(p) : p \in Process} : d.on = "offset"}}
processOutput(p, k, hasOffset) ==
  /\ p \in Process /\ procState[p] = "Running"
  /\ LET late == expired /\ ~(p = "ts2phc" /\ hasOffset /\ k.s3)
         r == processLogNtpFailover(pcfsm, p = "ts2phc", late)
     IN /\ pcfsm' = r.state /\ expired' = late
        /\ Send(r.emits \o IF hasOffset /\ p \in Watched THEN <<OffsetEvent(p, k)>> ELSE <<>>)
  /\ UNCHANGED <<startProfile, procState, reports, samples, latched, stable, turmoil>>

(* The tolerance or the startup delay runs out.  The delay is taken to be  *)
(* longer than ts2phc needs for its first line: if a re-apply found the    *)
(* machine in failover and it ran out before that line, the machine would  *)
(* stay there without telling the new chronyd.                             *)
TimePasses ==
  /\ Failover /\ ~expired /\ pcfsm # "failover" /\ expired' = TRUE
  /\ UNCHANGED <<startProfile, procState, reports, queue, samples, latched, pcfsm, stable,
                 turmoil>>
SourceChanges ==
  /\ stable' = ~stable
  /\ UNCHANGED <<startProfile, procState, reports, queue, samples, latched, pcfsm, expired,
                 turmoil>>

(* Every process object is new; the plugin keeps its state but gives ts2phc *)
(* its startup delay again (onPTPConfigChangeNtpFailover).                  *)
Started == [p \in Process |-> IF StartOn(p) = {Immediate} THEN "Running" ELSE "Created"]
Unstarted == [p \in Process |-> "Created"]
(* Mutant: a re-apply leaves the expiry time of the old configuration. *)
Reapply_KeepsExpiry ==
  /\ turmoil < MaxTurmoil /\ turmoil' = turmoil + 1
  /\ procState' = Started /\ reports' = Reports(Unstarted, Started)
  /\ samples' = [s \in DOMAIN samples |-> 0] /\ latched' = {}
  /\ UNCHANGED <<expired, startProfile, queue, pcfsm, stable>>
Reapply ==
  /\ turmoil < MaxTurmoil /\ turmoil' = turmoil + 1
  /\ procState' = Started /\ reports' = Reports(Unstarted, Started)
  /\ samples' = [s \in DOMAIN samples |-> 0] /\ latched' = {} /\ expired' = FALSE
  /\ UNCHANGED <<startProfile, queue, pcfsm, stable>>

StartInit ==
  /\ startProfile \in StartProfiles
  /\ procState = Started
  /\ reports = {c \in UNION {StartOn(p) : p \in Process} : c.on = "up" /\ Started[c.of] = "Running"}
  /\ queue = <<>>
  /\ samples = [s \in {"ptp4l", "phc2sys", "ts2phc"} |-> 0] /\ latched = {}
  /\ pcfsm = "startup" /\ expired = FALSE /\ stable \in BOOLEAN
  /\ turmoil = 0

Sources == {"ptp4l", "phc2sys", "ts2phc"}
OffsetLine(p) == \E k \in Kinds : processOutput(p, k, TRUE)
OtherLine(p) == Failover /\ processOutput(p, CHOOSE k \in Kinds : TRUE, FALSE)
StatusLine == \E r \in reports : sendProcessStatusEvent(r)
StartNext ==
  \/ processEvents \/ StatusLine
  \/ \E p \in Sources : OffsetLine(p) \/ OtherLine(p)
  \/ \E p \in MayDie \cap Process : Exit(p)
  \/ TimePasses \/ SourceChanges \/ Reapply
(* The loops run, blocked senders get their turn in order, time passes and *)
(* a running process goes on logging.                                      *)
StartFairness ==
  /\ WF_startVars(processEvents) /\ WF_startVars(TimePasses)
  /\ SF_startVars(StatusLine)
  /\ \A p \in Sources : SF_startVars(OffsetLine(p))
-----------------------------------------------------------------------------
Runs(p) == p \in Process => procState[p] = "Running"

(* With a source that stays good the whole chain of waiting processes is   *)
(* running in the end: nobody waits for an event that is not coming        *)
(* (phc2sysOffsetStartCondition, ts2phcConditionsForTBC, setupGPSDAndGPSPipe). *)
ChainStarts == <>[]stable => []<>(Runs("ts2phc") /\ Runs("phc2sys"))

(* While GNSS stays lost chronyd keeps the system clock, whatever was      *)
(* queued, applied or restarted before (processLogNtpFailover).            *)
LossHandsOver == <>[]~stable => []<>Runs("chronyd")
=============================================================================
