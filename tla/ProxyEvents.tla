----------------------------- MODULE ProxyEvents -----------------------------
(***************************************************************************)
(* The PTP plugin of the cloud-event proxy that reads the log lines of the *)
(* PTP processes (pkg/cloud-event-proxy/plugins/ptp_operator): the stats   *)
(* it keeps for one ptp4l configuration and for chronyd's, the events it   *)
(* publishes, the holdover timer of an ordinary clock, the window in which *)
(* it decides whether phc2sys still disciplines the system clock, and a    *)
(* restart of the proxy, which keeps only the overall state.               *)
(*                                                                         *)
(* A log line is a step of its own; what the line says is chosen freely,   *)
(* since lines are lost while the socket reconnects.  An offset is in      *)
(* range or not.  A line is handled under extractMu and so is a settle     *)
(* callback; the goroutine of a holdover timer takes no lock.  A handler   *)
(* is one step up to its publications: it reads and writes a state once,   *)
(* so a write of the timer in between has the outcome of one before it.    *)
(* Each publication is then the event, the comparison of the overall state *)
(* and its update, in steps of their own.  Metrics, offsets, clock class   *)
(* and the GNSS, DPLL and SyncE lines are left out.                        *)
(***************************************************************************)
EXTENDS Naturals, Sequences

CONSTANTS
  ProxyProfiles,   \* [type : {"OC", "T-BC", "T-GM"}, chronyd : BOOLEAN]
  ProxyPorts       \* the ports of the ptp4l configuration

ASSUME ProxyAssumption == ProxyProfiles \subseteq [type : {"OC", "T-BC", "T-GM"}, chronyd : BOOLEAN]

VARIABLES
  profile,   \* the profile of the configuration
  stat,      \* Stats: the clocks with a record, [state, proc, alias]
  slaves,    \* Ptp4lConfigInterfaces: the ports whose role is SLAVE
  source,    \* masterOffsetSource
  gmState,   \* lastOverallGMState
  overall,   \* lastOverallSyncState, also what metrics.json holds
  phase,     \* OsClockDiscipline.phase
  settle,    \* the settle timer runs
  settled,   \* a settle callback of this generation waits for extractMu
  timer,     \* a holdover goroutine waits on the threshold's channel
  todo,      \* publications still to be made by the reader and by the timer
  told,      \* the last state subscribers got per event type
  silent     \* history: the main clock changed state without an event

proxyVars == <<profile, stat, slaves, source, gmState, overall, phase, settle, settled,
               timer, todo, told, silent>>

Clocks == {"master", "realtime", "T-BC", "GM", "nic", "chronyd"}
SyncStates == {"FREERUN", "HOLDOVER", "LOCKED"}
Known(k) == k \in DOMAIN stat
Has(s, k) == k \in DOMAIN s
Reader == todo.reader = <<>>   \* extractMu is free

OverallState(current, updated) ==
  CASE current = "" -> updated
    [] updated = "FREERUN" -> "FREERUN"
    [] updated = "HOLDOVER" -> IF current = "FREERUN" THEN current ELSE updated
    [] OTHER -> current

GetMainClockName(s) ==
  IF Has(s, "GM") THEN "GM" ELSE IF Has(s, "T-BC") THEN "T-BC" ELSE "master"

ChronydActiveAsE3 == Known("chronyd") /\ stat["chronyd"].state # ""

(* The clocks whose states make the state of the node. *)
NodeClocks ==
  LET main == GetMainClockName(stat)
  IN {k \in DOMAIN stat : /\ stat[k].state # ""
                          /\ k \in {"realtime", "chronyd", main}
                             \/ (k = "master" /\ main # "T-BC")
                          /\ ~(k = "realtime" /\ ChronydActiveAsE3)}
Worst(states, current) ==
  IF "FREERUN" \in states \cup {current} THEN "FREERUN"
  ELSE IF "HOLDOVER" \in states \cup {current} THEN "HOLDOVER" ELSE "LOCKED"
GetNodeSyncState(current) == Worst({stat[k].state : k \in NodeClocks}, current)

(***************************************************************************)
(* Handlers work on a context: the stats, the publications they make and   *)
(* whether the holdover goroutine still waits.                             *)
(***************************************************************************)
Context == [stat |-> stat, pubs |-> <<>>, timer |-> timer, silent |-> silent]
Event(type, state) == [step |-> "event", type |-> type, state |-> state]

CheckSource(c, k, proc) ==
  IF Has(c.stat, k) THEN c
  ELSE [c EXCEPT !.stat = [j \in DOMAIN c.stat \cup {k} |->
          IF j = k THEN [state |-> "", proc |-> proc, alias |-> FALSE] ELSE c.stat[j]]]
SetProcess(c, k, proc) == [CheckSource(c, k, proc) EXCEPT !.stat[k].proc = proc]

(* The state after a line that says clock, with the offset in range or not. *)
NewState(last, clock, in) ==
  IF clock # "LOCKED" THEN clock
  ELSE IF in THEN "LOCKED" ELSE IF last = "HOLDOVER" THEN last ELSE "FREERUN"

(* Mutant: the event is left to the timer for every clock. *)
LeftToTimer_AnyType(last, clock, type) == last = "HOLDOVER" /\ clock = "FREERUN"

(* FREERUN after HOLDOVER is stored, but for the PTP clock the event is left *)
(* to the holdover timer.  A lock in range cancels that timer.               *)
LeftToTimer(last, clock, type) == last = "HOLDOVER" /\ clock = "FREERUN" /\ type = "ptp"
Mute(c, k, last, new, type, left) ==
  IF type # "ptp" \/ c.silent = "torn" \/ (new = last /\ ~left) THEN c.silent
  ELSE IF left \/ k = "nic" THEN "yes" ELSE "no"

(* Mutant: a lock out of range cancels the timer too. *)
GenPTPEvent_CancelsOutOfRange(c, k, clock, in, type) ==
  LET last == c.stat[k].state
      new == NewState(last, clock, in)
      left == LeftToTimer(last, clock, type)
  IN [c EXCEPT !.stat[k].state = new,
               !.timer = @ /\ ~(last = "HOLDOVER" /\ clock = "LOCKED"),
               !.silent = Mute(c, k, last, new, type, left),
               !.pubs = IF new = last \/ left THEN @ ELSE Append(@, Event(type, new))]

GenPTPEvent(c, k, clock, in, type) ==
  LET last == c.stat[k].state
      new == NewState(last, clock, in)
      left == LeftToTimer(last, clock, type)
  IN [c EXCEPT !.stat[k].state = new,
               !.timer = @ /\ ~(last = "HOLDOVER" /\ clock = "LOCKED" /\ in),
               !.silent = Mute(c, k, last, new, type, left),
               !.pubs = IF new = last \/ left THEN @ ELSE Append(@, Event(type, new))]

(* A change that is published without GenPTPEvent. *)
PublishChange(c, k, clock) ==
  [c EXCEPT !.stat[k].state = clock,
            !.silent = Mute(c, k, c.stat[k].state, clock, "ptp", FALSE),
            !.pubs = IF clock = c.stat[k].state THEN @ ELSE Append(@, Event("ptp", clock))]
SetQuietly(c, k, clock) ==
  [c EXCEPT !.stat[k].state = clock,
            !.silent = IF @ = "torn" \/ k # GetMainClockName(c.stat) \/ clock = c.stat[k].state
                       THEN @ ELSE "yes"]
SetAlias(c, k) == [c EXCEPT !.stat[k].alias = TRUE]

Handle(c) ==
  /\ stat' = c.stat /\ timer' = c.timer /\ silent' = c.silent
  /\ todo' = [todo EXCEPT !.reader = c.pubs]
  /\ UNCHANGED <<profile, overall, told>>

(* What ExtractMetrics does first: the master's process is the source. *)
Source == IF Known("master") THEN stat["master"].proc ELSE source
Line == Reader /\ source' = Source

KeepsWindow == UNCHANGED <<phase, settle, settled>>

(***************************************************************************)
(* Lines of ptp4l, ts2phc and the daemon's own status lines.               *)
(***************************************************************************)
IsTBC == profile.type = "T-BC"

(* ptp4l: master offset.  Without a slave port only the process is noted. *)
MasterOffset(clock, in) ==
  /\ Line /\ profile.type # "T-GM"
  /\ LET c == SetProcess(Context, "master", "ptp4l")
         said == IF Source = "ts2phc" /\ gmState = "FREERUN" THEN "FREERUN" ELSE clock
     IN Handle(IF slaves = {} THEN c
               ELSE IF IsTBC THEN SetQuietly(SetAlias(c, "master"), "master", said)
               ELSE GenPTPEvent(SetAlias(c, "master"), "master", said, in, "ptp"))
  /\ KeepsWindow /\ UNCHANGED <<slaves, gmState>>

(* ts2phc: offset of a NIC.  No record of the master ever depends on the GM *)
(* process, so without T-BC every ts2phc line takes the first branch.  The   *)
(* record a T-BC keeps for the NIC is a metric only.                        *)
NicOffset(clock, in) ==
  /\ Line /\ profile.type # "OC"
  /\ LET c == SetProcess(Context, "master", "ts2phc")
         nic == SetAlias(CheckSource(c, "nic", "ts2phc"), "nic")
     IN Handle(IF IsTBC THEN c ELSE GenPTPEvent(nic, "nic", clock, in, "ptp"))
  /\ KeepsWindow /\ UNCHANGED <<slaves, gmState>>

(* The T-GM status line panics, recovered, while no line of the NIC came. *)
ParseGMLogs(clock) ==
  /\ Line /\ profile.type = "T-GM"
  /\ LET c == SetAlias(CheckSource(Context, "GM", "ts2phc"), "GM")
     IN /\ Handle(IF Known("nic") THEN PublishChange(c, "GM", clock) ELSE c)
        /\ gmState' = IF Known("nic") /\ clock # c.stat["GM"].state THEN clock ELSE gmState
  /\ KeepsWindow /\ UNCHANGED slaves

ParseTBCLogs(clock) ==
  /\ Line /\ IsTBC
  /\ Handle(PublishChange(SetAlias(CheckSource(Context, "T-BC", "ts2phc"), "T-BC"), "T-BC", clock))
  /\ KeepsWindow /\ UNCHANGED <<slaves, gmState>>

(* Role and state that extractPTP4lEventState reads from a port line. *)
PortLines == {<<"SLAVE", "FREERUN">>, <<"PASSIVE", "FREERUN">>, <<"MASTER", "FREERUN">>,
              <<"LISTENING", "FREERUN">>, <<"FAULTY", "HOLDOVER">>, <<"MASTER", "HOLDOVER">>,
              <<"LISTENING", "HOLDOVER">>}

(* A slave port that is lost puts the master into HOLDOVER and starts the  *)
(* timer on a new channel, which ends the goroutine of an earlier one.     *)
EnterHoldover(c) ==
  IF c.stat["master"].proc # Source THEN c
  ELSE [PublishChange(c, "master", "HOLDOVER") EXCEPT !.timer = TRUE]
ParsePTP4l(p, role, clock) ==
  /\ Line
  /\ profile.type = "T-GM" => role # "SLAVE"
  /\ LET init == role = "SLAVE" \/ Source = "ts2phc"
         c == IF init THEN CheckSource(CheckSource(Context, "realtime", "phc2sys"), "master", Source)
              ELSE Context
         lost == p \in slaves /\ Has(c.stat, "master")
     IN Handle(IF IsTBC
               THEN IF lost /\ role = "FAULTY" /\ c.stat["master"].alias
                    THEN SetQuietly(c, "master", "FREERUN") ELSE c
               ELSE IF lost /\ clock = "HOLDOVER" /\ c.stat["master"].state # "HOLDOVER"
                    THEN EnterHoldover(c) ELSE c)
  /\ slaves' = IF role = "SLAVE" THEN slaves \cup {p} ELSE slaves \ {p}
  /\ KeepsWindow /\ UNCHANGED gmState

(* PTP_PROCESS_STATUS 0, which is handled before the source is looked up. *)
DownTs2phc ==
  LET down == {"nic", "GM", "T-BC"} \cap DOMAIN stat
  IN [Context EXCEPT !.stat = [k \in DOMAIN stat |->
                        IF k \in down THEN [stat[k] EXCEPT !.state = "FREERUN"] ELSE stat[k]],
                     !.silent = IF @ = "torn" \/ \A k \in down : stat[k].state = "FREERUN"
                                THEN @ ELSE "yes"]
DownOther(proc) ==
  LET c1 == IF IsTBC /\ proc = "ptp4l" /\ Known("T-BC")
            THEN GenPTPEvent(Context, "T-BC", "FREERUN", FALSE, "ptp") ELSE Context
      c2 == IF source = proc /\ stat["master"].alias
            THEN GenPTPEvent(c1, "master", "FREERUN", FALSE, "ptp") ELSE c1
  IN IF Known("realtime") /\ ~profile.chronyd
     THEN GenPTPEvent(c2, "realtime", "FREERUN", FALSE, "os") ELSE c2
processDownEvent(proc) ==
  /\ Reader
  /\ proc = "ts2phc" => profile.type # "OC"
  /\ Handle(IF proc = "ts2phc" THEN DownTs2phc ELSE DownOther(proc))
  /\ KeepsWindow /\ UNCHANGED <<slaves, source, gmState>>

(* chronyd's lines carry a configuration of their own. *)
ChronydLine(clock) ==
  /\ Reader /\ profile.chronyd
  /\ Handle(GenPTPEvent(CheckSource(Context, "chronyd", "chronyd"), "chronyd", clock, TRUE, "os"))
  /\ KeepsWindow /\ UNCHANGED <<slaves, source, gmState>>

(***************************************************************************)
(* Lines of phc2sys, and the window of os_clock_discipline.go.             *)
(***************************************************************************)
IsWindowOpen == phase \in {"selecting", "sourceSelected"}
StopSettle == settle' = FALSE
WithRealtime == CheckSource(Context, "realtime", "phc2sys")
publishOsClockFreerunUndisciplined(c) ==
  IF profile.chronyd THEN c ELSE GenPTPEvent(c, "realtime", "FREERUN", FALSE, "os")

Phc2sysLine == Line /\ UNCHANGED <<slaves, gmState>>
Quietly == Handle(WithRealtime)

(* CLOCK_REALTIME phc offset: the system clock is disciplined, and its     *)
(* state is no better than the main clock's.  The second call of           *)
(* GenPTPEvent for the same line finds the state as the first left it.     *)
E1State ==
  LET main == IF IsTBC THEN "T-BC" ELSE GetMainClockName(stat)
  IN IF Known(main) /\ stat[main].state # "" THEN stat[main].state
     ELSE IF IsTBC THEN "FREERUN" ELSE ""
RealtimeState(clock) ==
  LET said == IF Source = "ts2phc" /\ gmState = "FREERUN" THEN "FREERUN" ELSE clock
  IN IF E1State = "" THEN said ELSE OverallState(said, E1State)

(* Mutant: an offset line leaves the selection window open. *)
RealtimeOffset_KeepsWindow(clock, in) ==
  /\ Phc2sysLine
  /\ Handle(GenPTPEvent(SetProcess(WithRealtime, "realtime", "phc2sys"), "realtime",
                        RealtimeState(clock), in, "os"))
  /\ KeepsWindow

RealtimeOffset(clock, in) ==
  /\ Phc2sysLine
  /\ Handle(GenPTPEvent(SetProcess(WithRealtime, "realtime", "phc2sys"), "realtime",
                        RealtimeState(clock), in, "os"))
  /\ phase' = "idle" /\ StopSettle /\ UNCHANGED settled

Begin == Phc2sysLine /\ Quietly /\ phase' = "selecting" /\ StopSettle /\ settled' = FALSE
Abort ==
  /\ Phc2sysLine /\ Quietly
  /\ phase' = IF IsWindowOpen THEN "idle" ELSE phase
  /\ settle' = (settle /\ ~IsWindowOpen) /\ UNCHANGED settled
ReArmSettle ==
  /\ Phc2sysLine /\ Quietly
  /\ settle' = (settle \/ phase = "sourceSelected") /\ UNCHANGED <<phase, settled>>
SourceClockSelected ==
  /\ Phc2sysLine /\ Quietly
  /\ IF IsWindowOpen THEN phase' = "sourceSelected" /\ settle' = TRUE
     ELSE UNCHANGED <<phase, settle>>
  /\ UNCHANGED settled
SinkClockSelected ==
  Phc2sysLine /\ Quietly /\ phase' = "idle" /\ StopSettle /\ UNCHANGED settled

Finalise(c) ==
  /\ Handle(IF phase = "sourceSelected" THEN publishOsClockFreerunUndisciplined(c) ELSE c)
  /\ phase' = CASE phase = "sourceSelected" -> "undisciplined"
                [] phase = "selecting" -> "idle"
                [] OTHER -> phase
  /\ StopSettle
(* "already selected", or the offset of a NIC. *)
FinaliseLine ==
  /\ Phc2sysLine
  /\ IF IsWindowOpen THEN Finalise(WithRealtime) ELSE Quietly /\ UNCHANGED <<phase, settle>>
  /\ UNCHANGED settled

(* The settle timer fires; its callback then waits for extractMu.  Begin   *)
(* makes a new generation and the callbacks of the old one do nothing.     *)
SettleFires ==
  /\ settle /\ settle' = FALSE /\ settled' = TRUE
  /\ UNCHANGED <<profile, stat, slaves, source, gmState, overall, phase, timer, todo, told,
                 silent>>
FinaliseIfGeneration ==
  /\ Reader /\ settled /\ settled' = FALSE
  /\ Finalise(Context)
  /\ UNCHANGED <<slaves, source, gmState>>

(***************************************************************************)
(* The holdover goroutine and the publications.                            *)
(***************************************************************************)
(* The timer fires: it acts if the master is still in HOLDOVER and named. *)
handleHoldOverState ==
  /\ timer /\ todo.timer = <<>> /\ timer' = FALSE
  /\ todo' = [todo EXCEPT !.timer =
                IF Known("master") /\ stat["master"].state = "HOLDOVER" /\ stat["master"].alias
                THEN <<[step |-> "expire", type |-> "ptp", state |-> "FREERUN"]>> ELSE <<>>]
  /\ UNCHANGED <<profile, stat, slaves, source, gmState, overall, phase, settle, settled,
                 told, silent>>

Other(who) == IF who = "reader" THEN "timer" ELSE "reader"
Then(who, step) == [todo EXCEPT ![who] = <<[Head(@) EXCEPT !.step = step]>> \o Tail(@)]
Done(who) == [todo EXCEPT ![who] = Tail(@)]
Torn(who) == IF todo[Other(who)] # <<>> THEN "torn" ELSE silent
Publishing(who, step) ==
  /\ todo[who] # <<>> /\ Head(todo[who]).step = step /\ silent' = Torn(who)
  /\ UNCHANGED <<profile, slaves, source, gmState, phase, settle, settled, timer>>

Expire ==
  /\ Publishing("timer", "expire")
  /\ stat' = [stat EXCEPT !["master"].state = "FREERUN"]
  /\ todo' = Then("timer", "event") /\ UNCHANGED <<overall, told>>
PublishEvent(who) ==
  /\ Publishing(who, "event")
  /\ told' = [told EXCEPT ![Head(todo[who]).type] = Head(todo[who]).state]
  /\ todo' = Then(who, "compare") /\ UNCHANGED <<stat, overall>>
CompareOverall(who) ==
  /\ Publishing(who, "compare")
  /\ LET node == GetNodeSyncState(Head(todo[who]).state)
     IN IF node = overall THEN todo' = Done(who) /\ UNCHANGED told
        ELSE /\ told' = [told EXCEPT !.sync = node]
             /\ todo' = [todo EXCEPT ![who] = <<[Head(@) EXCEPT !.step = "update", !.state = node]>>
                                              \o Tail(@)]
  /\ UNCHANGED <<stat, overall>>
UpdateSyncState(who) ==
  /\ Publishing(who, "update")
  /\ overall' = Head(todo[who]).state
  /\ todo' = Done(who) /\ UNCHANGED <<stat, told>>

(* The daemon asks for a restart, or the proxy dies.  Start loads the      *)
(* overall state; the saved port roles find no configuration yet and are   *)
(* dropped, and the configuration files give each port its first role.     *)
FirstSlaves == IF profile.type = "T-GM" THEN {} ELSE ProxyPorts
InUpdate == \E who \in {"reader", "timer"} : todo[who] # <<>> /\ Head(todo[who]).step = "update"
restartProcess ==
  /\ stat' = << >> /\ slaves' = FirstSlaves /\ source' = ""
  /\ gmState' = "" /\ phase' = "idle" /\ settle' = FALSE /\ settled' = FALSE
  /\ timer' = FALSE /\ todo' = [reader |-> <<>>, timer |-> <<>>]
  /\ silent' = IF silent = "torn" \/ InUpdate THEN "torn" ELSE "no"
  /\ UNCHANGED <<profile, overall, told>>

ProxyInit ==
  /\ profile \in ProxyProfiles
  /\ stat = << >> /\ slaves = FirstSlaves /\ source = ""
  /\ gmState = "" /\ overall = "" /\ phase = "idle" /\ settle = FALSE /\ settled = FALSE
  /\ timer = FALSE
  /\ todo = [reader |-> <<>>, timer |-> <<>>]
  /\ told = [ptp |-> "", os |-> "", sync |-> ""] /\ silent = "no"

LineStep ==
  \/ \E clock \in {"FREERUN", "LOCKED"}, in \in BOOLEAN :
        MasterOffset(clock, in) \/ RealtimeOffset(clock, in)
  \/ \E clock \in SyncStates, in \in BOOLEAN : NicOffset(clock, in)
  \/ \E clock \in SyncStates : ParseGMLogs(clock) \/ ParseTBCLogs(clock)
  \/ \E p \in ProxyPorts, l \in PortLines : ParsePTP4l(p, l[1], l[2])
  \/ \E proc \in {"ptp4l", "phc2sys", "ts2phc"} : processDownEvent(proc)
  \/ \E clock \in {"FREERUN", "LOCKED"} : ChronydLine(clock)
  \/ Begin \/ Abort \/ ReArmSettle \/ SourceClockSelected \/ SinkClockSelected \/ FinaliseLine
PublishStep(who) ==
  \/ who = "timer" /\ Expire
  \/ PublishEvent(who) \/ CompareOverall(who) \/ UpdateSyncState(who)
ProxyNext == LineStep \/ SettleFires \/ FinaliseIfGeneration \/ handleHoldOverState \/ restartProcess
             \/ \E who \in {"reader", "timer"} : PublishStep(who)
ProxyFairness ==
  WF_proxyVars(handleHoldOverState) /\ \A who \in {"reader", "timer"} : WF_proxyVars(PublishStep(who))
ProxySpec == ProxyInit /\ [][ProxyNext]_proxyVars /\ ProxyFairness
-----------------------------------------------------------------------------
(* What the proxy answers a subscriber that asks for the current state. *)
CurrentState(type) ==
  LET main == GetMainClockName(stat)
      os == IF ChronydActiveAsE3 THEN {"chronyd"} ELSE {"realtime"}
      of == CASE type = "ptp" -> {main} [] type = "os" -> os [] OTHER -> os \cup {main}
      states == {stat[k].state : k \in of \cap DOMAIN stat} \ {""}
  IN IF states = {} THEN "" ELSE Worst(states, "LOCKED")

(* Pulled and pushed states agree: when no publication is under way, the   *)
(* state the plugin answers for the system clock, the PTP clock and the    *)
(* node is the one its last event told, unless the main clock has changed  *)
(* without an event or the timer and the reader published together, and    *)
(* for the system clock unless phc2sys reports beside chronyd, whose lines *)
(* the plugin publishes both but answers only from chronyd                 *)
(* (PublishEvent, GenPTPEvent and getCurrentStatOverrideFn).               *)
PullAgreesWithPush ==
  (todo.reader = <<>> /\ todo.timer = <<>> /\ silent = "no") =>
     \A type \in {"ptp", "os", "sync"} :
        \/ CurrentState(type) \in {"", told[type]}
        \/ type # "ptp" /\ ChronydActiveAsE3 /\ Known("realtime")

(* While the window found the system clock undisciplined, its state is     *)
(* FREERUN, whatever the order of settle callbacks and selection lines     *)
(* (os_clock_discipline.go), unless chronyd owns the system clock.         *)
UndisciplinedIsFreerun ==
  (phase = "undisciplined" /\ ~profile.chronyd) => stat["realtime"].state = "FREERUN"

(* A holdover whose timer runs ends, by a lock, by a line or by the timer, *)
(* once the master has been named: no line may cancel the timer and leave  *)
(* the master in HOLDOVER (ParsePTP4l, GenPTPEvent, handleHoldOverState).  *)
InProxyHoldover == Known("master") /\ stat["master"].state = "HOLDOVER" /\ stat["master"].alias
ProxyHoldoverEnds == (timer /\ InProxyHoldover) ~> ~InProxyHoldover

(* Whatever GenPTPEvent leaves to the holdover timer is published by it:   *)
(* when no timer runs and nothing is being published, an ordinary clock    *)
(* in FREERUN has told so.                                                 *)
FreerunTold ==
  (/\ profile.type = "OC" /\ Known("master") /\ stat["master"].state = "FREERUN"
   /\ ~timer /\ todo.reader = <<>> /\ todo.timer = <<>> /\ silent # "torn")
  => told.ptp = "FREERUN"
=============================================================================
