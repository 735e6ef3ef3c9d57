--------------------------- MODULE ProcessManager ---------------------------
(***************************************************************************)
(* How linuxptp-daemon runs ptp4l, phc2sys, ts2phc, pmc and the others:    *)
(* the process manager's event loop with its start, stop and restart       *)
(* conditions (pkg/daemon/process_manager.go, pkg/process), the goroutine  *)
(* that runs one process (pkg/daemon/ptp_process.go, pmc.go), and the      *)
(* stop-all / create / start-all sequence of a profile apply               *)
(* (pkg/daemon/daemon.go).                                                 *)
(*                                                                         *)
(* Concurrent parties: the daemon goroutine applying profiles, the event   *)
(* loop processEvents, and one goroutine per started process.  A process   *)
(* object is <<name, gen>>: every apply creates new objects for the same   *)
(* names.  Each State() and each locked section of Start, Stop and run is  *)
(* one atomic step; forwarding to the clock manager is in ClockManager.    *)
(***************************************************************************)
EXTENDS Naturals, Sequences, FiniteSets, SequencesExt, Sublists

CONSTANTS
  Names,       \* process names, each with its config name
  Order,       \* forEachProcess: dependent processes before their parent
  Parent,      \* of a dependent process its parent, of the others itself
  Pmcs,        \* the processes that are PMCProcess objects
  StartOn,     \* ActionStart: "immediate", "go", or the name whose Up event starts it
  StopOnHalt,  \* names with an ActionStop condition, met by a "halt" event
  InCap,       \* capacity of eventsIn (100 in the code)
  MayFail,     \* the processes whose cmd.Start may return an error
  MaxApplies,  \* bound: profile applies
  Budgets,     \* bounds of a behaviour: [applies, deaths, data], the profiles applied, the
               \* processes that die or fail to start, which of "go" and "halt" are logged
  MaxStarts    \* bound: processes log events while none was started so often

ASSUME ProcessManagerAssumption ==
  /\ Order \in Seq(Names)
  /\ Parent \in [Names -> Names]
  /\ Pmcs \subseteq Names
  /\ StartOn \in [Names -> Names \cup {"immediate", "go"}]
  /\ StopOnHalt \subseteq Names \ Pmcs
  /\ MayFail \subseteq Names \ Pmcs
  /\ InCap \in Nat \ {0} /\ MaxApplies \in Nat /\ MaxStarts \in Nat
  /\ Budgets \subseteq [applies : 0..MaxApplies, deaths : Nat, data : SUBSET {"go", "halt"}]

State == {"Created", "Starting", "Running", "Stopping", "Stopped", "Dead"}
Objs  == Names \X (1..MaxApplies)

Up(n)   == [kind |-> "up", name |-> n]
Down(n) == [kind |-> "down", name |-> n]
Data(k) == [kind |-> k]
Event   == [kind : {"up", "down"}, name : Names] \cup [kind : {"go", "halt"}]

VARIABLES
  state,     \* process.State of every object
  runs,      \* goroutines of run(): [obj, id, pc]
  starts,    \* how often an object was started; ids of its goroutines
  stopCh,    \* objects whose stop channel is closed
  process,   \* the objects reachable through ProcessManager.process
  waiting,   \* ProcessManager.waitingProcess
  eventsIn,  \* processes -> process manager
  loop,      \* processEvents: [pc, ev, todo, changed]
  daemon,    \* the daemon goroutine: [pc, todo, gen]
  budget,    \* what the environment may still do, see Budgets
  panicked   \* stateTransitionAction reached its default case

procVars == <<state, runs, starts, stopCh>>
vars == <<procVars, process, waiting, eventsIn, loop, daemon, budget, panicked>>

(* The goroutine is at: begin (before cmd.Start), up (about to report Up), *)
(* wait (in cmd.Wait or Monitor), drain (deferred: wg.Wait), sawStopping   *)
(* or sawOther (State() read, not yet set), down (about to report Down).   *)
RunPC == {"begin", "up", "wait", "drain", "sawStopping", "sawOther", "down"}

NoEvent == [kind |-> "none"]

Init ==
  /\ state = [o \in Objs |-> "Created"] /\ runs = {}
  /\ starts = [o \in Objs |-> 0] /\ stopCh = {}
  /\ process = {} /\ waiting = <<>> /\ eventsIn = <<>>
  /\ loop = [pc |-> "off", ev |-> NoEvent, todo |-> <<>>, changed |-> FALSE]
  /\ daemon = [pc |-> "idle", todo |-> <<>>, gen |-> 0]
  /\ budget \in Budgets /\ panicked = FALSE

objects(g) == [n \in 1..Len(Order) |-> <<Order[n], g>>]

-----------------------------------------------------------------------------
(* Start and Stop of a process object. *)

(* Start returns early when the process is starting, running or stopping. *)
Start(o) ==
  IF state[o] \in {"Starting", "Running", "Stopping"} THEN UNCHANGED procVars
  ELSE /\ state' = [state EXCEPT ![o] = "Starting"]
       /\ starts' = [starts EXCEPT ![o] = @ + 1]
       /\ runs' = runs \cup {[obj |-> o, id |-> starts[o] + 1, pc |-> "begin"]}
       /\ stopCh' = stopCh \ {o}

(* Stop has no effect unless the process is starting or running. *)
Stop(o) ==
  IF state[o] \notin {"Starting", "Running"} THEN UNCHANGED procVars
  ELSE /\ state' = [state EXCEPT ![o] = "Stopping"]
       /\ stopCh' = stopCh \cup {o}
       /\ UNCHANGED <<runs, starts>>

-----------------------------------------------------------------------------
(* The goroutine of run(). *)

goTo(r, pc) == runs' = (runs \ {r}) \cup {[r EXCEPT !.pc = pc]}
Die == budget.deaths > 0 /\ budget' = [budget EXCEPT !.deaths = @ - 1]
runFrame == <<starts, stopCh, process, waiting, loop, daemon, panicked>>

RunBegin(r) ==
  /\ r.pc = "begin"
  /\ \/ /\ r.obj[1] \in Pmcs                       \* setProcessState(Running)
        /\ state' = [state EXCEPT ![r.obj] = "Running"] /\ goTo(r, "up")
        /\ UNCHANGED budget
     \/ /\ r.obj[1] \notin Pmcs /\ state[r.obj] = "Stopping"
        /\ goTo(r, "drain") /\ UNCHANGED <<state, budget>>
     \/ /\ r.obj[1] \notin Pmcs /\ state[r.obj] # "Stopping"
        /\ \/ state' = [state EXCEPT ![r.obj] = "Running"] /\ goTo(r, "up")
              /\ UNCHANGED budget
           \/ /\ r.obj[1] \in MayFail /\ Die
              /\ state' = [state EXCEPT ![r.obj] = "Dead"] /\ goTo(r, "drain")
  /\ UNCHANGED <<runFrame, eventsIn>>

(* Status events are sent with a blocking send. *)
SendUp(r) ==
  /\ r.pc = "up" /\ Len(eventsIn) < InCap
  /\ eventsIn' = Append(eventsIn, Up(r.obj[1]))
  /\ goTo(r, "wait")
  /\ UNCHANGED <<state, runFrame, budget>>

(* The child exits because it was told to, or by itself. *)
RunExit(r) ==
  /\ r.pc = "wait"
  /\ IF r.obj \in stopCh THEN UNCHANGED budget ELSE Die
  /\ goTo(r, "drain")
  /\ UNCHANGED <<state, runFrame, eventsIn>>

(* Deferred: ptpProcess waits for the other goroutines of the object, then *)
(* State() is read...                                                      *)
RunReadState(r) ==
  /\ r.pc = "drain"
  /\ \/ r.obj[1] \in Pmcs
     \/ \A q \in runs : q.obj = r.obj => q.pc \notin {"begin", "up", "wait"}
  /\ goTo(r, IF state[r.obj] = "Stopping" THEN "sawStopping" ELSE "sawOther")
  /\ UNCHANGED <<state, runFrame, eventsIn, budget>>

(* ...and set by a second call... *)
RunSetState(r) ==
  /\ r.pc \in {"sawStopping", "sawOther"}
  /\ state' = [state EXCEPT ![r.obj] = IF r.pc = "sawStopping" THEN "Stopped" ELSE "Dead"]
  /\ goTo(r, "down")
  /\ UNCHANGED <<runFrame, eventsIn, budget>>

(* Mutant: the event of a process that is down is dropped when full. *)
SendDown_Dropped(r) ==
  /\ r.pc = "down"
  /\ eventsIn' = IF Len(eventsIn) < InCap THEN Append(eventsIn, Down(r.obj[1])) ELSE eventsIn
  /\ runs' = runs \ {r}
  /\ UNCHANGED <<state, runFrame, budget>>

(* Mutant: the state is set once more when the event has been sent. *)
SendDown_SetsDead(r) ==
  /\ r.pc = "down" /\ Len(eventsIn) < InCap
  /\ eventsIn' = Append(eventsIn, Down(r.obj[1]))
  /\ runs' = runs \ {r}
  /\ state' = [state EXCEPT ![r.obj] = "Dead"]
  /\ UNCHANGED <<runFrame, budget>>

(* ...before the process manager is told. *)
SendDown(r) ==
  /\ r.pc = "down" /\ Len(eventsIn) < InCap
  /\ eventsIn' = Append(eventsIn, Down(r.obj[1]))
  /\ runs' = runs \ {r}
  /\ UNCHANGED <<state, runFrame, budget>>

(* A running process logs something its scanner forwards without blocking. *)
LogEvent(k) ==
  /\ k \in budget.data /\ \A o \in Objs : starts[o] < MaxStarts
  /\ \E r \in runs : r.pc = "wait"
  /\ Len(eventsIn) < InCap
  /\ eventsIn' = Append(eventsIn, Data(k))
  /\ UNCHANGED <<procVars, process, waiting, loop, daemon, budget, panicked>>

-----------------------------------------------------------------------------
(* The event loop. *)

(* A condition of kind c is met by event ev. *)
Met(c, ev) == \/ c = "immediate"
              \/ c = "go" /\ ev.kind = "go"
              \/ ev.kind = "up" /\ ev.name = c

(* Processes with a configured condition on their next transition. *)
waitingOnCondition(o) ==
  \/ state[o] \in {"Created", "Stopping", "Stopped", "Dead"} /\ StartOn[o[1]] # "immediate"
  \/ state[o] \in {"Starting", "Running"} /\ o[1] \in StopOnHalt

getWaitingProcesses ==
  SelectIn(objects(daemon.gen), {o \in process : waitingOnCondition(o)})

(* A process found by name is restarted if it is Dead. *)
handleProcessDown(ev) ==
  LET found == {o \in process : o[1] = ev.name /\ state[o] = "Dead"}
  IN  IF found = {} THEN UNCHANGED procVars ELSE \E o \in found : Start(o)

loopFrame == <<process, daemon, budget>>

LoopReceive ==
  LET ev == Head(eventsIn)
  IN  /\ loop.pc = "idle" /\ ~panicked /\ eventsIn # <<>>
      /\ eventsIn' = Tail(eventsIn)
      /\ IF ev.kind = "down" THEN handleProcessDown(ev) ELSE UNCHANGED procVars
      /\ loop' = [loop EXCEPT !.pc = "eval", !.ev = ev]
      /\ UNCHANGED <<loopFrame, waiting, panicked>>

(* evalActions iterates over the list as it is when the iteration starts. *)
EvalBegin ==
  /\ loop.pc = "eval" /\ ~panicked
  /\ loop' = [loop EXCEPT !.pc = "each", !.todo = waiting, !.changed = FALSE]
  /\ UNCHANGED <<loopFrame, procVars, waiting, eventsIn, panicked>>

(* One process: stateTransitionAction, then its condition. *)
EvalEach ==
  LET o  == Head(loop.todo)
      go == \/ state[o] \in {"Created", "Dead"} /\ Met(StartOn[o[1]], loop.ev)
            \/ /\ state[o] = "Stopped" /\ StartOn[o[1]] # "immediate"
               /\ Met(StartOn[o[1]], loop.ev)
      halt == state[o] = "Running" /\ o[1] \in StopOnHalt /\ loop.ev.kind = "halt"
  IN  /\ loop.pc = "each" /\ ~panicked /\ loop.todo # <<>>
      /\ panicked' = (state[o] \in {"Starting", "Stopping"})
      /\ IF go THEN Start(o) ELSE IF halt THEN Stop(o) ELSE UNCHANGED procVars
      /\ loop' = [loop EXCEPT !.todo = Tail(@), !.changed = @ \/ go \/ halt]
      /\ UNCHANGED <<loopFrame, waiting, eventsIn>>

EvalEnd ==
  /\ loop.pc = "each" /\ ~panicked /\ loop.todo = <<>>
  /\ waiting' = IF loop.changed THEN getWaitingProcesses ELSE waiting
  /\ loop' = [loop EXCEPT !.pc = "idle", !.ev = NoEvent, !.changed = FALSE]
  /\ UNCHANGED <<loopFrame, procVars, eventsIn, panicked>>

-----------------------------------------------------------------------------
(* The daemon goroutine applying profiles. *)

applyFrame == <<eventsIn, budget, panicked>>

ApplyBegin ==
  /\ daemon.pc = "idle" /\ ~panicked /\ budget.applies > 0
  /\ budget' = [budget EXCEPT !.applies = @ - 1]
  /\ daemon' = [daemon EXCEPT !.pc = "stopping",
                              !.todo = IF daemon.gen = 0 THEN <<>> ELSE objects(daemon.gen)]
  /\ UNCHANGED <<procVars, process, waiting, loop, eventsIn, panicked>>

(* stopAllProcesses; PMCProcess.Stop waits for its goroutine.  A stopped   *)
(* parent forgets its dependent processes.                                 *)
StopEach ==
  LET o == Head(daemon.todo)
  IN  /\ daemon.pc = "stopping" /\ ~panicked /\ daemon.todo # <<>>
      /\ Stop(o)
      /\ daemon' = IF o[1] \in Pmcs /\ state[o] \in {"Starting", "Running"}
                   THEN [daemon EXCEPT !.pc = "waiting"]
                   ELSE [daemon EXCEPT !.todo = Tail(@)]
      /\ process' = {q \in process : q[1] = o[1] \/ Parent[q[1]] # o[1]}
      /\ UNCHANGED <<waiting, loop, applyFrame>>

StopWaited ==
  /\ daemon.pc = "waiting" /\ ~panicked
  /\ \A r \in runs : r.obj # Head(daemon.todo)
  /\ daemon' = [daemon EXCEPT !.pc = "stopping", !.todo = Tail(@)]
  /\ UNCHANGED <<procVars, process, waiting, loop, applyFrame>>

(* process = nil *)
StopEnd ==
  /\ daemon.pc = "stopping" /\ ~panicked /\ daemon.todo = <<>>
  /\ process' = {}
  /\ daemon' = [daemon EXCEPT !.pc = "cleared"]
  /\ UNCHANGED <<procVars, waiting, loop, applyFrame>>

(* createProcesses of every profile. *)
CreateProcesses ==
  /\ daemon.pc = "cleared" /\ ~panicked
  /\ daemon' = [pc |-> "starting", gen |-> daemon.gen + 1, todo |-> objects(daemon.gen + 1)]
  /\ process' = {<<n, daemon.gen + 1>> : n \in Names}
  /\ UNCHANGED <<procVars, waiting, loop, applyFrame>>

(* StartProcesses: the immediate ones, one after the other... *)
StartEach ==
  LET o == Head(daemon.todo)
  IN  /\ daemon.pc = "starting" /\ ~panicked /\ daemon.todo # <<>>
      /\ IF state[o] \in {"Created", "Stopped"} /\ StartOn[o[1]] = "immediate"
         THEN Start(o) ELSE UNCHANGED procVars
      /\ daemon' = [daemon EXCEPT !.todo = Tail(@)]
      /\ UNCHANGED <<process, waiting, loop, applyFrame>>

(* Mutant: the waiting processes are not listed. *)
StartEnd_NoList ==
  /\ daemon.pc = "starting" /\ ~panicked /\ daemon.todo = <<>>
  /\ loop' = [loop EXCEPT !.pc = IF @ = "off" THEN "idle" ELSE @]
  /\ daemon' = [daemon EXCEPT !.pc = "idle"]
  /\ UNCHANGED <<procVars, process, waiting, applyFrame>>

(* ...then the list of the waiting ones, and the first time the loop. *)
StartEnd ==
  /\ daemon.pc = "starting" /\ ~panicked /\ daemon.todo = <<>>
  /\ waiting' = getWaitingProcesses
  /\ loop' = [loop EXCEPT !.pc = IF @ = "off" THEN "idle" ELSE @]
  /\ daemon' = [daemon EXCEPT !.pc = "idle"]
  /\ UNCHANGED <<procVars, process, applyFrame>>

-----------------------------------------------------------------------------
Loop  == LoopReceive \/ EvalBegin \/ EvalEach \/ EvalEnd
Apply == StopEach \/ StopWaited \/ StopEnd \/ CreateProcesses \/ StartEach \/ StartEnd
RunStep(r) == RunBegin(r) \/ RunReadState(r) \/ RunSetState(r)

Next ==
  \/ ApplyBegin
  \/ StopEach
  \/ StopWaited
  \/ StopEnd
  \/ CreateProcesses
  \/ StartEach
  \/ StartEnd
  \/ LoopReceive
  \/ EvalBegin
  \/ EvalEach
  \/ EvalEnd
  \/ \E r \in runs : RunBegin(r)
  \/ \E r \in runs : SendUp(r)
  \/ \E r \in runs : RunExit(r)
  \/ \E r \in runs : RunReadState(r)
  \/ \E r \in runs : RunSetState(r)
  \/ \E r \in runs : SendDown(r)
  \/ \E k \in {"go", "halt"} : LogEvent(k)

Spec == Init /\ [][Next]_vars

(* Goroutines keep running; a child that was told to stop exits; a         *)
(* goroutine blocked on eventsIn is served in turn.                        *)
FairSpec ==
  /\ Spec
  /\ WF_vars(Loop) /\ WF_vars(Apply)
  /\ WF_vars(\E r \in runs : RunStep(r))
  /\ WF_vars(\E r \in runs : r.obj \in stopCh /\ RunExit(r))
  /\ SF_vars(\E r \in runs : SendUp(r)) /\ SF_vars(\E r \in runs : SendDown(r))

-----------------------------------------------------------------------------
(* Every variable has its type, and only a started object has goroutines. *)
TypeOK ==
  /\ state \in [Objs -> State]
  /\ starts \in [Objs -> Nat]
  /\ runs \subseteq [obj : Objs, id : Nat, pc : RunPC]
  /\ \A r \in runs : r.id \in 1..starts[r.obj]
  /\ stopCh \subseteq Objs /\ process \subseteq Objs
  /\ waiting \in Seq(Objs)
  /\ eventsIn \in Seq(Event) /\ Len(eventsIn) <= InCap
  /\ loop \in [pc : {"off", "idle", "eval", "each"}, ev : Event \cup {NoEvent},
               todo : Seq(Objs), changed : BOOLEAN]
  /\ daemon \in [pc : {"idle", "stopping", "waiting", "cleared", "starting"},
                 todo : Seq(Objs), gen : 0..MaxApplies]
  /\ budget \in [applies : 0..MaxApplies, deaths : Nat, data : SUBSET {"go", "halt"}]
  /\ panicked \in BOOLEAN

(* A process object never has two children at once, whoever started it:    *)
(* the daemon, a condition, or the restart of a dead process.  A state     *)
(* other than Dead is what keeps Start from launching a second one: Dead   *)
(* means "Process exited early" (process.go).                              *)
OneChild ==
  \A o \in Objs : Cardinality({r \in runs : r.obj = o /\ r.pc \in {"begin", "up", "wait"}}) <= 1

(* The event loop never meets a process in a state that                    *)
(* stateTransitionAction has no case for: "unhandled default case".        *)
NoPanic == ~panicked

(* A process that died is started again, unless the profile is replaced    *)
(* or the daemon has panicked.                                             *)
DeadIsRestarted ==
  \A o \in Objs : state[o] = "Dead" ~> (state[o] # "Dead" \/ o \notin process \/ panicked)

(* "All process should have been stopped" (daemon.go) when an apply        *)
(* forgets the old processes: none is left that nobody will ever stop.     *)
NoOrphan ==
  daemon.pc = "cleared" => \A o \in Objs : state[o] \notin {"Starting", "Running"}

(* The part of NoOrphan that holds while no process dies: the processes    *)
(* without a start condition are all stopped when an apply forgets them,   *)
(* whatever state they were in and whatever they still report.             *)
ImmediateStopped ==
  daemon.pc = "cleared" =>
    \A o \in Objs : StartOn[o[1]] = "immediate" => state[o] \notin {"Starting", "Running"}

(* A process that waits for another one to come up is started after that   *)
(* one did: the event that starts a created process does not pass unseen.  *)
IsStarted(o) ==
  (o \in process /\ daemon.pc = "idle" /\ StartOn[o[1]] \in Names)
    ~> (state[o] # "Created" \/ daemon.pc # "idle" \/ panicked)

(* IsStarted for the processes of the first apply, whose event loop begins *)
(* after the waiting ones are listed (StartProcesses).                     *)
WaitingIsStarted == \A o \in {p \in Objs : p[2] = 1} : IsStarted(o)

(* IsStarted in every apply, as the tests of StartProcesses expect. *)
EveryApplyStarts == \A o \in Objs : IsStarted(o)

(* Every process without a start condition is running after an apply,      *)
(* whatever the stopped processes of the previous one still report.        *)
ImmediateRuns ==
  \A o \in Objs :
    (o \in process /\ daemon.pc = "idle" /\ StartOn[o[1]] = "immediate")
      ~> (state[o] = "Running" \/ daemon.pc # "idle" \/ panicked)
=============================================================================
