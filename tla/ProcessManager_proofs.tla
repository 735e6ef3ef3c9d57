----------------------- MODULE ProcessManager_proofs -----------------------
(***************************************************************************)
(* Theorems about ProcessManager, for every set of processes and start     *)
(* conditions and every capacity of eventsIn.                              *)
(***************************************************************************)
EXTENDS ProcessManager, Data_proofs

(* Profile applies that have begun and not yet created their processes. *)
Pending == IF daemon.pc \in {"stopping", "waiting", "cleared"} THEN 1 ELSE 0

(* The generations are counted by the applies; what is being stopped was   *)
(* created by an earlier one.                                              *)
AppliesCounted ==
  /\ daemon.gen + budget.applies + Pending <= MaxApplies
  /\ daemon.pc = "stopping" /\ daemon.todo # <<>> => daemon.gen >= 1
  /\ daemon.pc = "waiting" => daemon.todo # <<>> /\ daemon.gen >= 1

(* Only processes with a condition are ever listed as waiting. *)
Conditional == {o \in Objs : StartOn[o[1]] # "immediate" \/ o[1] \in StopOnHalt}
OnlyConditional == waiting \in Seq(Conditional) /\ loop.todo \in Seq(Conditional)

(* Of the goroutines of an object all but one have only Down left to       *)
(* report, and the state of the object is that one's: a state from which   *)
(* Start returns early.  A process whose cmd.Start failed is Dead already  *)
(* while its goroutine cleans up.                                          *)
Exclusive ==
  \A r, q \in runs : r.obj = q.obj /\ r.pc # "down" /\ q.pc # "down" => r = q
Held(o, pc) ==
  /\ pc = "begin" => state[o] \in {"Starting", "Stopping"}
  /\ pc \in {"up", "wait"} => state[o] \in {"Running", "Stopping"}
  /\ pc \in {"drain", "sawStopping", "sawOther"} =>
       \/ state[o] \in {"Running", "Stopping"}
       \/ state[o] = "Dead" /\ o[1] \in MayFail
StateHeld == \A r \in runs : Held(r.obj, r.pc)

(* Such a process is started again by its one Down event, which is sent    *)
(* when its one goroutine is gone.                                         *)
Queued(n, q) == \E i \in 1..Len(q) : q[i] = Down(n)
AtMostOnce(n, q) == \A i, j \in 1..Len(q) : q[i] = Down(n) /\ q[j] = Down(n) => i = j
FailsOnce ==
  \A o \in Objs : o[1] \in MayFail =>
    /\ state[o] \notin {"Stopping", "Stopped"}
    /\ \A r, q \in runs : r.obj = o /\ q.obj = o => r = q
    /\ \A r \in runs : r.obj = o =>
         state[o] # "Created" /\ r.pc # "sawStopping" /\ ~Queued(o[1], eventsIn)
    /\ state[o] = "Created" => ~Queued(o[1], eventsIn)
    /\ AtMostOnce(o[1], eventsIn)

TypeInv == TypeOK /\ AppliesCounted
ChildInv == TypeInv /\ OnlyConditional /\ Exclusive /\ StateHeld /\ FailsOnce

-----------------------------------------------------------------------------
(* Types. *)

Run == [obj : Objs, id : Nat, pc : RunPC]
ProcType ==
  /\ state \in [Objs -> State] /\ starts \in [Objs -> Nat]
  /\ runs \subseteq Run /\ \A r \in runs : r.id \in 1..starts[r.obj]
  /\ stopCh \subseteq Objs

LEMMA ObjectsType ==
  ASSUME NEW g \in 1..MaxApplies
  PROVE  objects(g) \in Seq(Objs)
BY ProcessManagerAssumption DEF objects, Objs

(* The list of the waiting processes has only processes with a condition. *)
LEMMA WaitingType ==
  ASSUME TypeOK
  PROVE  getWaitingProcesses \in Seq(Conditional)
<1> DEFINE T == {o \in process : waitingOnCondition(o)}
<1>1. objects(daemon.gen) \in Seq(Names \X Nat)
  BY ProcessManagerAssumption DEF objects, TypeOK
<1>2. getWaitingProcesses \in Seq((Names \X Nat) \cap T)
  BY <1>1, SelectInElements DEF getWaitingProcesses
<1>3. (Names \X Nat) \cap T \subseteq Conditional
  BY DEF TypeOK, waitingOnCondition, Conditional
<1> HIDE DEF T
<1> QED BY <1>2, <1>3

LEMMA StartType ==
  ASSUME ProcType, NEW o \in Objs, Start(o)
  PROVE  ProcType'
<1>1. CASE state[o] \in {"Starting", "Running", "Stopping"}
  BY <1>1 DEF Start, ProcType, procVars
<1>2. CASE state[o] \notin {"Starting", "Running", "Stopping"}
  <2>1. state' \in [Objs -> State] /\ starts' \in [Objs -> Nat] /\ stopCh' \subseteq Objs
    BY <1>2 DEF Start, ProcType, State
  <2>2. \A p \in Objs : starts[p] <= starts'[p] /\ starts'[o] = starts[o] + 1
    BY <1>2 DEF Start, ProcType
  <2>3. runs' \subseteq Run
    BY <1>2 DEF Start, ProcType, Run, RunPC
  <2>4. \A r \in runs' : r.id \in 1..starts'[r.obj]
    BY <1>2, <2>2 DEF Start, ProcType, Run
  <2> QED BY <2>1, <2>3, <2>4 DEF ProcType
<1> QED BY <1>1, <1>2

LEMMA StopType ==
  ASSUME ProcType, NEW o \in Objs, Stop(o)
  PROVE  ProcType'
BY DEF Stop, ProcType, procVars, State

(* A goroutine that moves on. *)
LEMMA GoToType ==
  ASSUME ProcType, NEW r \in runs, NEW pc \in RunPC, goTo(r, pc), UNCHANGED <<starts, stopCh>>,
         state' \in [Objs -> State]
  PROVE  ProcType'
<1>1. [r EXCEPT !.pc = pc] \in Run
  BY DEF ProcType, Run
<1>2. [r EXCEPT !.pc = pc].obj = r.obj /\ [r EXCEPT !.pc = pc].id = r.id
  BY DEF ProcType, Run
<1> QED BY <1>1, <1>2 DEF goTo, ProcType

LEMMA TailType ==
  ASSUME NEW S, NEW q \in Seq(S), q # <<>>
  PROVE  Head(q) \in S /\ Tail(q) \in Seq(S) /\ Len(Tail(q)) = Len(q) - 1 /\ Len(q) \in Nat
OBVIOUS

LEMMA EventTypes ==
  /\ \A n \in Names : Up(n) \in Event /\ Down(n) \in Event
  /\ \A k \in {"go", "halt"} : Data(k) \in Event
  /\ \A e \in Event : e.kind \in {"up", "down"} => e.name \in Names
BY DEF Up, Down, Data, Event

(* What the steps of a goroutine, of the event loop and of an apply leave  *)
(* of the types is all that their changes can disturb.                     *)
LoopType ==
  loop \in [pc : {"off", "idle", "eval", "each"}, ev : Event \cup {NoEvent},
            todo : Seq(Objs), changed : BOOLEAN]
DaemonType ==
  daemon \in [pc : {"idle", "stopping", "waiting", "cleared", "starting"},
              todo : Seq(Objs), gen : 0..MaxApplies]
BudgetType ==
  budget \in [applies : 0..MaxApplies, deaths : Nat, data : SUBSET {"go", "halt"}]
QueueType == eventsIn \in Seq(Event) /\ Len(eventsIn) <= InCap
RestType == process \subseteq Objs /\ waiting \in Seq(Objs) /\ panicked \in BOOLEAN

LEMMA TypeParts ==
  TypeOK <=> ProcType /\ LoopType /\ DaemonType /\ BudgetType /\ QueueType /\ RestType
BY DEF TypeOK, ProcType, Run, LoopType, DaemonType, BudgetType, QueueType, RestType

LEMMA TypeInit == Init => TypeInv
<1> SUFFICES ASSUME Init PROVE TypeInv
  OBVIOUS
<1>1. BudgetType
  BY ProcessManagerAssumption DEF Init, BudgetType
<1>2. ProcType
  BY DEF Init, ProcType, State
<1>3. LoopType
  BY DEF Init, LoopType
<1>4. DaemonType
  BY ProcessManagerAssumption DEF Init, DaemonType
<1>5. QueueType /\ RestType
  <2>1. Len(<<>>) <= InCap
    BY ProcessManagerAssumption
  <2>2. eventsIn = <<>> /\ waiting = <<>> /\ process = {} /\ panicked = FALSE
    BY DEF Init
  <2>3. panicked \in BOOLEAN
    BY <2>2
  <2>4. <<>> \in Seq(Event) /\ <<>> \in Seq(Objs)
    OBVIOUS
  <2> QED BY <2>1, <2>2, <2>3, <2>4 DEF QueueType, RestType
<1>6. AppliesCounted
  BY <1>1, ProcessManagerAssumption DEF Init, AppliesCounted, Pending, BudgetType
<1> QED BY <1>1, <1>2, <1>3, <1>4, <1>5, <1>6, TypeParts DEF TypeInv

LEMMA TypeWhole ==
  ASSUME ProcType', LoopType', DaemonType', BudgetType', QueueType', RestType', AppliesCounted'
  PROVE  TypeInv'
BY DEF TypeInv, TypeOK, ProcType, Run, LoopType, DaemonType, BudgetType, QueueType, RestType

LEMMA DieType ==
  ASSUME BudgetType, Die
  PROVE  BudgetType' /\ budget'.applies = budget.applies
BY DEF BudgetType, Die

LEMMA RunStepType ==
  ASSUME TypeInv, NEW r \in runs,
         \/ RunBegin(r) \/ SendUp(r) \/ RunExit(r) \/ RunReadState(r)
         \/ RunSetState(r) \/ SendDown(r)
  PROVE  TypeInv'
<1>0. /\ ProcType /\ LoopType /\ DaemonType /\ BudgetType /\ QueueType /\ RestType
      /\ r.obj \in Objs /\ r.obj[1] \in Names /\ r.pc \in RunPC
  BY TypeParts DEF TypeInv, ProcType, Run, Objs
<1>1. UNCHANGED runFrame
  BY DEF RunBegin, SendUp, RunExit, RunReadState, RunSetState, SendDown
<1>2. LoopType' /\ DaemonType' /\ RestType'
  BY <1>0, <1>1 DEF runFrame, LoopType, DaemonType, RestType
<1>3. BudgetType' /\ budget'.applies = budget.applies
  <2>1. CASE UNCHANGED budget
    BY <1>0, <2>1 DEF BudgetType
  <2>2. CASE Die
    BY <1>0, <2>2, DieType
  <2> QED BY <2>1, <2>2 DEF RunBegin, SendUp, RunExit, RunReadState, RunSetState, SendDown
<1>4. QueueType'
  <2>1. CASE UNCHANGED eventsIn
    BY <1>0, <2>1 DEF QueueType
  <2>2. CASE SendUp(r) \/ SendDown(r)
    <3>1. PICK e \in Event : eventsIn' = Append(eventsIn, e)
      BY <1>0, <2>2, EventTypes DEF SendUp, SendDown
    <3>2. Len(eventsIn) < InCap
      BY <2>2 DEF SendUp, SendDown
    <3> QED BY <1>0, <3>1, <3>2, ProcessManagerAssumption DEF QueueType
  <2> QED BY <2>1, <2>2 DEF RunBegin, RunExit, RunReadState, RunSetState
<1>5. ProcType'
  <2>1. state' \in [Objs -> State]
    BY <1>0 DEF RunBegin, SendUp, RunExit, RunReadState, RunSetState, SendDown, ProcType, State
  <2>2. CASE SendDown(r)
    BY <1>0, <1>1, <2>1, <2>2 DEF SendDown, runFrame, ProcType
  <2>3. CASE ~SendDown(r)
    <3>1. PICK pc \in RunPC : goTo(r, pc)
      BY <2>3 DEF RunBegin, SendUp, RunExit, RunReadState, RunSetState, RunPC
    <3> QED BY <1>0, <1>1, <2>1, <3>1, GoToType DEF runFrame
  <2> QED BY <2>2, <2>3
<1>6. AppliesCounted'
  BY <1>1, <1>3 DEF TypeInv, AppliesCounted, Pending, runFrame
<1> QED BY <1>2, <1>3, <1>4, <1>5, <1>6, TypeWhole

LEMMA LogEventType ==
  ASSUME TypeInv, NEW k \in {"go", "halt"}, LogEvent(k)
  PROVE  TypeInv'
<1>1. QueueType'
  BY TypeParts, EventTypes, ProcessManagerAssumption DEF LogEvent, QueueType, TypeInv
<1>2. ProcType' /\ LoopType' /\ DaemonType' /\ BudgetType' /\ RestType' /\ AppliesCounted'
  BY TypeParts DEF LogEvent, procVars, ProcType, LoopType, DaemonType, BudgetType, RestType,
     TypeInv, AppliesCounted, Pending
<1> QED BY <1>1, <1>2, TypeWhole

LEMMA LoopType_Step ==
  ASSUME TypeInv, Loop
  PROVE  TypeInv'
<1>0. ProcType /\ LoopType /\ DaemonType /\ BudgetType /\ QueueType /\ RestType
  BY TypeParts DEF TypeInv
<1>1. /\ DaemonType' /\ BudgetType' /\ AppliesCounted' /\ process' \subseteq Objs
  BY <1>0 DEF Loop, LoopReceive, EvalBegin, EvalEach, EvalEnd, loopFrame, DaemonType,
     BudgetType, RestType, TypeInv, AppliesCounted, Pending
<1>2. CASE LoopReceive
  <2>1. Head(eventsIn) \in Event /\ QueueType'
    <3>1. eventsIn \in Seq(Event) /\ eventsIn # <<>> /\ eventsIn' = Tail(eventsIn)
      BY <1>0, <1>2 DEF LoopReceive, QueueType
    <3>2. Len(eventsIn) <= InCap
      BY <1>0 DEF QueueType
    <3> QED BY <3>1, <3>2, TailType, ProcessManagerAssumption DEF QueueType
  <2>2. ProcType'
    <3>1. CASE UNCHANGED procVars
      BY <1>0, <3>1 DEF procVars, ProcType
    <3>2. CASE \E o \in process : Start(o)
      BY <1>0, <3>2, StartType DEF RestType
    <3> QED BY <1>2, <3>1, <3>2 DEF LoopReceive, handleProcessDown
  <2>3. LoopType' /\ RestType'
    BY <1>0, <1>1, <1>2, <2>1 DEF LoopReceive, LoopType, RestType
  <2> QED BY <1>1, <2>1, <2>2, <2>3, TypeWhole
<1>3. CASE EvalBegin
  <2>1. LoopType' /\ RestType' /\ QueueType' /\ ProcType'
    BY <1>0, <1>1, <1>3 DEF EvalBegin, procVars, ProcType, LoopType, QueueType, RestType
  <2> QED BY <1>1, <2>1, TypeWhole
<1>4. CASE EvalEach
  <2>1. Head(loop.todo) \in Objs /\ Tail(loop.todo) \in Seq(Objs)
    BY <1>0, <1>4 DEF EvalEach, LoopType
  <2>2. ProcType'
    <3>1. CASE UNCHANGED procVars
      BY <1>0, <3>1 DEF procVars, ProcType
    <3>2. CASE Start(Head(loop.todo))
      BY <1>0, <2>1, <3>2, StartType
    <3>3. CASE Stop(Head(loop.todo))
      BY <1>0, <2>1, <3>3, StopType
    <3> QED BY <1>4, <3>1, <3>2, <3>3 DEF EvalEach
  <2>3. LoopType' /\ RestType' /\ QueueType'
    <3>1. PICK b \in BOOLEAN : loop' = [loop EXCEPT !.todo = Tail(@), !.changed = b]
      <4>1. \E b : b \in BOOLEAN /\ loop' = [loop EXCEPT !.todo = Tail(@), !.changed = b]
        BY <1>0, <1>4, Zenon DEF EvalEach
      <4> QED BY <4>1
    <3>2. LoopType'
      BY <1>0, <2>1, <3>1 DEF LoopType
    <3>3. panicked' \in BOOLEAN
      <4>1. panicked' = (state[Head(loop.todo)] \in {"Starting", "Stopping"})
        BY <1>4 DEF EvalEach
      <4> QED BY <4>1, SMT
    <3> QED BY <1>0, <1>1, <1>4, <3>2, <3>3 DEF EvalEach, RestType, QueueType
  <2> QED BY <1>1, <2>2, <2>3, TypeWhole
<1>5. CASE EvalEnd
  <2>1. getWaitingProcesses \in Seq(Objs)
    BY WaitingType DEF TypeInv, Conditional
  <2>2. LoopType' /\ RestType' /\ QueueType' /\ ProcType'
    BY <1>0, <1>1, <1>5, <2>1 DEF EvalEnd, LoopType, RestType, QueueType, ProcType, procVars
  <2> QED BY <1>1, <2>2, TypeWhole
<1> QED BY <1>2, <1>3, <1>4, <1>5 DEF Loop

LEMMA ApplyType ==
  ASSUME TypeInv, ApplyBegin \/ Apply
  PROVE  TypeInv'
<1>0. ProcType /\ LoopType /\ DaemonType /\ BudgetType /\ QueueType /\ RestType /\ AppliesCounted
  BY TypeParts DEF TypeInv
<1>1. QueueType' /\ panicked' \in BOOLEAN
  BY <1>0 DEF Apply, ApplyBegin, StopEach, StopWaited, StopEnd, CreateProcesses, StartEach,
     StartEnd, applyFrame, QueueType, RestType
<1>2. CASE ApplyBegin
  <2>1. daemon.gen # 0 => objects(daemon.gen) \in Seq(Objs)
    BY <1>0, ObjectsType, ProcessManagerAssumption DEF DaemonType
  <2>2. DaemonType' /\ BudgetType' /\ AppliesCounted'
    <3>1. DaemonType'
      <4>1. PICK todo \in Seq(Objs) : daemon' = [daemon EXCEPT !.pc = "stopping", !.todo = todo]
        <5>1. (IF daemon.gen = 0 THEN <<>> ELSE objects(daemon.gen)) \in Seq(Objs)
          BY <2>1
        <5> QED BY <1>2, <5>1 DEF ApplyBegin
      <4> QED BY <1>0, <4>1 DEF DaemonType
    <3>2. BudgetType' /\ budget'.applies = budget.applies - 1
      <4>1. budget.applies > 0 /\ budget' = [budget EXCEPT !.applies = @ - 1]
        BY <1>2 DEF ApplyBegin
      <4> QED BY <1>0, <4>1, ProcessManagerAssumption DEF BudgetType
    <3>3. /\ daemon'.pc = "stopping" /\ daemon'.gen = daemon.gen /\ daemon.pc = "idle"
          /\ daemon'.todo # <<>> => daemon.gen # 0
      BY <1>0, <1>2 DEF ApplyBegin, DaemonType
    <3>4. AppliesCounted'
      BY <1>0, <3>2, <3>3, ProcessManagerAssumption
      DEF AppliesCounted, Pending, DaemonType, BudgetType
    <3> QED BY <3>1, <3>2, <3>4
  <2>3. ProcType' /\ LoopType' /\ RestType'
    BY <1>0, <1>1, <1>2 DEF ApplyBegin, procVars, ProcType, LoopType, RestType
  <2> QED BY <1>1, <2>2, <2>3, TypeWhole
<1>3. CASE StopEach
  <2>1. Head(daemon.todo) \in Objs /\ Tail(daemon.todo) \in Seq(Objs)
    BY <1>0, <1>3 DEF StopEach, DaemonType
  <2>2. ProcType'
    BY <1>0, <1>3, <2>1, StopType DEF StopEach
  <2>3. DaemonType' /\ BudgetType' /\ AppliesCounted'
    BY <1>0, <1>3, <2>1 DEF StopEach, DaemonType, BudgetType, AppliesCounted, Pending, applyFrame
  <2>4. LoopType' /\ RestType'
    BY <1>0, <1>1, <1>3 DEF StopEach, LoopType, RestType
  <2> QED BY <1>1, <2>2, <2>3, <2>4, TypeWhole
<1>4. CASE StopWaited
  <2>1. Tail(daemon.todo) \in Seq(Objs)
    BY <1>0, <1>4 DEF StopWaited, DaemonType, AppliesCounted
  <2>2. DaemonType' /\ BudgetType' /\ AppliesCounted'
    BY <1>0, <1>4, <2>1 DEF StopWaited, DaemonType, BudgetType, AppliesCounted, Pending, applyFrame
  <2>3. ProcType' /\ LoopType' /\ RestType'
    BY <1>0, <1>1, <1>4 DEF StopWaited, procVars, ProcType, LoopType, RestType
  <2> QED BY <1>1, <2>2, <2>3, TypeWhole
<1>5. CASE StopEnd
  <2>1. DaemonType' /\ BudgetType' /\ AppliesCounted'
    BY <1>0, <1>5 DEF StopEnd, DaemonType, BudgetType, AppliesCounted, Pending, applyFrame
  <2>2. ProcType' /\ LoopType' /\ RestType'
    BY <1>0, <1>1, <1>5 DEF StopEnd, procVars, ProcType, LoopType, RestType
  <2> QED BY <1>1, <2>1, <2>2, TypeWhole
<1>6. CASE CreateProcesses
  <2>1. daemon.gen + 1 \in 1..MaxApplies
    BY <1>0, <1>6, ProcessManagerAssumption
    DEF CreateProcesses, AppliesCounted, Pending, DaemonType, BudgetType
  <2>2. objects(daemon.gen + 1) \in Seq(Objs)
    BY <2>1, ObjectsType
  <2>3. DaemonType' /\ BudgetType' /\ AppliesCounted'
    BY <1>0, <1>6, <2>1, <2>2, ProcessManagerAssumption
    DEF CreateProcesses, DaemonType, BudgetType, AppliesCounted, Pending, applyFrame
  <2>4. ProcType' /\ LoopType' /\ RestType'
    BY <1>0, <1>1, <1>6, <2>1 DEF CreateProcesses, procVars, ProcType, LoopType, RestType, Objs
  <2> QED BY <1>1, <2>3, <2>4, TypeWhole
<1>7. CASE StartEach
  <2>1. Head(daemon.todo) \in Objs /\ Tail(daemon.todo) \in Seq(Objs)
    BY <1>0, <1>7 DEF StartEach, DaemonType
  <2>2. ProcType'
    <3>1. CASE UNCHANGED procVars
      BY <1>0, <3>1 DEF procVars, ProcType
    <3>2. CASE Start(Head(daemon.todo))
      BY <1>0, <2>1, <3>2, StartType
    <3> QED BY <1>7, <3>1, <3>2 DEF StartEach
  <2>3. DaemonType' /\ BudgetType' /\ AppliesCounted'
    BY <1>0, <1>7, <2>1 DEF StartEach, DaemonType, BudgetType, AppliesCounted, Pending, applyFrame
  <2>4. LoopType' /\ RestType'
    BY <1>0, <1>1, <1>7 DEF StartEach, LoopType, RestType
  <2> QED BY <1>1, <2>2, <2>3, <2>4, TypeWhole
<1>8. CASE StartEnd
  <2>1. getWaitingProcesses \in Seq(Objs)
    BY WaitingType DEF TypeInv, Conditional
  <2>2. DaemonType' /\ BudgetType' /\ AppliesCounted'
    BY <1>0, <1>8 DEF StartEnd, DaemonType, BudgetType, AppliesCounted, Pending, applyFrame
  <2>3. ProcType' /\ LoopType' /\ RestType'
    BY <1>0, <1>1, <1>8, <2>1 DEF StartEnd, procVars, ProcType, LoopType, RestType
  <2> QED BY <1>1, <2>2, <2>3, TypeWhole
<1> QED BY <1>2, <1>3, <1>4, <1>5, <1>6, <1>7, <1>8 DEF Apply

LEMMA TypeNext == TypeInv /\ [Next]_vars => TypeInv'
<1> SUFFICES ASSUME TypeInv, [Next]_vars PROVE TypeInv'
  OBVIOUS
<1>1. CASE UNCHANGED vars
  BY <1>1 DEF vars, procVars, TypeInv, TypeOK, AppliesCounted, Pending
<1>2. CASE ApplyBegin \/ Apply
  BY <1>2, ApplyType
<1>3. CASE Loop
  BY <1>3, LoopType_Step
<1>4. CASE \E r \in runs : \/ RunBegin(r) \/ SendUp(r) \/ RunExit(r) \/ RunReadState(r)
                           \/ RunSetState(r) \/ SendDown(r)
  BY <1>4, RunStepType
<1>5. CASE \E k \in {"go", "halt"} : LogEvent(k)
  BY <1>5, LogEventType
<1> QED BY <1>1, <1>2, <1>3, <1>4, <1>5 DEF Next, Loop, Apply

(* The states, goroutines, lists, channel and bounds of the process        *)
(* manager keep their types, and only a started object has goroutines.     *)
THEOREM ProcessTypes == Spec => []TypeOK
<1>1. TypeInv => TypeOK
  BY DEF TypeInv
<1> QED BY TypeInit, TypeNext, <1>1, PTL DEF Spec

-----------------------------------------------------------------------------
(* One child. *)

(* The processes whose cmd.Start may fail have no conditions, and there is *)
(* one apply: the README shows what happens otherwise.                     *)
FailuresContained ==
  \A n \in MayFail : MaxApplies <= 1 /\ StartOn[n] = "immediate" /\ n \notin StopOnHalt

(* Then conditions and stops never concern them. *)
LEMMA FailSeparate ==
  ASSUME FailuresContained
  PROVE  /\ \A o \in Conditional : o \in Objs /\ o[1] \notin MayFail
         /\ \A o, p \in Objs : o[1] \in MayFail /\ p[1] = o[1] => p = o
<1>1. \A o \in Conditional : o \in Objs /\ o[1] \notin MayFail
  BY DEF FailuresContained, Conditional
<1>2. ASSUME NEW o \in Objs, NEW p \in Objs, o[1] \in MayFail, p[1] = o[1]
      PROVE  p = o
  <2>1. o[2] = 1 /\ p[2] = 1
    BY <1>2, ProcessManagerAssumption DEF FailuresContained, Objs
  <2>2. o = <<o[1], o[2]>> /\ p = <<p[1], p[2]>>
    BY DEF Objs
  <2> QED BY <1>2, <2>1, <2>2
<1> QED BY <1>1, <1>2

LEMMA ReceivedQueue ==
  ASSUME NEW q \in Seq(Event), q # <<>>
  PROVE  \A n : /\ Queued(n, Tail(q)) => Queued(n, q)
                /\ AtMostOnce(n, q) => AtMostOnce(n, Tail(q))
                /\ AtMostOnce(n, q) /\ Head(q) = Down(n) => ~Queued(n, Tail(q))
                /\ Head(q) = Down(n) => Queued(n, q)
<1>1. /\ Len(q) \in Nat /\ Len(q) >= 1 /\ Len(Tail(q)) = Len(q) - 1 /\ Head(q) = q[1]
      /\ \A i \in 1..Len(Tail(q)) : Tail(q)[i] = q[i + 1] /\ i + 1 \in 1..Len(q)
  OBVIOUS
<1> TAKE n
<1>2. Queued(n, Tail(q)) => \E i \in 1..Len(q) : i # 1 /\ q[i] = Down(n)
  BY <1>1 DEF Queued
<1>3. AtMostOnce(n, q) => AtMostOnce(n, Tail(q))
  BY <1>1 DEF AtMostOnce
<1>4. 1 \in 1..Len(q)
  BY <1>1
<1> QED BY <1>1, <1>2, <1>3, <1>4 DEF Queued, AtMostOnce

LEMMA SentQueue ==
  ASSUME NEW q \in Seq(Event), NEW e \in Event
  PROVE  \A n : /\ Queued(n, Append(q, e)) => Queued(n, q) \/ e = Down(n)
                /\ AtMostOnce(n, q) /\ (e = Down(n) => ~Queued(n, q))
                     => AtMostOnce(n, Append(q, e))
<1>1. /\ Len(q) \in Nat /\ Len(Append(q, e)) = Len(q) + 1
      /\ \A i \in 1..Len(Append(q, e)) :
           \/ i \in 1..Len(q) /\ Append(q, e)[i] = q[i]
           \/ i = Len(q) + 1 /\ Append(q, e)[i] = e
  OBVIOUS
<1> TAKE n
<1>2. Queued(n, Append(q, e)) => Queued(n, q) \/ e = Down(n)
  BY <1>1 DEF Queued
<1>3. ASSUME AtMostOnce(n, q), e = Down(n) => ~Queued(n, q)
      PROVE  AtMostOnce(n, Append(q, e))
  BY <1>1, <1>3 DEF AtMostOnce, Queued
<1> QED BY <1>2, <1>3

(* No goroutine of an object in a state from which Start goes on is about  *)
(* anything but its Down event.                                            *)
LEMMA Idle ==
  ASSUME TypeInv, StateHeld, NEW o \in Objs, state[o] \notin {"Starting", "Running", "Stopping"},
         o[1] \in MayFail => \A r \in runs : r.obj # o
  PROVE  \A r \in runs : r.obj = o => r.pc = "down"
BY DEF TypeInv, TypeOK, StateHeld, Held, RunPC

Quiet(q) == \A n : /\ Queued(n, q) => Queued(n, eventsIn)
                   /\ AtMostOnce(n, eventsIn) => AtMostOnce(n, q)

LEMMA StartChild ==
  ASSUME TypeInv, Exclusive, StateHeld, FailsOnce, NEW o \in Objs, Start(o), Quiet(eventsIn'),
         o[1] \in MayFail => ~Queued(o[1], eventsIn') /\ \A r \in runs : r.obj # o
  PROVE  Exclusive' /\ StateHeld' /\ FailsOnce'
<1>1. CASE state[o] \in {"Starting", "Running", "Stopping"}
  BY <1>1 DEF Start, procVars, Exclusive, StateHeld, Held, FailsOnce, Quiet
<1>2. CASE state[o] \notin {"Starting", "Running", "Stopping"}
  <2> DEFINE new == [obj |-> o, id |-> starts[o] + 1, pc |-> "begin"]
  <2>1. runs' = runs \cup {new} /\ state' = [state EXCEPT ![o] = "Starting"]
    BY <1>2 DEF Start
  <2>2. \A r \in runs : r.obj = o => r.pc = "down"
    BY <1>2, Idle
  <2>3. new.obj = o /\ new.pc = "begin" /\ state \in [Objs -> State]
    BY DEF TypeInv, TypeOK
  <2> HIDE DEF new
  <2>4. Exclusive'
    BY <2>1, <2>2, <2>3 DEF Exclusive
  <2>5. StateHeld'
    BY <2>1, <2>2, <2>3 DEF StateHeld, Held
  <2>6. FailsOnce'
    BY <2>1, <2>3 DEF FailsOnce, Quiet
  <2> QED BY <2>4, <2>5, <2>6
<1> QED BY <1>1, <1>2

LEMMA StopChild ==
  ASSUME TypeInv, Exclusive, StateHeld, FailsOnce, NEW o \in Objs, Stop(o), o[1] \notin MayFail,
         UNCHANGED eventsIn
  PROVE  Exclusive' /\ StateHeld' /\ FailsOnce'
<1>1. CASE state[o] \notin {"Starting", "Running"}
  BY <1>1 DEF Stop, procVars, Exclusive, StateHeld, Held, FailsOnce
<1>2. CASE state[o] \in {"Starting", "Running"}
  <2>1. runs' = runs /\ state' = [state EXCEPT ![o] = "Stopping"] /\ state \in [Objs -> State]
    BY <1>2 DEF Stop, TypeInv, TypeOK
  <2>2. Exclusive' /\ FailsOnce'
    BY <2>1 DEF Exclusive, FailsOnce
  <2>3. StateHeld'
    BY <1>2, <2>1 DEF StateHeld, Held, TypeInv, TypeOK
  <2> QED BY <2>2, <2>3
<1> QED BY <1>1, <1>2

(* The steps of a goroutine: where it goes, and the state it leaves. *)
Moves(r, pc) ==
  /\ goTo(r, pc) /\ Held(r.obj, pc)'
  /\ \A p \in Objs : p # r.obj => state'[p] = state[p]
  /\ r.obj[1] \in MayFail =>
       pc # "sawStopping" /\ state'[r.obj] \notin {"Stopping", "Stopped", "Created"}

LEMMA RunMoves ==
  ASSUME ChildInv, NEW r \in runs,
         \/ RunBegin(r) \/ SendUp(r) \/ RunExit(r) \/ RunReadState(r) \/ RunSetState(r)
  PROVE  \E pc \in RunPC : Moves(r, pc)
<1>1. /\ r.obj \in Objs /\ state \in [Objs -> State] /\ Held(r.obj, r.pc)
      /\ r.obj[1] \in MayFail =>
           r.pc # "sawStopping" /\ state[r.obj] \notin {"Stopping", "Stopped", "Created"}
  BY DEF ChildInv, TypeInv, TypeOK, Run, StateHeld, FailsOnce
<1>2. CASE RunBegin(r)
  <2>1. CASE r.obj[1] \notin Pmcs /\ state[r.obj] = "Stopping"
    <3>1. Moves(r, "drain")
      BY <1>1, <1>2, <2>1 DEF RunBegin, Moves, Held
    <3> QED BY <3>1 DEF RunPC
  <2>2. CASE state' = [state EXCEPT ![r.obj] = "Running"] /\ goTo(r, "up")
    <3>1. Moves(r, "up")
      BY <1>1, <2>2 DEF Moves, Held
    <3> QED BY <3>1 DEF RunPC
  <2>3. CASE r.obj[1] \in MayFail /\ state' = [state EXCEPT ![r.obj] = "Dead"] /\ goTo(r, "drain")
    <3>1. Moves(r, "drain")
      BY <1>1, <2>3 DEF Moves, Held
    <3> QED BY <3>1 DEF RunPC
  <2> QED BY <1>2, <2>1, <2>2, <2>3 DEF RunBegin
<1>3. CASE SendUp(r)
  <2>1. Moves(r, "wait")
    BY <1>1, <1>3 DEF SendUp, Moves, Held
  <2> QED BY <2>1 DEF RunPC
<1>4. CASE RunExit(r)
  <2>1. Moves(r, "drain")
    BY <1>1, <1>4 DEF RunExit, Moves, Held
  <2> QED BY <2>1 DEF RunPC
<1>5. CASE RunReadState(r)
  <2>1. CASE state[r.obj] = "Stopping"
    <3>1. Moves(r, "sawStopping")
      BY <1>1, <1>5, <2>1 DEF RunReadState, Moves, Held
    <3> QED BY <3>1 DEF RunPC
  <2>2. CASE state[r.obj] # "Stopping"
    <3>1. Moves(r, "sawOther")
      BY <1>1, <1>5, <2>2 DEF RunReadState, Moves, Held
    <3> QED BY <3>1 DEF RunPC
  <2> QED BY <2>1, <2>2
<1>6. CASE RunSetState(r)
  <2>1. Moves(r, "down")
    BY <1>1, <1>6 DEF RunSetState, Moves, Held
  <2> QED BY <2>1 DEF RunPC
<1> QED BY <1>2, <1>3, <1>4, <1>5, <1>6

LEMMA RunChild ==
  ASSUME ChildInv, NEW r \in runs,
         \/ RunBegin(r) \/ SendUp(r) \/ RunExit(r) \/ RunReadState(r) \/ RunSetState(r)
  PROVE  Exclusive' /\ StateHeld' /\ FailsOnce'
<1>0. /\ TypeInv /\ Exclusive /\ StateHeld /\ FailsOnce /\ r \in Run /\ r.obj \in Objs
      /\ r.pc \in RunPC /\ r.pc # "down" /\ state \in [Objs -> State] /\ runs \subseteq Run
      /\ eventsIn \in Seq(Event)
  BY DEF ChildInv, TypeInv, TypeOK, Run, RunBegin, SendUp, RunExit, RunReadState, RunSetState
<1>1. PICK pc \in RunPC : Moves(r, pc)
  BY RunMoves
<1> DEFINE new == [r EXCEPT !.pc = pc]
<1>2. /\ runs' = (runs \ {r}) \cup {new} /\ new.obj = r.obj /\ new.pc = pc
  BY <1>0, <1>1 DEF Moves, goTo, Run
<1>3. \A q \in runs : q.obj = r.obj /\ q # r => q.pc = "down"
  BY <1>0 DEF Exclusive
<1> HIDE DEF new
<1>4. Exclusive'
  BY <1>0, <1>2, <1>3 DEF Exclusive
<1>5. Quiet(eventsIn')
  <2>1. CASE SendUp(r)
    <3>1. eventsIn' = Append(eventsIn, Up(r.obj[1])) /\ Up(r.obj[1]) \in Event
      BY <1>0, <2>1, EventTypes DEF SendUp, Objs
    <3>2. \A n : Up(r.obj[1]) # Down(n)
      BY DEF Up, Down
    <3> QED BY <1>0, <3>1, <3>2, SentQueue DEF Quiet
  <2>2. CASE UNCHANGED eventsIn
    BY <2>2 DEF Quiet
  <2> QED BY <2>1, <2>2 DEF RunBegin, RunExit, RunReadState, RunSetState
<1>6. StateHeld'
  <2> SUFFICES ASSUME NEW q \in runs' PROVE Held(q.obj, q.pc)'
    BY DEF StateHeld
  <2>1. CASE q = new
    BY <1>1, <1>2, <2>1 DEF Moves, Held
  <2>2. CASE q # new /\ q.obj = r.obj
    <3>1. q.pc = "down"
      BY <1>2, <1>3, <2>2
    <3> QED BY <3>1 DEF Held
  <2>3. CASE q # new /\ q.obj # r.obj
    <3>1. q \in runs /\ q.obj \in Objs /\ state'[q.obj] = state[q.obj]
      BY <1>0, <1>1, <1>2, <2>3 DEF Run, Moves
    <3> QED BY <1>0, <3>1 DEF StateHeld, Held
  <2> QED BY <2>1, <2>2, <2>3
<1>7. FailsOnce'
  <2> SUFFICES ASSUME NEW o \in Objs, o[1] \in MayFail
               PROVE (/\ state[o] \notin {"Stopping", "Stopped"}
                      /\ \A a, b \in runs : a.obj = o /\ b.obj = o => a = b
                      /\ \A a \in runs : a.obj = o =>
                           state[o] # "Created" /\ a.pc # "sawStopping" /\ ~Queued(o[1], eventsIn)
                      /\ state[o] = "Created" => ~Queued(o[1], eventsIn)
                      /\ AtMostOnce(o[1], eventsIn))'
    BY DEF FailsOnce
  <2>1. CASE o = r.obj
    BY <1>0, <1>1, <1>2, <1>5, <2>1 DEF FailsOnce, Quiet, Moves
  <2>2. CASE o # r.obj
    BY <1>0, <1>1, <1>2, <1>5, <2>2 DEF FailsOnce, Quiet, Moves
  <2> QED BY <2>1, <2>2
<1> QED BY <1>4, <1>6, <1>7

LEMMA DownChild ==
  ASSUME ChildInv, FailuresContained, NEW r \in runs, SendDown(r)
  PROVE  Exclusive' /\ StateHeld' /\ FailsOnce'
<1>0. /\ TypeInv /\ Exclusive /\ StateHeld /\ FailsOnce /\ r.obj \in Objs /\ r.obj[1] \in Names
      /\ eventsIn \in Seq(Event)
  BY DEF ChildInv, TypeInv, TypeOK, Objs
<1>1. /\ runs' = runs \ {r} /\ state' = state /\ eventsIn' = Append(eventsIn, Down(r.obj[1]))
      /\ Down(r.obj[1]) \in Event
  BY <1>0, EventTypes DEF SendDown
<1>2. Exclusive' /\ StateHeld'
  BY <1>0, <1>1 DEF Exclusive, StateHeld, Held
<1>3. FailsOnce'
  <2> SUFFICES ASSUME NEW o \in Objs, o[1] \in MayFail
               PROVE (/\ state[o] \notin {"Stopping", "Stopped"}
                      /\ \A a, b \in runs : a.obj = o /\ b.obj = o => a = b
                      /\ \A a \in runs : a.obj = o =>
                           state[o] # "Created" /\ a.pc # "sawStopping" /\ ~Queued(o[1], eventsIn)
                      /\ state[o] = "Created" => ~Queued(o[1], eventsIn)
                      /\ AtMostOnce(o[1], eventsIn))'
    BY DEF FailsOnce
  <2>1. CASE o = r.obj
    <3>1. /\ state[o] # "Created" /\ ~Queued(o[1], eventsIn) /\ AtMostOnce(o[1], eventsIn)
          /\ \A a \in runs' : a.obj # o
      BY <1>0, <1>1, <2>1 DEF FailsOnce
    <3>2. AtMostOnce(o[1], eventsIn')
      BY <1>0, <1>1, <3>1, SentQueue
    <3> QED BY <1>0, <1>1, <3>1, <3>2 DEF FailsOnce
  <2>2. CASE o # r.obj
    <3>1. o[1] # r.obj[1]
      BY <1>0, <2>2, FailSeparate
    <3>2. Down(r.obj[1]) # Down(o[1])
      BY <3>1 DEF Down
    <3>3. /\ Queued(o[1], eventsIn') => Queued(o[1], eventsIn)
          /\ AtMostOnce(o[1], eventsIn) => AtMostOnce(o[1], eventsIn')
      BY <1>0, <1>1, <3>2, SentQueue
    <3> QED BY <1>0, <1>1, <3>3 DEF FailsOnce
  <2> QED BY <2>1, <2>2
<1> QED BY <1>2, <1>3

(* The lists of the event loop. *)
LEMMA ListsKept ==
  ASSUME TypeInv, OnlyConditional, [Next]_vars
  PROVE  OnlyConditional'
<1>1. LoopType /\ getWaitingProcesses \in Seq(Conditional)
  BY TypeParts, WaitingType DEF TypeInv
<1>2. CASE UNCHANGED <<waiting, loop>>
  BY <1>2 DEF OnlyConditional
<1>3. CASE LoopReceive
  BY <1>1, <1>3 DEF LoopReceive, OnlyConditional, LoopType
<1>4. CASE EvalBegin
  BY <1>1, <1>4 DEF EvalBegin, OnlyConditional, LoopType
<1>5. CASE EvalEach
  <2>1. Tail(loop.todo) \in Seq(Conditional)
    BY <1>5, TailType DEF EvalEach, OnlyConditional
  <2>2. loop'.todo = Tail(loop.todo) /\ waiting' = waiting
    BY <1>1, <1>5 DEF EvalEach, LoopType
  <2> QED BY <2>1, <2>2 DEF OnlyConditional
<1>6. CASE EvalEnd
  BY <1>1, <1>6 DEF EvalEnd, OnlyConditional, LoopType
<1>7. CASE StartEnd
  BY <1>1, <1>7 DEF StartEnd, OnlyConditional, LoopType
<1>8. CASE \/ ApplyBegin \/ StopEach \/ StopWaited \/ StopEnd \/ CreateProcesses \/ StartEach
           \/ UNCHANGED vars
  BY <1>2, <1>8 DEF ApplyBegin, StopEach, StopWaited, StopEnd, CreateProcesses, StartEach, vars
<1>9. CASE \E r \in runs : \/ RunBegin(r) \/ SendUp(r) \/ RunExit(r) \/ RunReadState(r)
                           \/ RunSetState(r) \/ SendDown(r)
  BY <1>2, <1>9 DEF RunBegin, SendUp, RunExit, RunReadState, RunSetState, SendDown, runFrame
<1>10. CASE \E k \in {"go", "halt"} : LogEvent(k)
  BY <1>2, <1>10 DEF LogEvent
<1> QED BY <1>3, <1>4, <1>5, <1>6, <1>7, <1>8, <1>9, <1>10 DEF Next

(* Nothing happens to the processes. *)
LEMMA SameChild ==
  ASSUME Exclusive, StateHeld, FailsOnce, UNCHANGED procVars, Quiet(eventsIn')
  PROVE  Exclusive' /\ StateHeld' /\ FailsOnce'
BY DEF procVars, Exclusive, StateHeld, Held, FailsOnce, Quiet

LEMMA SameQueue ==
  ASSUME UNCHANGED eventsIn
  PROVE  Quiet(eventsIn')
BY DEF Quiet

(* The event loop. *)
LEMMA LoopChild ==
  ASSUME ChildInv, FailuresContained, Loop
  PROVE  Exclusive' /\ StateHeld' /\ FailsOnce'
<1>0. /\ TypeInv /\ Exclusive /\ StateHeld /\ FailsOnce /\ OnlyConditional
      /\ eventsIn \in Seq(Event) /\ process \subseteq Objs
  BY DEF ChildInv, TypeInv, TypeOK
<1>1. CASE LoopReceive
  <2>1. eventsIn # <<>> /\ eventsIn' = Tail(eventsIn)
    BY <1>1 DEF LoopReceive
  <2>2. Quiet(eventsIn')
    BY <1>0, <2>1, ReceivedQueue DEF Quiet
  <2>3. CASE UNCHANGED procVars
    BY <1>0, <2>2, <2>3, SameChild
  <2>4. CASE ~UNCHANGED procVars
    <3>1. PICK o \in process : /\ o[1] = Head(eventsIn).name /\ Head(eventsIn).kind = "down"
                               /\ state[o] = "Dead" /\ Start(o)
      BY <1>1, <2>4 DEF LoopReceive, handleProcessDown
    <3>2. o \in Objs /\ o[1] \in Names /\ Head(eventsIn) \in Event
      BY <1>0, <2>1, TailType DEF Objs
    <3>3. Head(eventsIn) = Down(o[1])
      BY <3>1, <3>2 DEF Event, Down
    <3>4. ASSUME o[1] \in MayFail
          PROVE  ~Queued(o[1], eventsIn') /\ \A r \in runs : r.obj # o
      <4>1. AtMostOnce(o[1], eventsIn)
        BY <1>0, <3>2, <3>4 DEF FailsOnce
      <4>2. Queued(o[1], eventsIn) /\ ~Queued(o[1], eventsIn')
        BY <1>0, <2>1, <3>3, <4>1, ReceivedQueue
      <4> QED BY <1>0, <3>2, <3>4, <4>2 DEF FailsOnce
    <3> QED BY <1>0, <2>2, <3>1, <3>2, <3>4, StartChild
  <2> QED BY <2>3, <2>4
<1>2. CASE EvalBegin \/ EvalEnd
  BY <1>0, <1>2, SameChild, SameQueue DEF EvalBegin, EvalEnd
<1>3. CASE EvalEach
  <2>1. Head(loop.todo) \in Conditional
    BY <1>0, <1>3, TailType DEF EvalEach, OnlyConditional
  <2>2. PICK o \in Conditional : o = Head(loop.todo)
    BY <2>1
  <2>3. o \in Objs /\ o[1] \notin MayFail
    BY FailSeparate
  <2>4. /\ Start(o) \/ Stop(o) \/ UNCHANGED procVars
        /\ UNCHANGED eventsIn
    BY <1>3, <2>2 DEF EvalEach
  <2> QED BY <1>0, <2>3, <2>4, StartChild, StopChild, SameChild, SameQueue
<1> QED BY <1>1, <1>2, <1>3 DEF Loop

(* An apply stops only what an earlier one created... *)
LEMMA StopEachChild ==
  ASSUME ChildInv, FailuresContained, StopEach
  PROVE  Exclusive' /\ StateHeld' /\ FailsOnce'
<1>1. daemon.todo \in Seq(Objs) /\ daemon.todo # <<>> /\ Stop(Head(daemon.todo)) /\ UNCHANGED eventsIn
  BY DEF ChildInv, TypeInv, TypeOK, StopEach, applyFrame
<1>2. PICK o \in Objs : o = Head(daemon.todo)
  BY <1>1, TailType
<1>3. MaxApplies >= 2
  BY ProcessManagerAssumption
  DEF ChildInv, TypeInv, TypeOK, AppliesCounted, Pending, StopEach
<1>4. o[1] \notin MayFail
  BY <1>3, ProcessManagerAssumption DEF FailuresContained
<1> QED BY <1>1, <1>2, <1>4, StopChild DEF ChildInv

(* ...and starts what it created itself. *)
LEMMA StartEachChild ==
  ASSUME ChildInv, FailuresContained, StartEach
  PROVE  Exclusive' /\ StateHeld' /\ FailsOnce'
<1>0. TypeInv /\ Exclusive /\ StateHeld /\ FailsOnce
  BY DEF ChildInv
<1>1. daemon.todo \in Seq(Objs) /\ daemon.todo # <<>> /\ UNCHANGED eventsIn
  BY DEF ChildInv, TypeInv, TypeOK, StartEach, applyFrame
<1>2. PICK o \in Objs : o = Head(daemon.todo)
  BY <1>1, TailType
<1>3. CASE UNCHANGED procVars
  BY <1>0, <1>1, <1>3, SameChild, SameQueue
<1>4. CASE Start(o) /\ state[o] \in {"Created", "Stopped"}
  <2>1. o[1] \in MayFail => ~Queued(o[1], eventsIn') /\ \A r \in runs : r.obj # o
    BY <1>0, <1>1, <1>4 DEF FailsOnce
  <2> QED BY <1>0, <1>1, <1>4, <2>1, StartChild, SameQueue
<1> QED BY <1>2, <1>3, <1>4 DEF StartEach

LEMMA ChildNext ==
  ASSUME FailuresContained
  PROVE  ChildInv /\ [Next]_vars => ChildInv'
<1> SUFFICES ASSUME ChildInv, [Next]_vars PROVE ChildInv'
  OBVIOUS
<1>0. TypeInv' /\ OnlyConditional'
  BY TypeNext, ListsKept DEF ChildInv
<1>1. Exclusive' /\ StateHeld' /\ FailsOnce'
  <2>1. CASE UNCHANGED <<procVars, eventsIn>>
    BY <2>1, SameChild, SameQueue DEF ChildInv
  <2>2. CASE \/ ApplyBegin \/ StopWaited \/ StopEnd \/ CreateProcesses \/ StartEnd
             \/ UNCHANGED vars
    BY <2>1, <2>2
    DEF ApplyBegin, StopWaited, StopEnd, CreateProcesses, StartEnd, applyFrame, vars
  <2>3. CASE StopEach
    BY <2>3, StopEachChild
  <2>4. CASE StartEach
    BY <2>4, StartEachChild
  <2>5. CASE Loop
    BY <2>5, LoopChild
  <2>6. CASE \E r \in runs : \/ RunBegin(r) \/ SendUp(r) \/ RunExit(r) \/ RunReadState(r)
                             \/ RunSetState(r)
    BY <2>6, RunChild
  <2>7. CASE \E r \in runs : SendDown(r)
    BY <2>7, DownChild
  <2>8. CASE \E k \in {"go", "halt"} : LogEvent(k)
    <3>1. PICK k \in {"go", "halt"} : LogEvent(k)
      BY <2>8
    <3>2. eventsIn \in Seq(Event) /\ Data(k) \in Event /\ \A n : Data(k) # Down(n)
      <4>1. eventsIn \in Seq(Event)
        BY DEF ChildInv, TypeInv, TypeOK
      <4>2. \A n : Data(k).kind # Down(n).kind
        BY DEF Data, Down
      <4> QED BY <4>1, <4>2, EventTypes
    <3>3. Quiet(eventsIn')
      BY <3>1, <3>2, SentQueue DEF LogEvent, Quiet
    <3> QED BY <3>1, <3>3, SameChild DEF ChildInv, LogEvent
  <2> QED BY <2>2, <2>3, <2>4, <2>5, <2>6, <2>7, <2>8 DEF Next, Loop
<1> QED BY <1>0, <1>1 DEF ChildInv

LEMMA ChildInit == Init => ChildInv
<1> SUFFICES ASSUME Init PROVE ChildInv
  OBVIOUS
<1>1. runs = {} /\ eventsIn = <<>> /\ waiting = <<>> /\ loop.todo = <<>>
  BY DEF Init
<1>2. \A o \in Objs : state[o] = "Created"
  BY DEF Init
<1>3. \A n : ~Queued(n, <<>>) /\ AtMostOnce(n, <<>>)
  BY DEF Queued, AtMostOnce
<1>4. OnlyConditional
  BY <1>1 DEF OnlyConditional
<1>5. Exclusive /\ StateHeld /\ FailsOnce
  BY <1>1, <1>2, <1>3 DEF Exclusive, StateHeld, FailsOnce
<1> QED BY <1>4, <1>5, TypeInit DEF ChildInv

(* A set any two of whose elements are equal has at most one. *)
LEMMA AtMostOne ==
  ASSUME NEW S, \A x, y \in S : x = y
  PROVE  Cardinality(S) <= 1
<1>1. CASE S = {}
  BY <1>1, FS_EmptySet
<1>2. CASE S # {}
  <2>1. PICK x \in S : TRUE
    BY <1>2
  <2>2. S = {x}
    BY <2>1
  <2> QED BY <2>2, FS_Singleton
<1> QED BY <1>1, <1>2

(* No process object ever has two children at once, for any set of         *)
(* processes, conditions and applies: the daemon's StartProcesses, the     *)
(* conditions of evalActions and the restart in handleProcessDown never    *)
(* start it while a goroutine of run() is before the end of its child.     *)
(* Where cmd.Start may fail this needs one apply and no conditions.        *)
THEOREM NeverTwoChildren ==
  ASSUME FailuresContained
  PROVE  Spec => []OneChild
<1>1. ChildInv => OneChild
  <2> SUFFICES ASSUME ChildInv, NEW o \in Objs
               PROVE Cardinality({r \in runs : r.obj = o /\ r.pc \in {"begin", "up", "wait"}}) <= 1
    BY DEF OneChild
  <2> DEFINE S == {r \in runs : r.obj = o /\ r.pc \in {"begin", "up", "wait"}}
  <2>1. \A x, y \in S : x = y
    BY DEF ChildInv, Exclusive
  <2> HIDE DEF S
  <2>2. Cardinality(S) <= 1
    BY <2>1, AtMostOne
  <2> QED BY <2>2 DEF S
<1> QED BY ChildInit, ChildNext, <1>1, PTL DEF Spec
=============================================================================
