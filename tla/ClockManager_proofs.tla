------------------------ MODULE ClockManager_proofs -------------------------
(***************************************************************************)
(* Theorems about ClockManager, for every set of configs, interfaces and   *)
(* classes and every channel capacity.                                     *)
(***************************************************************************)
EXTENDS ClockManager, TLAPS

(* The worse of two clock states is a clock state. *)
LEMMA WorstType ==
  ASSUME NEW a \in PTPState, NEW b \in PTPState
  PROVE  worstOfState(a, b) \in PTPState
BY DEF worstOfState, PTPState

(* Only FREERUN, HOLDOVER and LOCKED are ever sent. *)
LEMMA IPCStateType ==
  ASSUME NEW s
  PROVE  PtpStateToIPCState(s) \in IPCState
BY DEF PtpStateToIPCState, IPCState

(* Removing the head of a non-empty sequence, or appending to a sequence,  *)
(* leaves a sequence over the same set.                                    *)
LEMMA QueueType ==
  ASSUME NEW S, NEW q \in Seq(S), q # <<>>
  PROVE  Head(q) \in S /\ Tail(q) \in Seq(S)
OBVIOUS

(* What the producers and the timers put into the channels are events. *)
LEMMA EventTypes ==
  ASSUME NEW c \in Cfgs
  PROVE  /\ \A i \in Ifaces, in \in BOOLEAN : Offset(c, i, in) \in ProcessEvent
         /\ \A i \in Ifaces : SourceLost(c, i) \in ProcessEvent
         /\ \A k \in GMClasses : ParentDS(c, k) \in ProcessEvent
         /\ Reset(c) \in ProcessEvent
         /\ \A s \in OSStates : OsSample(s) \in ProcessEvent
         /\ \A t \in TimerSet : Expired(t) \in Event
         /\ \A n \in Nat, g \in Nat : Timer(c, n, g) \in TimerSet
BY DEF Offset, SourceLost, ParentDS, Reset, OsSample, Expired, Timer, TimerSet,
       ProcessEvent, Event

(* The keys under which the clocks send are keys of the IPC cache. *)
LEMMA KeyTypes ==
  ASSUME NEW c \in Cfgs, NEW i \in Ifaces \cup {NoIface}
  PROVE  PtpKey(c, i) \in Keys /\ SyncKey(c) \in Keys /\ OsKey \in Keys
BY DEF Keys

(* A non-blocking send leaves eventsIn a sequence of process events. *)
LEMMA OfferType ==
  ASSUME NEW ev \in ProcessEvent, eventsIn \in Seq(ProcessEvent), Offer(ev)
  PROVE  eventsIn' \in Seq(ProcessEvent)
BY DEF Offer

(* The fields an event of each kind has. *)
LEMMA EventFields ==
  ASSUME NEW e \in Event
  PROVE  /\ e.kind \in {"offset", "sourceLost", "parentDS", "reset", "os", "expired"}
         /\ e.kind # "os" => e.cfg \in Cfgs
         /\ e.kind \in {"offset", "sourceLost"} => e.iface \in Ifaces
         /\ e.kind = "parentDS" => e.class \in GMClasses
         /\ e.kind = "os" => e.state \in OSStates
         /\ e.kind = "expired" => e.timer \in TimerSet
BY DEF Event, ProcessEvent

(* Arming and cancelling a holdover timer keep the timer state in its type. *)
LEMMA TimerOpsType ==
  ASSUME TypeOK, NEW c \in Cfgs, cancelHoldoverTimer(c) \/ armHoldoverTimer(c)
  PROVE  /\ armed' \in [Cfgs -> BOOLEAN]
         /\ holdoverGen' \in [Cfgs -> Nat]
         /\ sleeping' \subseteq TimerSet
<1>1. CASE cancelHoldoverTimer(c)
  <2>1. holdoverGen[c] + 1 \in Nat
    BY DEF TypeOK
  <2> QED BY <1>1, <2>1 DEF cancelHoldoverTimer, TypeOK
<1>2. CASE armHoldoverTimer(c)
  <2> DEFINE g == holdoverGen[c] + (IF armed[c] THEN 2 ELSE 1)
  <2>1. g \in Nat
    BY DEF TypeOK
  <2>2. Timer(c, inst[c], g) \in TimerSet
    BY <2>1 DEF Timer, TimerSet, TypeOK
  <2> HIDE DEF g
  <2>3. /\ armed' = [armed EXCEPT ![c] = TRUE]
        /\ holdoverGen' = [holdoverGen EXCEPT ![c] = g]
        /\ sleeping' \subseteq sleeping \cup {Timer(c, inst[c], g)}
    BY <1>2 DEF armHoldoverTimer, g
  <2> QED BY <2>1, <2>2, <2>3 DEF TypeOK
<1> QED BY <1>1, <1>2

(* onStateChanged keeps clock states and cached messages in their types. *)
LEMMA StateChangeType ==
  ASSUME TypeOK, NEW c \in Cfgs, NEW next \in PTPState,
         NEW i \in Ifaces \cup {NoIface}, onStateChanged(c, next, i)
  PROVE  /\ syncState' \in [Cfgs -> PTPState]
         /\ overall' \in [Cfgs -> PTPState]
         /\ store' \in [Keys -> IPCState \cup {NoMsg}]
<1>1. worstOfState(next, osState) \in PTPState
  BY WorstType DEF TypeOK, IPCState, PTPState
<1>2. PtpStateToIPCState(worstOfState(next, osState)) \in IPCState
      /\ PtpStateToIPCState(next) \in IPCState
  BY IPCStateType
<1> QED BY <1>1, <1>2 DEF onStateChanged, TypeOK

(* Every step keeps every variable in its type. *)
LEMMA TypeNext ==
  ASSUME TypeOK, [Next]_vars
  PROVE  TypeOK'
<1> USE ClockManagerAssumption
<1>1. CASE RemoveAllClocks
  BY <1>1 DEF RemoveAllClocks, TypeOK, clockVars, timerVars, storeVars, IPCState
<1>2. CASE \E c \in Cfgs : AddClock(c)
  BY <1>2 DEF AddClock, TypeOK, timerVars, storeVars, portVars, PTPState
<1>3. CASE \E c \in Cfgs, i \in Ifaces : PortSlave(c, i)
  BY <1>3 DEF PortSlave, TypeOK, producerFrame, applyVars, clockVars, timerVars, storeVars
<1>4. CASE \E c \in Cfgs, in \in BOOLEAN : Ptp4lOffset(c, in)
  <2> PICK c \in Cfgs, in \in BOOLEAN : Ptp4lOffset(c, in)
    BY <1>4
  <2>1. eventsIn' \in Seq(ProcessEvent)
    <3>1. CASE slaveIface[c] # NoIface
      <4>1. slaveIface[c] \in Ifaces
        BY <3>1 DEF TypeOK
      <4>2. Offset(c, slaveIface[c], in) \in ProcessEvent
        BY <4>1, EventTypes
      <4> QED BY <3>1, <4>2, OfferType DEF Ptp4lOffset, TypeOK
    <3>2. CASE slaveIface[c] = NoIface
      BY <3>2 DEF Ptp4lOffset, TypeOK
    <3> QED BY <3>1, <3>2
  <2> QED BY <2>1 DEF Ptp4lOffset, TypeOK, producerFrame, applyVars, clockVars,
                      timerVars, storeVars
<1>5. CASE \E c \in Cfgs : PortFaulty(c)
  <2> PICK c \in Cfgs : PortFaulty(c)
    BY <1>5
  <2>1. slaveIface[c] \in Ifaces
    BY DEF PortFaulty, TypeOK
  <2>2. eventsIn' \in Seq(ProcessEvent)
    BY <2>1, EventTypes, OfferType DEF PortFaulty, TypeOK
  <2> QED BY <2>2 DEF PortFaulty, TypeOK, producerFrame, applyVars, clockVars,
                      timerVars, storeVars
<1>6. CASE \E c \in Cfgs, k \in GMClasses : PmcParentDS(c, k)
  <2>1. eventsIn' \in Seq(ProcessEvent)
    BY <1>6, EventTypes, OfferType DEF PmcParentDS, TypeOK
  <2> QED BY <1>6, <2>1 DEF PmcParentDS, TypeOK, producerFrame, applyVars, clockVars,
                      timerVars, storeVars, portVars
<1>7. CASE \E s \in OSStates : OsClockSample(s)
  <2>1. eventsIn' \in Seq(ProcessEvent)
    <3> PICK s \in OSStates : OsClockSample(s)
      BY <1>7
    <3>1. OsSample(s) \in ProcessEvent
      BY DEF OsSample, ProcessEvent
    <3> QED BY <3>1, OfferType DEF OsClockSample, TypeOK
  <2> QED BY <1>7, <2>1 DEF OsClockSample, TypeOK, producerFrame, applyVars, clockVars,
                      timerVars, storeVars, portVars
<1>8. CASE \E c \in Cfgs : Ts2phcDown(c)
  <2>1. eventsIn' \in Seq(ProcessEvent)
    BY <1>8, EventTypes, OfferType DEF Ts2phcDown, TypeOK
  <2> QED BY <1>8, <2>1 DEF Ts2phcDown, TypeOK, producerFrame, applyVars, clockVars,
                      timerVars, storeVars, portVars
<1>9. CASE Forward
  <2>1. Head(eventsIn) \in Event /\ Tail(eventsIn) \in Seq(ProcessEvent)
    BY <1>9, QueueType DEF Forward, TypeOK, Event
  <2>2. events' \in Seq(Event) /\ eventsIn' \in Seq(ProcessEvent)
    BY <1>9, <2>1 DEF Forward, TypeOK
  <2> QED BY <1>9, <2>2 DEF Forward, TypeOK, applyVars, clockVars, timerVars, storeVars,
                      portVars
<1>10. CASE \E t \in sleeping : TimerTimeout(t)
  BY <1>10 DEF TimerTimeout, TypeOK, applyVars, clockVars, storeVars, portVars
<1>11. CASE \E t \in firing : TimerPost(t)
  <2> PICK t \in firing : TimerPost(t)
    BY <1>11
  <2>1. Expired(t) \in Event
    BY DEF TypeOK, TimerSet, Expired, Event
  <2>2. events' \in Seq(Event)
    BY <2>1 DEF TimerPost, TypeOK
  <2> QED BY <2>2 DEF TimerPost, TypeOK, applyVars, clockVars, storeVars, portVars
<1>12. CASE ProcessEvents
  <2> DEFINE e == Head(events)
  <2>1. events # <<>> /\ events' = Tail(events)
    BY <1>12 DEF ProcessEvents, Take, HandleUnknown, HandleOffset, HandleSourceLost,
                 HandleExpired, HandleParentDS, HandleOsSample, HandleReset
  <2>2. e \in Event /\ events' \in Seq(Event)
    BY <2>1, QueueType DEF TypeOK
  <2>3. CASE HandleUnknown
    BY <2>2, <2>3 DEF HandleUnknown, TypeOK, loopFrame, applyVars, portVars, storeVars
  <2>4. CASE HandleOffset
    <3>1. e.cfg \in Cfgs /\ e.iface \in Ifaces
      BY <2>2, <2>4, EventFields DEF HandleOffset, Take
    <3>2. cancelHoldoverTimer(e.cfg)
          /\ onStateChanged(e.cfg, IF e.inRange THEN "LOCKED" ELSE "FREERUN", e.iface)
      BY <2>4 DEF HandleOffset
    <3>3. (IF e.inRange THEN "LOCKED" ELSE "FREERUN") \in PTPState
      BY DEF PTPState
    <3> QED BY <2>2, <2>4, <3>1, <3>2, <3>3, TimerOpsType, StateChangeType
            DEF HandleOffset, TypeOK, loopFrame, applyVars, portVars
  <2>5. CASE HandleSourceLost
    <3>1. e.cfg \in Cfgs /\ e.iface \in Ifaces
      BY <2>2, <2>5, EventFields DEF HandleSourceLost, Take
    <3>2. syncState[e.cfg] \in PTPState /\ "HOLDOVER" \in PTPState
      BY <3>1 DEF TypeOK, PTPState
    <3>3. /\ syncState' \in [Cfgs -> PTPState]
          /\ overall' \in [Cfgs -> PTPState]
          /\ store' \in [Keys -> IPCState \cup {NoMsg}]
      BY <2>5, <3>1, <3>2, StateChangeType DEF HandleSourceLost
    <3>4. /\ armed' \in [Cfgs -> BOOLEAN]
          /\ holdoverGen' \in [Cfgs -> Nat]
          /\ sleeping' \subseteq TimerSet
      BY <2>5, <3>1, TimerOpsType DEF HandleSourceLost, TypeOK
    <3> QED BY <2>2, <2>5, <3>3, <3>4
            DEF HandleSourceLost, TypeOK, loopFrame, applyVars, portVars
  <2>6. CASE HandleExpired
    <3>1. e.cfg \in Cfgs
      BY <2>2, <2>6, EventFields DEF HandleExpired, Take
    <3>2. /\ syncState' \in [Cfgs -> PTPState]
          /\ overall' \in [Cfgs -> PTPState]
          /\ store' \in [Keys -> IPCState \cup {NoMsg}]
      <4>1. iface[e.cfg] \in Ifaces \cup {NoIface} /\ "FREERUN" \in PTPState
        BY <3>1 DEF TypeOK, PTPState
      <4> QED BY <2>6, <3>1, <4>1, StateChangeType DEF HandleExpired, TypeOK
    <3>3. armed' \in [Cfgs -> BOOLEAN]
      BY <2>6, <3>1 DEF HandleExpired, TypeOK
    <3> QED BY <2>2, <2>6, <3>2, <3>3 DEF HandleExpired, TypeOK, loopFrame, applyVars,
                                          portVars
  <2>7. CASE HandleParentDS
    <3>1. e.cfg \in Cfgs /\ e.class \in GMClasses
      BY <2>2, <2>7, EventFields DEF HandleParentDS, Take
    <3>2. (IF e.cfg \in OCs THEN 255 ELSE e.class) \in Nat
      <4>1. e.class \in Nat
        BY <3>1, ClockManagerAssumption
      <4> QED BY <4>1
    <3>3. classStore' \in [ClassKeys -> Nat]
      BY <2>7, <3>2 DEF HandleParentDS, TypeOK
    <3> QED BY <2>2, <2>7, <3>1, <3>2, <3>3
            DEF HandleParentDS, TypeOK, loopFrame, applyVars, portVars
  <2>8. CASE HandleOsSample
    <3>1. e.state \in OSStates
      BY <2>2, <2>8, EventFields DEF HandleOsSample, Take
    <3>2. osState' \in IPCState
      BY <2>8, <3>1 DEF HandleOsSample, IPCState
    <3>3. overall' \in [Cfgs -> PTPState]
      <4>1. \A c \in Cfgs : worstOfState(syncState[c], e.state) \in PTPState
        BY <3>1, WorstType DEF TypeOK, PTPState
      <4> QED BY <2>8, <4>1 DEF HandleOsSample, TypeOK
    <3>4. store' \in [Keys -> IPCState \cup {NoMsg}]
      <4>1. CASE e.state = osState
        BY <2>8, <4>1 DEF HandleOsSample, TypeOK
      <4>2. CASE e.state # osState
        <5>1. PICK f : store' = [k \in Keys |->
                   IF k = OsKey THEN PtpStateToIPCState(e.state)
                   ELSE IF f[k] THEN PtpStateToIPCState(worstOfState(syncState[k[2]], e.state))
                        ELSE store[k]]
          <6> DEFINE h == [k \in Keys |-> \E c \in registered :
                             k = SyncKey(c) /\ worstOfState(syncState[c], e.state) # overall[c]]
          <6>1. store' = [k \in Keys |->
                   IF k = OsKey THEN PtpStateToIPCState(e.state)
                   ELSE IF h[k] THEN PtpStateToIPCState(worstOfState(syncState[k[2]], e.state))
                        ELSE store[k]]
            BY <2>8, <4>2 DEF HandleOsSample
          <6> QED BY <6>1
        <5>2. \A k \in Keys : store'[k] \in IPCState \cup {NoMsg}
          BY <5>1, IPCStateType DEF TypeOK
        <5> QED BY <5>1, <5>2
      <4> QED BY <4>1, <4>2
    <3> QED BY <2>2, <2>8, <3>2, <3>3, <3>4
            DEF HandleOsSample, TypeOK, loopFrame, applyVars, portVars
  <2>9. CASE HandleReset
    <3>1. e.cfg \in Cfgs
      BY <2>2, <2>9, EventFields DEF HandleReset, Take
    <3>2. /\ armed' \in [Cfgs -> BOOLEAN]
          /\ holdoverGen' \in [Cfgs -> Nat]
          /\ sleeping' \subseteq TimerSet
      BY <2>9, <3>1, TimerOpsType DEF HandleReset, TypeOK
    <3>3. /\ store' \in [Keys -> IPCState \cup {NoMsg}]
          /\ classStore' \in [ClassKeys -> Nat]
      BY <2>9 DEF HandleReset, EmptyStore, EmptyClassStore
    <3>4. /\ syncState' \in [Cfgs -> PTPState] /\ overall' \in [Cfgs -> PTPState]
          /\ clockClass' \in [Cfgs -> Nat] /\ iface' \in [Cfgs -> Ifaces \cup {NoIface}]
          /\ osState' \in IPCState
      <4>1. CASE e.cfg \in registered
        <5>1. "FREERUN" \in PTPState /\ "FREERUN" \in IPCState
          BY DEF PTPState, IPCState
        <5>2. /\ osState' = "FREERUN"
              /\ syncState' = [syncState EXCEPT ![e.cfg] = "FREERUN"]
              /\ overall' = [overall EXCEPT ![e.cfg] = "FREERUN"]
              /\ clockClass' = [clockClass EXCEPT ![e.cfg] = 0]
              /\ iface' = [iface EXCEPT ![e.cfg] = NoIface]
          BY <2>9, <4>1 DEF HandleReset
        <5>3. syncState' \in [Cfgs -> PTPState]
          BY <5>1, <5>2 DEF TypeOK
        <5>4. overall' \in [Cfgs -> PTPState]
          BY <5>1, <5>2 DEF TypeOK
        <5> QED BY <5>1, <5>2, <5>3, <5>4 DEF TypeOK
      <4>2. CASE e.cfg \notin registered
        BY <2>9, <4>2 DEF HandleReset, TypeOK
      <4> QED BY <4>1, <4>2
    <3> QED BY <2>2, <2>9, <3>2, <3>3, <3>4
            DEF HandleReset, TypeOK, loopFrame, applyVars, portVars
  <2> QED BY <1>12, <2>3, <2>4, <2>5, <2>6, <2>7, <2>8, <2>9 DEF ProcessEvents
<1>13. CASE UNCHANGED vars
  BY <1>13 DEF vars, TypeOK, applyVars, clockVars, timerVars, storeVars, portVars
<1> QED
  BY <1>1, <1>2, <1>3, <1>4, <1>5, <1>6, <1>7, <1>8, <1>9, <1>10, <1>11, <1>12, <1>13
     DEF Next

(* Type correctness of the clock manager. *)
THEOREM TypeCorrect == Spec => []TypeOK
<1>1. Init => TypeOK
  BY ClockManagerAssumption
     DEF Init, TypeOK, EmptyStore, EmptyClassStore, PTPState, IPCState
<1> QED BY <1>1, TypeNext, PTL DEF Spec

-----------------------------------------------------------------------------
(* Holdover always has a way to end. *)

(* What is in a queue is still there, at the same place, after an append. *)
LEMMA AppendKeeps ==
  ASSUME NEW S, NEW q \in Seq(S), NEW x \in S, NEW n \in 1..Len(q)
  PROVE  n \in 1..Len(Append(q, x)) /\ Append(q, x)[n] = q[n]
OBVIOUS

(* What an append adds is at the end. *)
LEMMA AppendAdds ==
  ASSUME NEW S, NEW q \in Seq(S), NEW x \in S
  PROVE  /\ Len(q) + 1 \in 1..Len(Append(q, x)) /\ Append(q, x)[Len(q) + 1] = x
         /\ \A n \in 1..Len(Append(q, x)) : n # Len(q) + 1 => n \in 1..Len(q)
OBVIOUS

(* Taking the head moves every other element down by one place. *)
LEMMA TailShifts ==
  ASSUME NEW S, NEW q \in Seq(S), q # <<>>
  PROVE  /\ \A n \in 1..Len(q) : n # 1 => n - 1 \in 1..Len(Tail(q)) /\ Tail(q)[n - 1] = q[n]
         /\ \A n \in 1..Len(Tail(q)) : n + 1 \in 1..Len(q) /\ Tail(q)[n] = q[n + 1]
         /\ 1 \in 1..Len(q) /\ Head(q) = q[1]
OBVIOUS

(* The expiry of timer t is in queue q; it is on its way. *)
Queued(q, t) == \E n \in 1..Len(q) : q[n] = Expired(t)
OnItsWay(t)  == t \in sleeping \/ t \in firing \/ Queued(events, t)

(* An expiry stays queued when another event is appended... *)
LEMMA QueuedAppend ==
  ASSUME NEW q \in Seq(Event), NEW x \in Event, NEW t, Queued(q, t)
  PROVE  Queued(Append(q, x), t)
BY AppendKeeps DEF Queued

(* ...is queued once it is appended itself... *)
LEMMA QueuedPost ==
  ASSUME NEW q \in Seq(Event), NEW t, Expired(t) \in Event
  PROVE  Queued(Append(q, Expired(t)), t)
<1>1. Len(q) + 1 \in 1..Len(Append(q, Expired(t)))
      /\ Append(q, Expired(t))[Len(q) + 1] = Expired(t)
  BY AppendAdds
<1> QED BY <1>1 DEF Queued

(* ...and stays queued when another event is taken. *)
LEMMA QueuedTail ==
  ASSUME NEW q \in Seq(Event), q # <<>>, NEW t, Queued(q, t), Head(q) # Expired(t)
  PROVE  Queued(Tail(q), t)
<1>1. PICK n \in 1..Len(q) : q[n] = Expired(t)
  BY DEF Queued
<1>2. n # 1
  BY <1>1, TailShifts
<1> QED BY <1>1, <1>2, TailShifts DEF Queued

(* HoldoverHasExpiry, with the three places folded into one. *)
LEMMA HoldoverWay ==
  HoldoverHasExpiry <=>
    \A c \in registered : syncState[c] = "HOLDOVER" => OnItsWay(CurrentTimer(c))
BY DEF HoldoverHasExpiry, Asleep, Fired, QueuedAt, OnItsWay, Queued

(* Timers of different configs differ, and so do their expiries. *)
LEMMA TimersDiffer ==
  ASSUME NEW c, NEW d, NEW m, NEW n, NEW g, NEW h, Timer(c, m, g) = Timer(d, n, h)
  PROVE  c = d /\ m = n /\ g = h
BY DEF Timer

(* Only events of kind expired are expiries; they tell their timer. *)
LEMMA ExpiredFields ==
  ASSUME NEW t
  PROVE  /\ Expired(t).kind = "expired" /\ Expired(t).cfg = t.cfg
         /\ Expired(t).timer = t
BY DEF Expired

(* No step takes the expiry of a holdover away without ending the holdover. *)
LEMMA HoldoverNext ==
  ASSUME TypeOK, HoldoverHasExpiry, [Next]_vars
  PROVE  HoldoverHasExpiry'
<1> SUFFICES ASSUME NEW d \in registered', syncState'[d] = "HOLDOVER"
             PROVE  OnItsWay(CurrentTimer(d))'
  BY HoldoverWay DEF HoldoverHasExpiry, Asleep, Fired, QueuedAt, OnItsWay, Queued
<1> DEFINE t == CurrentTimer(d)
<1>0. d \in registered /\ syncState[d] = "HOLDOVER" => OnItsWay(t)
  BY HoldoverWay
<1>1. CASE RemoveAllClocks
  BY <1>1 DEF RemoveAllClocks
<1>2. CASE \E c \in Cfgs : AddClock(c)
  <2> PICK c \in Cfgs : AddClock(c)
    BY <1>2
  <2>1. d # c /\ d \in registered /\ syncState[d] = "HOLDOVER" /\ t' = t
    BY DEF AddClock, TypeOK, CurrentTimer
  <2> QED BY <1>0, <2>1 DEF AddClock, OnItsWay, timerVars
<1>3. CASE /\ UNCHANGED <<registered, clockVars, timerVars>>
           /\ \/ UNCHANGED events
              \/ \E x \in Event : events' = Append(events, x)
  <2>1. t' = t /\ OnItsWay(t)
    BY <1>0, <1>3 DEF CurrentTimer, clockVars
  <2>2. Queued(events, t) => Queued(events', t)
    BY <1>3, QueuedAppend DEF TypeOK
  <2> QED BY <1>3, <2>1, <2>2 DEF OnItsWay, timerVars
<1>4. CASE \E u \in sleeping : TimerTimeout(u)
  <2>1. t' = t /\ OnItsWay(t)
    BY <1>0, <1>4 DEF TimerTimeout, CurrentTimer, clockVars, applyVars
  <2> QED BY <1>4, <2>1 DEF TimerTimeout, OnItsWay
<1>5. CASE \E u \in firing : TimerPost(u)
  <2> PICK u \in firing : TimerPost(u)
    BY <1>5
  <2>1. t' = t /\ OnItsWay(t)
    BY <1>0 DEF TimerPost, CurrentTimer, clockVars, applyVars
  <2>2. Expired(u) \in Event /\ events' = Append(events, Expired(u))
    BY DEF TimerPost, TypeOK, TimerSet, Expired, Event
  <2>3. Queued(events, t) => Queued(events', t)
    BY <2>2, QueuedAppend DEF TypeOK
  <2>4. Queued(events', u)
    BY <2>2, QueuedPost DEF TypeOK
  <2> QED BY <2>1, <2>3, <2>4 DEF TimerPost, OnItsWay
<1>6. CASE ProcessEvents
  <2> DEFINE e == Head(events)
             c == e.cfg
  <2>1. events # <<>> /\ events' = Tail(events)
    BY <1>6 DEF ProcessEvents, Take, HandleUnknown, HandleOffset, HandleSourceLost,
                HandleExpired, HandleParentDS, HandleOsSample, HandleReset
  <2>2. e \in Event
    BY <2>1, QueueType DEF TypeOK
  <2>3. /\ UNCHANGED <<registered, inst, firing>> /\ d \in registered
    BY <1>6 DEF ProcessEvents, HandleUnknown, HandleOffset, HandleSourceLost, HandleExpired,
                HandleParentDS, HandleOsSample, HandleReset, loopFrame, applyVars
  <2>4. e # Expired(t) => (Queued(events, t) => Queued(events', t))
    BY <2>1, QueuedTail DEF TypeOK
  <2>5. ASSUME UNCHANGED <<syncState, holdoverGen, sleeping>>, e # Expired(t)
        PROVE  OnItsWay(t)'
    BY <1>0, <2>3, <2>4, <2>5 DEF OnItsWay, CurrentTimer
  <2>6. CASE HandleUnknown
    <3>1. e # Expired(t)
      BY <2>3, <2>6, ExpiredFields DEF HandleUnknown, CurrentTimer, Timer
    <3> QED BY <2>5, <2>6, <3>1 DEF HandleUnknown
  <2>7. CASE HandleParentDS \/ HandleOsSample
    <3>1. e # Expired(t)
      BY <2>7, ExpiredFields DEF HandleParentDS, HandleOsSample, Take
    <3> QED BY <2>5, <2>7, <3>1 DEF HandleParentDS, HandleOsSample
  <2>8. ASSUME NEW b \in Cfgs, d # b,
               cancelHoldoverTimer(b) \/ armHoldoverTimer(b),
               syncState'[d] = syncState[d], e # Expired(t)
        PROVE  OnItsWay(t)'
    <3>1. t' = t
      BY <2>3, <2>8 DEF CurrentTimer, cancelHoldoverTimer, armHoldoverTimer, TypeOK
    <3>2. t # CurrentTimer(b)
      BY <2>8, TimersDiffer DEF CurrentTimer
    <3>3. t \in sleeping => t \in sleeping'
      BY <2>8, <3>2 DEF cancelHoldoverTimer, armHoldoverTimer
    <3> QED BY <1>0, <2>3, <2>4, <2>8, <3>1, <3>3 DEF OnItsWay
  <2>9. CASE HandleOffset
    <3>1. c \in Cfgs /\ e # Expired(t)
      BY <2>2, <2>9, EventFields, ExpiredFields DEF HandleOffset, Take
    <3>2. d # c /\ syncState'[d] = syncState[d]
      BY <2>9, <3>1 DEF HandleOffset, onStateChanged, TypeOK
    <3> QED BY <2>8, <2>9, <3>1, <3>2 DEF HandleOffset
  <2>10. CASE HandleSourceLost
    <3>1. c \in Cfgs /\ e # Expired(t)
      BY <2>2, <2>10, EventFields, ExpiredFields DEF HandleSourceLost, Take
    <3>2. CASE syncState[c] = "LOCKED"
      <4>1. armHoldoverTimer(c) /\ onStateChanged(c, "HOLDOVER", e.iface)
        BY <2>10, <3>2 DEF HandleSourceLost
      <4>2. CASE d = c
        <5>1. holdoverGen'[c] = holdoverGen[c] + (IF armed[c] THEN 2 ELSE 1)
          BY <3>1, <4>1 DEF armHoldoverTimer, TypeOK
        <5>2. t' \in sleeping'
          BY <2>3, <4>1, <4>2, <5>1 DEF armHoldoverTimer, CurrentTimer
        <5> QED BY <5>2 DEF OnItsWay
      <4>3. CASE d # c
        <5>1. syncState'[d] = syncState[d]
          BY <4>1, <4>3 DEF onStateChanged, TypeOK
        <5> QED BY <2>8, <3>1, <4>1, <4>3, <5>1
      <4> QED BY <4>2, <4>3
    <3>3. CASE syncState[c] # "LOCKED"
      <4>1. UNCHANGED <<syncState, holdoverGen, sleeping>>
        BY <2>10, <3>1, <3>3 DEF HandleSourceLost, onStateChanged, TypeOK
      <4> QED BY <2>5, <3>1, <4>1
    <3> QED BY <3>2, <3>3
  <2>11. CASE HandleExpired
    <3>1. c \in Cfgs
      BY <2>2, <2>11, EventFields DEF HandleExpired, Take
    <3>2. UNCHANGED <<holdoverGen, sleeping>> /\ t' = t
      BY <2>3, <2>11 DEF HandleExpired, CurrentTimer
    <3>3. syncState[d] = "HOLDOVER"
      <4>1. \/ UNCHANGED syncState
            \/ syncState' = [syncState EXCEPT ![c] = "FREERUN"]
        BY <2>11 DEF HandleExpired, onStateChanged
      <4> QED BY <2>3, <3>1, <4>1 DEF TypeOK
    <3>4. e # Expired(t)
      <4> SUFFICES ASSUME e = Expired(t) PROVE FALSE
        OBVIOUS
      <4>1. c = d /\ e.timer.gen = holdoverGen[c]
        BY ExpiredFields DEF CurrentTimer, Timer
      <4>2. syncState'[c] = "FREERUN"
        BY <2>11, <3>1, <3>3, <4>1 DEF HandleExpired, onStateChanged, TypeOK
      <4> QED BY <4>1, <4>2
    <3> QED BY <1>0, <2>3, <2>4, <3>2, <3>3, <3>4 DEF OnItsWay
  <2>12. CASE HandleReset
    <3>1. c \in Cfgs /\ e # Expired(t)
      BY <2>2, <2>12, EventFields, ExpiredFields DEF HandleReset, Take
    <3>2. CASE c \in registered
      <4>1. cancelHoldoverTimer(c) /\ syncState' = [syncState EXCEPT ![c] = "FREERUN"]
        BY <2>12, <3>2 DEF HandleReset
      <4>2. d # c /\ syncState'[d] = syncState[d]
        BY <3>1, <4>1 DEF TypeOK
      <4> QED BY <2>8, <3>1, <4>1, <4>2
    <3>3. CASE c \notin registered
      BY <2>5, <2>12, <3>1, <3>3 DEF HandleReset
    <3> QED BY <3>2, <3>3
  <2> QED BY <1>6, <2>6, <2>7, <2>9, <2>10, <2>11, <2>12 DEF ProcessEvents
<1>7. CASE Forward
  <2>1. Head(eventsIn) \in Event
    BY <1>7, QueueType DEF Forward, TypeOK, Event
  <2> QED BY <1>3, <1>7, <2>1 DEF Forward, applyVars
<1>8. CASE UNCHANGED vars
  BY <1>3, <1>8 DEF vars, applyVars
<1>9. CASE \/ \E c \in Cfgs, i \in Ifaces : PortSlave(c, i)
           \/ \E c \in Cfgs, in \in BOOLEAN : Ptp4lOffset(c, in)
           \/ \E c \in Cfgs : PortFaulty(c) \/ Ts2phcDown(c)
           \/ \E c \in Cfgs, k \in GMClasses : PmcParentDS(c, k)
           \/ \E s \in OSStates : OsClockSample(s)
  BY <1>3, <1>9 DEF PortSlave, Ptp4lOffset, PortFaulty, Ts2phcDown, PmcParentDS,
                    OsClockSample, producerFrame, applyVars
<1> QED BY <1>1, <1>2, <1>4, <1>5, <1>6, <1>7, <1>8, <1>9 DEF Next

(* A boundary or ordinary clock in HOLDOVER always has an expiry of its    *)
(* own on its way, however often profiles are applied, clocks reset and    *)
(* events lost: armHoldoverTimer and cancelHoldoverTimer never leave a     *)
(* holdover without a timer, and no other event can use it up.             *)
THEOREM HoldoverIsTimed == Spec => []HoldoverHasExpiry
<1>1. Init => HoldoverHasExpiry
  BY DEF Init, HoldoverHasExpiry
<1> QED BY <1>1, TypeCorrect, HoldoverNext, PTL DEF Spec

-----------------------------------------------------------------------------
(* Overall states are reconciled as long as no clock is reset. *)

(* No Reset event is in the queue. *)
NoReset(q) == \A n \in 1..Len(q) : q[n].kind # "reset"

(* Appending another event or taking one keeps a queue free of resets. *)
LEMMA NoResetQueue ==
  ASSUME NEW q \in Seq(Event), NoReset(q)
  PROVE  /\ \A x \in Event : x.kind # "reset" => NoReset(Append(q, x))
         /\ q # <<>> => NoReset(Tail(q)) /\ Head(q).kind # "reset"
<1>1. ASSUME NEW x \in Event, x.kind # "reset", NEW n \in 1..Len(Append(q, x))
      PROVE  Append(q, x)[n].kind # "reset"
  <2>1. CASE n = Len(q) + 1
    BY <1>1, <2>1, AppendAdds
  <2>2. CASE n # Len(q) + 1
    BY <1>1, <2>2, AppendAdds, AppendKeeps DEF NoReset
  <2> QED BY <2>1, <2>2
<1>2. ASSUME q # <<>> PROVE NoReset(Tail(q)) /\ Head(q).kind # "reset"
  BY <1>2, TailShifts DEF NoReset
<1> QED BY <1>1, <1>2 DEF NoReset

(* Where no profile runs ts2phc, nobody sends a Reset. *)
LEMMA NoResetNext ==
  ASSUME Ts2phcCfgs = {}, TypeOK, NoReset(eventsIn), NoReset(events), [Next]_vars
  PROVE  NoReset(eventsIn)' /\ NoReset(events)'
<1>0. eventsIn \in Seq(Event) /\ events \in Seq(Event)
  BY DEF TypeOK, Event
<1>1. ASSUME NEW x \in Event, x.kind # "reset", Offer(x)
      PROVE  NoReset(eventsIn)'
  BY <1>0, <1>1, NoResetQueue DEF Offer
<1>2. CASE UNCHANGED <<eventsIn, events>>
  BY <1>2
<1>3. CASE \E c \in Cfgs, in \in BOOLEAN : Ptp4lOffset(c, in)
  <2> PICK c \in Cfgs, in \in BOOLEAN : Ptp4lOffset(c, in)
    BY <1>3
  <2>1. slaveIface[c] # NoIface => Offset(c, slaveIface[c], in) \in Event
    BY EventTypes DEF TypeOK, Event
  <2>2. Offset(c, slaveIface[c], in).kind # "reset"
    BY DEF Offset
  <2> QED BY <1>1, <2>1, <2>2 DEF Ptp4lOffset, producerFrame
<1>4. CASE \E c \in Cfgs : PortFaulty(c)
  <2> PICK c \in Cfgs : PortFaulty(c)
    BY <1>4
  <2>1. SourceLost(c, slaveIface[c]) \in Event
    BY EventTypes DEF PortFaulty, TypeOK, Event
  <2>2. SourceLost(c, slaveIface[c]).kind # "reset"
    BY DEF SourceLost
  <2> QED BY <1>1, <2>1, <2>2 DEF PortFaulty, producerFrame
<1>5. CASE \E c \in Cfgs, k \in GMClasses : PmcParentDS(c, k)
  <2> PICK c \in Cfgs, k \in GMClasses : PmcParentDS(c, k)
    BY <1>5
  <2>1. ParentDS(c, k) \in Event /\ ParentDS(c, k).kind # "reset"
    BY EventTypes DEF ParentDS, Event
  <2> QED BY <1>1, <2>1 DEF PmcParentDS, producerFrame
<1>6. CASE \E s \in OSStates : OsClockSample(s)
  <2> PICK s \in OSStates : OsClockSample(s)
    BY <1>6
  <2>1. OsSample(s) \in Event /\ OsSample(s).kind # "reset"
    BY DEF OsSample, ProcessEvent, Event
  <2> QED BY <1>1, <2>1 DEF OsClockSample, producerFrame
<1>7. CASE \E c \in Cfgs : Ts2phcDown(c)
  BY <1>7 DEF Ts2phcDown
<1>8. CASE Forward
  <2>1. Head(eventsIn) \in Event /\ Head(eventsIn).kind # "reset" /\ NoReset(Tail(eventsIn))
    BY <1>0, <1>8, NoResetQueue, QueueType DEF Forward
  <2> QED BY <1>0, <1>8, <2>1, NoResetQueue DEF Forward
<1>9. CASE \E t \in firing : TimerPost(t)
  <2> PICK t \in firing : TimerPost(t)
    BY <1>9
  <2>1. Expired(t) \in Event /\ Expired(t).kind # "reset"
    BY DEF TypeOK, TimerSet, Expired, Event
  <2> QED BY <1>0, <2>1, NoResetQueue DEF TimerPost
<1>10. CASE ProcessEvents
  <2>1. events # <<>> /\ events' = Tail(events) /\ UNCHANGED eventsIn
    BY <1>10 DEF ProcessEvents, Take, HandleUnknown, HandleOffset, HandleSourceLost,
                 HandleExpired, HandleParentDS, HandleOsSample, HandleReset, loopFrame
  <2> QED BY <1>0, <2>1, NoResetQueue
<1>11. CASE \/ RemoveAllClocks \/ UNCHANGED vars
            \/ \E c \in Cfgs : AddClock(c)
            \/ \E c \in Cfgs, i \in Ifaces : PortSlave(c, i)
            \/ \E t \in sleeping : TimerTimeout(t)
  BY <1>2, <1>11 DEF RemoveAllClocks, AddClock, PortSlave, TimerTimeout, producerFrame, vars
<1> QED BY <1>3, <1>4, <1>5, <1>6, <1>7, <1>8, <1>9, <1>10, <1>11 DEF Next

(* onStateChanged reconciles its clock and leaves the others alone. *)
LEMMA StateChangeReconciles ==
  ASSUME TypeOK, OverallReconciled, NEW c \in Cfgs, NEW next, NEW i,
         onStateChanged(c, next, i), UNCHANGED <<registered, osState>>
  PROVE  OverallReconciled'
<1> SUFFICES ASSUME NEW d \in registered
             PROVE  overall'[d] = worstOfState(syncState'[d], osState)
  BY DEF OverallReconciled
<1>1. d \in Cfgs
  BY DEF TypeOK
<1>2. CASE d = c
  BY <1>1, <1>2 DEF onStateChanged, TypeOK
<1>3. CASE d # c
  <2>1. overall'[d] = overall[d] /\ syncState'[d] = syncState[d]
    BY <1>1, <1>3 DEF onStateChanged, TypeOK
  <2> QED BY <2>1 DEF OverallReconciled
<1> QED BY <1>2, <1>3

(* Every step that is not a reset keeps the overall states reconciled. *)
LEMMA ReconciledNext ==
  ASSUME TypeOK, OverallReconciled, NoReset(events), [Next]_vars
  PROVE  OverallReconciled'
<1>1. CASE UNCHANGED <<registered, overall, syncState, osState>>
  BY <1>1 DEF OverallReconciled
<1>2. CASE RemoveAllClocks
  BY <1>2 DEF RemoveAllClocks, OverallReconciled
<1>3. CASE \E c \in Cfgs : AddClock(c)
  <2> PICK c \in Cfgs : AddClock(c)
    BY <1>3
  <2> SUFFICES ASSUME NEW d \in registered'
               PROVE  overall'[d] = worstOfState(syncState'[d], osState')
    BY DEF OverallReconciled
  <2>1. CASE d = c
    BY <2>1 DEF AddClock, TypeOK, worstOfState
  <2>2. CASE d # c
    <3>1. d \in registered /\ overall'[d] = overall[d] /\ syncState'[d] = syncState[d]
          /\ osState' = osState
      BY <2>2 DEF AddClock, TypeOK
    <3> QED BY <3>1 DEF OverallReconciled
  <2> QED BY <2>1, <2>2
<1>4. CASE ProcessEvents
  <2> DEFINE e == Head(events)
  <2>1. events # <<>>
    BY <1>4 DEF ProcessEvents, Take, HandleUnknown, HandleOffset, HandleSourceLost,
                HandleExpired, HandleParentDS, HandleOsSample, HandleReset
  <2>2. e \in Event /\ events \in Seq(Event)
    BY <2>1, QueueType DEF TypeOK
  <2>3. CASE HandleUnknown \/ HandleParentDS
    BY <1>1, <2>3 DEF HandleUnknown, HandleParentDS, loopFrame, applyVars
  <2>4. CASE HandleOffset \/ HandleSourceLost
    <3>1. e.cfg \in Cfgs
      BY <2>2, <2>4, EventFields DEF HandleOffset, HandleSourceLost, Take
    <3>2. UNCHANGED <<registered, osState>>
      BY <2>4 DEF HandleOffset, HandleSourceLost, loopFrame, applyVars
    <3>3. \E next : onStateChanged(e.cfg, next, e.iface)
      BY <2>4 DEF HandleOffset, HandleSourceLost
    <3> QED BY <3>1, <3>2, <3>3, StateChangeReconciles
  <2>5. CASE HandleExpired
    <3>1. e.cfg \in Cfgs
      BY <2>2, <2>5, EventFields DEF HandleExpired, Take
    <3>2. UNCHANGED <<registered, osState>>
      BY <2>5 DEF HandleExpired, loopFrame, applyVars
    <3>3. \/ onStateChanged(e.cfg, "FREERUN", iface[e.cfg])
          \/ UNCHANGED <<overall, syncState>>
      BY <2>5 DEF HandleExpired
    <3> QED BY <1>1, <3>1, <3>2, <3>3, StateChangeReconciles
  <2>6. CASE HandleOsSample
    <3>1. UNCHANGED <<registered, syncState>> /\ osState' = e.state
      BY <2>6 DEF HandleOsSample, loopFrame, applyVars
    <3>2. CASE e.state = osState
      BY <1>1, <2>6, <3>1, <3>2 DEF HandleOsSample
    <3>3. CASE e.state # osState
      <4>1. \A d \in registered : overall'[d] = worstOfState(syncState[d], e.state)
        BY <2>6, <3>3 DEF HandleOsSample, TypeOK
      <4> QED BY <3>1, <4>1 DEF OverallReconciled
    <3> QED BY <3>2, <3>3
  <2>7. CASE HandleReset
    BY <2>1, <2>2, <2>7, NoResetQueue DEF HandleReset, Take
  <2> QED BY <1>4, <2>3, <2>4, <2>5, <2>6, <2>7 DEF ProcessEvents
<1>5. CASE \/ \E c \in Cfgs, i \in Ifaces : PortSlave(c, i)
           \/ \E c \in Cfgs, in \in BOOLEAN : Ptp4lOffset(c, in)
           \/ \E c \in Cfgs : PortFaulty(c) \/ Ts2phcDown(c)
           \/ \E c \in Cfgs, k \in GMClasses : PmcParentDS(c, k)
           \/ \E s \in OSStates : OsClockSample(s)
  BY <1>1, <1>5 DEF PortSlave, Ptp4lOffset, PortFaulty, Ts2phcDown, PmcParentDS,
                    OsClockSample, producerFrame, applyVars, clockVars
<1>6. CASE \/ Forward \/ UNCHANGED vars
           \/ \E t \in sleeping : TimerTimeout(t)
           \/ \E t \in firing : TimerPost(t)
  BY <1>1, <1>6 DEF Forward, TimerTimeout, TimerPost, vars, applyVars, clockVars
<1> QED BY <1>2, <1>3, <1>4, <1>5, <1>6 DEF Next

(* Where no profile runs ts2phc, every registered clock's overall state is *)
(* at all times the worse of its own and the system clock's state, for any *)
(* number of clocks: onStateChanged and handleOSClockEvent together leave  *)
(* no clock behind.  Reset is excluded because BaseClock.Reset resets the  *)
(* shared system clock and reconciles only one of the clocks.              *)
THEOREM Reconciled ==
  ASSUME Ts2phcCfgs = {}
  PROVE  Spec => []OverallReconciled
<1>1. Init => OverallReconciled /\ NoReset(eventsIn) /\ NoReset(events)
  BY DEF Init, OverallReconciled, NoReset
<1>2. TypeOK /\ NoReset(eventsIn) /\ NoReset(events) /\ [Next]_vars
        => NoReset(eventsIn)' /\ NoReset(events)'
  BY NoResetNext
<1>3. TypeOK /\ OverallReconciled /\ NoReset(events) /\ [Next]_vars => OverallReconciled'
  BY ReconciledNext
<1> QED BY <1>1, <1>2, <1>3, TypeCorrect, PTL DEF Spec
-----------------------------------------------------------------------------
(* The IPC cache holds what the clocks are in, as long as it is not        *)
(* cleared by a reset.                                                     *)

(* No two clocks, and no two message types, share a key of the cache. *)
LEMMA KeysDiffer ==
  ASSUME NEW c, NEW d, NEW i, NEW j
  PROVE  /\ PtpKey(c, i) # SyncKey(d) /\ PtpKey(c, i) # OsKey /\ SyncKey(d) # OsKey
         /\ c # d => PtpKey(c, i) # PtpKey(d, j) /\ SyncKey(c) # SyncKey(d)
         /\ SyncKey(d)[2] = d
BY DEF PtpKey, SyncKey, OsKey

(* SnapshotCurrent, for one clock. *)
SnapshotOf(c) ==
  syncState[c] # "NOTSET" =>
    /\ store[SyncKey(c)] = PtpStateToIPCState(overall[c])
    /\ \E i \in Ifaces \cup {NoIface} : store[PtpKey(c, i)] = syncState[c]

(* A clock whose state and messages a step leaves alone stays as told. *)
LEMMA SnapshotFrame ==
  ASSUME NEW d, SnapshotOf(d), syncState'[d] = syncState[d], overall'[d] = overall[d],
         store'[SyncKey(d)] = store[SyncKey(d)],
         \A i \in Ifaces \cup {NoIface} : store'[PtpKey(d, i)] = store[PtpKey(d, i)]
  PROVE  SnapshotOf(d)'
BY DEF SnapshotOf

(* onStateChanged sends what it changes: afterwards the cache holds the    *)
(* new state of its clock, and that of the others as before.               *)
LEMMA StateChangeSent ==
  ASSUME TypeOK, OverallReconciled, SnapshotCurrent, NEW c \in registered,
         NEW next \in PTPState, NEW i \in Ifaces \cup {NoIface},
         onStateChanged(c, next, i), UNCHANGED registered
  PROVE  SnapshotCurrent'
<1> DEFINE worst == worstOfState(next, osState)
           sent  == IF next = syncState[c] THEN store
                    ELSE [store EXCEPT ![PtpKey(c, i)] = PtpStateToIPCState(next)]
<1>1. /\ syncState' = [syncState EXCEPT ![c] = next] /\ overall' = [overall EXCEPT ![c] = worst]
      /\ store' = IF worst = overall[c] THEN sent
                  ELSE [sent EXCEPT ![SyncKey(c)] = PtpStateToIPCState(worst)]
  BY DEF onStateChanged
<1>2. c \in Cfgs /\ registered \subseteq Cfgs /\ store \in [Keys -> IPCState \cup {NoMsg}]
      /\ syncState \in [Cfgs -> PTPState] /\ overall \in [Cfgs -> PTPState]
  BY DEF TypeOK
<1>3. PtpKey(c, i) \in Keys /\ SyncKey(c) \in Keys
  BY <1>2, KeyTypes
<1> SUFFICES ASSUME NEW d \in registered PROVE SnapshotOf(d)'
  BY DEF SnapshotCurrent, SnapshotOf
<1>4. d \in Cfgs /\ SnapshotOf(d) /\ SnapshotOf(c)
  BY <1>2 DEF SnapshotCurrent, SnapshotOf
<1>5. \A j \in Ifaces \cup {NoIface} : PtpKey(d, j) \in Keys /\ SyncKey(d) \in Keys
  BY <1>4, KeyTypes
<1>6. CASE d # c
  <2>1. syncState'[d] = syncState[d] /\ overall'[d] = overall[d]
    BY <1>1, <1>2, <1>4, <1>6
  <2>2. \A k \in Keys : k # PtpKey(c, i) /\ k # SyncKey(c) => store'[k] = store[k]
    BY <1>1, <1>2
  <2>3. store'[SyncKey(d)] = store[SyncKey(d)]
    BY <1>5, <1>6, <2>2, KeysDiffer
  <2>4. \A j \in Ifaces \cup {NoIface} : store'[PtpKey(d, j)] = store[PtpKey(d, j)]
    BY <1>5, <1>6, <2>2, KeysDiffer
  <2> QED BY <1>4, <2>1, <2>3, <2>4, SnapshotFrame
<1>7. CASE d = c /\ next # "NOTSET"
  <2>1. syncState'[c] = next /\ overall'[c] = worst
    BY <1>1, <1>2
  <2>2. sent \in [Keys -> IPCState \cup {NoMsg}] /\ PtpKey(c, i) # SyncKey(c)
    BY <1>2, <1>3, KeysDiffer, IPCStateType
  <2>3. worst # "NOTSET" /\ PtpStateToIPCState(next) = next
    BY <1>7 DEF TypeOK, worstOfState, PtpStateToIPCState, PTPState, IPCState
  <2>4. store'[SyncKey(c)] = PtpStateToIPCState(worst)
    <3>1. CASE worst = overall[c]
      <4>1. syncState[c] # "NOTSET"
        BY <2>3, <3>1 DEF OverallReconciled, worstOfState
      <4>2. sent[SyncKey(c)] = store[SyncKey(c)]
        BY <1>2, <1>3, <2>2
      <4> QED BY <1>1, <1>4, <3>1, <4>1, <4>2 DEF SnapshotOf
    <3>2. CASE worst # overall[c]
      BY <1>1, <1>3, <2>2, <3>2
    <3> QED BY <3>1, <3>2
  <2>5. \E j \in Ifaces \cup {NoIface} : store'[PtpKey(c, j)] = next
    <3>1. \A j \in Ifaces \cup {NoIface} : store'[PtpKey(c, j)] = sent[PtpKey(c, j)]
      <4>1. \A j \in Ifaces \cup {NoIface} : PtpKey(c, j) \in Keys /\ PtpKey(c, j) # SyncKey(c)
        BY <1>5, <1>7, KeysDiffer
      <4> HIDE DEF sent, worst
      <4> QED BY <1>1, <2>2, <4>1
    <3>2. CASE next = syncState[c]
      BY <1>4, <1>7, <3>1, <3>2 DEF SnapshotOf
    <3>3. CASE next # syncState[c]
      BY <1>2, <1>3, <2>3, <3>1, <3>3
    <3> QED BY <3>2, <3>3
  <2> QED BY <1>7, <2>1, <2>4, <2>5 DEF SnapshotOf
<1>8. CASE d = c /\ next = "NOTSET"
  BY <1>1, <1>2, <1>8 DEF SnapshotOf
<1> QED BY <1>6, <1>7, <1>8

(* handleOSClockEvent sends the overall state of every clock it changes. *)
LEMMA OsSampleSent ==
  ASSUME TypeOK, SnapshotCurrent, HandleOsSample
  PROVE  SnapshotCurrent'
<1> DEFINE s == Head(events).state
           worst(c) == worstOfState(syncState[c], s)
<1>1. UNCHANGED <<registered, syncState>>
  BY DEF HandleOsSample, loopFrame, applyVars
<1>2. CASE s = osState
  BY <1>1, <1>2 DEF HandleOsSample, SnapshotCurrent
<1>3. CASE s # osState
  <2>1. /\ overall' = [c \in Cfgs |-> IF c \in registered THEN worst(c) ELSE overall[c]]
        /\ store' = [k \in Keys |->
                   IF k = OsKey THEN PtpStateToIPCState(s)
                   ELSE IF \E c \in registered : k = SyncKey(c) /\ worst(c) # overall[c]
                        THEN PtpStateToIPCState(worst(k[2]))
                        ELSE store[k]]
    BY <1>3 DEF HandleOsSample
  <2> SUFFICES ASSUME NEW d \in registered PROVE SnapshotOf(d)'
    BY <1>1 DEF SnapshotCurrent, SnapshotOf
  <2>2. d \in Cfgs /\ SnapshotOf(d)
    BY DEF SnapshotCurrent, SnapshotOf, TypeOK
  <2>3. \A j \in Ifaces \cup {NoIface} : PtpKey(d, j) \in Keys /\ SyncKey(d) \in Keys
    BY <2>2, KeyTypes
  <2>4. overall'[d] = worst(d)
    BY <2>1, <2>2
  <2>5. \A j \in Ifaces \cup {NoIface} : store'[PtpKey(d, j)] = store[PtpKey(d, j)]
    BY <2>1, <2>3, KeysDiffer
  <2>6. CASE worst(d) # overall[d]
    <3>1. store'[SyncKey(d)] = PtpStateToIPCState(worst(SyncKey(d)[2]))
      BY <2>1, <2>3, <2>6, KeysDiffer
    <3>2. store'[SyncKey(d)] = PtpStateToIPCState(overall'[d])
      BY <2>4, <3>1, KeysDiffer
    <3> QED BY <1>1, <2>2, <2>5, <3>2 DEF SnapshotOf
  <2>7. CASE worst(d) = overall[d]
    <3>1. \A c \in registered : SyncKey(d) = SyncKey(c) => c = d
      BY KeysDiffer
    <3>2. store'[SyncKey(d)] = store[SyncKey(d)]
      BY <2>1, <2>3, <2>7, <3>1, KeysDiffer
    <3> QED BY <1>1, <2>2, <2>4, <2>5, <2>7, <3>2 DEF SnapshotOf
  <2> QED BY <2>6, <2>7
<1> QED BY <1>2, <1>3

(* Every step that is not a reset keeps the cache current. *)
LEMMA SnapshotNext ==
  ASSUME TypeOK, OverallReconciled, SnapshotCurrent, NoReset(events), [Next]_vars
  PROVE  SnapshotCurrent'
<1>1. CASE UNCHANGED <<registered, overall, syncState, store>>
  BY <1>1 DEF SnapshotCurrent
<1>2. CASE RemoveAllClocks
  BY <1>2 DEF RemoveAllClocks, SnapshotCurrent
<1>3. CASE \E c \in Cfgs : AddClock(c)
  <2> PICK c \in Cfgs : AddClock(c)
    BY <1>3
  <2> SUFFICES ASSUME NEW d \in registered' PROVE SnapshotOf(d)'
    BY DEF SnapshotCurrent, SnapshotOf
  <2>1. CASE d = c
    BY <2>1 DEF AddClock, TypeOK, SnapshotOf
  <2>2. CASE d # c
    <3>1. d \in registered /\ overall'[d] = overall[d] /\ syncState'[d] = syncState[d]
          /\ store' = store
      BY <2>2 DEF AddClock, TypeOK, storeVars
    <3>2. SnapshotOf(d)
      BY <3>1 DEF SnapshotCurrent, SnapshotOf
    <3> QED BY <3>1, <3>2, SnapshotFrame
  <2> QED BY <2>1, <2>2
<1>4. CASE ProcessEvents
  <2> DEFINE e == Head(events)
  <2>1. events # <<>>
    BY <1>4 DEF ProcessEvents, Take, HandleUnknown, HandleOffset, HandleSourceLost,
                HandleExpired, HandleParentDS, HandleOsSample, HandleReset
  <2>2. e \in Event /\ events \in Seq(Event)
    BY <2>1, QueueType DEF TypeOK
  <2>3. CASE HandleUnknown \/ HandleParentDS
    BY <1>1, <2>3 DEF HandleUnknown, HandleParentDS, loopFrame, applyVars, storeVars
  <2>4. CASE HandleOffset \/ HandleSourceLost
    <3>1. e.cfg \in registered /\ e.iface \in Ifaces /\ UNCHANGED registered
      BY <2>2, <2>4, EventFields DEF HandleOffset, HandleSourceLost, Take, loopFrame, applyVars
    <3>2. \E next \in PTPState : onStateChanged(e.cfg, next, e.iface)
      <4>1. syncState[e.cfg] \in PTPState
        BY <3>1 DEF TypeOK
      <4> QED BY <2>4, <4>1 DEF HandleOffset, HandleSourceLost, PTPState
    <3> QED BY <3>1, <3>2, StateChangeSent
  <2>5. CASE HandleExpired
    <3>1. e.cfg \in registered /\ UNCHANGED registered
      BY <2>5 DEF HandleExpired, loopFrame, applyVars
    <3>2. \/ onStateChanged(e.cfg, "FREERUN", iface[e.cfg])
          \/ UNCHANGED <<overall, syncState, store>>
      BY <2>5 DEF HandleExpired
    <3>3. iface[e.cfg] \in Ifaces \cup {NoIface} /\ "FREERUN" \in PTPState
      BY <3>1 DEF TypeOK, PTPState
    <3> QED BY <1>1, <3>1, <3>2, <3>3, StateChangeSent
  <2>6. CASE HandleOsSample
    BY <2>6, OsSampleSent
  <2>7. CASE HandleReset
    BY <2>1, <2>2, <2>7, NoResetQueue DEF HandleReset, Take
  <2> QED BY <1>4, <2>3, <2>4, <2>5, <2>6, <2>7 DEF ProcessEvents
<1>5. CASE \/ \E c \in Cfgs, i \in Ifaces : PortSlave(c, i)
           \/ \E c \in Cfgs, in \in BOOLEAN : Ptp4lOffset(c, in)
           \/ \E c \in Cfgs : PortFaulty(c) \/ Ts2phcDown(c)
           \/ \E c \in Cfgs, k \in GMClasses : PmcParentDS(c, k)
           \/ \E s \in OSStates : OsClockSample(s)
  BY <1>1, <1>5 DEF PortSlave, Ptp4lOffset, PortFaulty, Ts2phcDown, PmcParentDS,
                    OsClockSample, producerFrame, applyVars, clockVars, storeVars
<1>6. CASE \/ Forward \/ UNCHANGED vars
           \/ \E t \in sleeping : TimerTimeout(t)
           \/ \E t \in firing : TimerPost(t)
  BY <1>1, <1>6 DEF Forward, TimerTimeout, TimerPost, vars, applyVars, clockVars, storeVars
<1> QED BY <1>2, <1>3, <1>4, <1>5, <1>6 DEF Next

(* Where no profile runs ts2phc, a proxy that asks for a snapshot at any   *)
(* time is told what every clock is in, across applies and for any number  *)
(* of clocks: messages are only sent on a change, and none is skipped that *)
(* the cache does not already hold.  A reset is excluded because it clears *)
(* the cache under all clocks (clockmgr.go).                               *)
THEOREM SnapshotIsCurrent ==
  ASSUME Ts2phcCfgs = {}
  PROVE  Spec => []SnapshotCurrent
<1>1. Init => SnapshotCurrent /\ NoReset(eventsIn) /\ NoReset(events)
  BY DEF Init, SnapshotCurrent, NoReset
<1>2. TypeOK /\ NoReset(eventsIn) /\ NoReset(events) /\ [Next]_vars
        => NoReset(eventsIn)' /\ NoReset(events)'
  BY NoResetNext
<1>3. TypeOK /\ OverallReconciled /\ SnapshotCurrent /\ NoReset(events) /\ [Next]_vars
        => SnapshotCurrent'
  BY SnapshotNext
<1> QED BY <1>1, <1>2, <1>3, TypeCorrect, Reconciled, PTL DEF Spec

-----------------------------------------------------------------------------
(***************************************************************************)
(* What holdoverGen and holdoverCancel of bc.go achieve as long as no      *)
(* config name is registered twice (MaxApplies <= 1): a holdover has       *)
(* exactly one acceptable expiry, and it comes from the clock's own timer. *)
(*                                                                         *)
(* OneExpiryPerHoldover is not inductive.  The invariant adds where timers *)
(* come from (TimersOwned), that the cancel channel is open exactly in     *)
(* HOLDOVER (ArmedInHoldover), that a queued expiry is the one its timer   *)
(* posted (ExpiriesPosted), and how far the single apply has got           *)
(* (AppliedOnce).                                                          *)
(***************************************************************************)
(* Every timer that can still fire, or has fired, was armed by the clock   *)
(* now registered, and its generation is not ahead of the clock's.         *)
TimersOwned ==
  \A t \in TimerSet : OnItsWay(t) =>
    /\ t.inst = inst[t.cfg] /\ t.inst # 0
    /\ t.gen <= holdoverGen[t.cfg]

ArmedInHoldover ==
  \A c \in registered : armed[c] <=> syncState[c] = "HOLDOVER"

ExpiriesPosted ==
  \A n \in 1..Len(events) : events[n].kind = "expired" =>
    events[n] = Expired(events[n].timer)

(* Before the apply nothing was registered; a clock that is still to be    *)
(* added has had no object yet.                                            *)
AppliedOnce ==
  /\ applies \in 0..MaxApplies
  /\ applies = 0 => pending = {} /\ \A c \in Cfgs : inst[c] = 0
  /\ \A c \in pending : inst[c] = 0
  /\ \A c \in registered : inst[c] # 0

ExpiryInv ==
  /\ TypeOK
  /\ TimersOwned
  /\ ArmedInHoldover
  /\ ExpiriesPosted
  /\ AppliedOnce
  /\ OneExpiryPerHoldover

(* Where timer t can be: nowhere, or in exactly one place. *)
At(q, t)   == {n \in 1..Len(q) : q[n] = Expired(t)}
Nowhere(t) == t \notin sleeping /\ t \notin firing /\ At(events, t) = {}
InOnePlace(t) ==
  \/ t \in sleeping /\ t \notin firing /\ At(events, t) = {}
  \/ t \notin sleeping /\ t \in firing /\ At(events, t) = {}
  \/ t \notin sleeping /\ t \notin firing /\ \E n \in 1..Len(events) : At(events, t) = {n}

(* Taking an event that is not its expiry moves a timer's place in the     *)
(* queue; taking its only expiry removes it.                               *)
LEMMA AtTail ==
  ASSUME NEW q \in Seq(Event), q # <<>>, NEW t
  PROVE  /\ At(q, t) = {} => At(Tail(q), t) = {}
         /\ \A n \in 1..Len(q) : At(q, t) = {n} /\ Head(q) # Expired(t)
              => n - 1 \in 1..Len(Tail(q)) /\ At(Tail(q), t) = {n - 1}
         /\ \A n \in 1..Len(q) : At(q, t) = {n} /\ Head(q) = Expired(t)
              => At(Tail(q), t) = {}
<1>1. \A n \in 1..Len(Tail(q)) : n \in At(Tail(q), t) => n + 1 \in At(q, t)
  BY TailShifts DEF At
<1>2. \A n \in At(q, t) : Head(q) # Expired(t) => n # 1 /\ n - 1 \in At(Tail(q), t)
  BY TailShifts DEF At
<1>3. Head(q) = Expired(t) => 1 \in At(q, t)
  BY TailShifts DEF At
<1>4. /\ At(q, t) \subseteq 1..Len(q) /\ At(Tail(q), t) \subseteq 1..Len(Tail(q))
      /\ Len(q) \in Nat /\ Len(Tail(q)) \in Nat
  BY DEF At
<1>5. ASSUME At(q, t) = {} PROVE At(Tail(q), t) = {}
  BY <1>1, <1>4, <1>5
<1>6. ASSUME NEW n \in 1..Len(q), At(q, t) = {n}, Head(q) # Expired(t)
      PROVE  n - 1 \in 1..Len(Tail(q)) /\ At(Tail(q), t) = {n - 1}
  <2>1. n - 1 \in At(Tail(q), t)
    BY <1>2, <1>6
  <2>2. \A m \in At(Tail(q), t) : m = n - 1
    BY <1>1, <1>4, <1>6
  <2> QED BY <1>4, <2>1, <2>2
<1>7. ASSUME NEW n \in 1..Len(q), At(q, t) = {n}, Head(q) = Expired(t)
      PROVE  At(Tail(q), t) = {}
  <2>1. n = 1
    BY <1>3, <1>7
  <2>2. \A m \in At(Tail(q), t) : m + 1 = 1 /\ m \in Nat /\ m # 0
    BY <1>1, <1>4, <1>7, <2>1
  <2> QED BY <2>2
<1> QED BY <1>5, <1>6, <1>7

(* Appending another event leaves a timer's place; posting its expiry, of  *)
(* which there was none, gives it one.                                     *)
LEMMA AtAppend ==
  ASSUME NEW q \in Seq(Event), NEW x \in Event, NEW t
  PROVE  /\ x # Expired(t) => At(Append(q, x), t) = At(q, t)
         /\ x = Expired(t) /\ At(q, t) = {} => At(Append(q, x), t) = {Len(q) + 1}
         /\ Len(q) + 1 \in 1..Len(Append(q, x))
         /\ \A n \in 1..Len(q) : n \in 1..Len(Append(q, x))
<1>1. \A n \in 1..Len(q) : n \in 1..Len(Append(q, x)) /\ Append(q, x)[n] = q[n]
  BY AppendKeeps
<1>2. /\ Len(q) + 1 \in 1..Len(Append(q, x)) /\ Append(q, x)[Len(q) + 1] = x
      /\ \A n \in 1..Len(Append(q, x)) : n # Len(q) + 1 => n \in 1..Len(q)
  BY AppendAdds
<1> QED BY <1>1, <1>2 DEF At

(* An expiry is queued exactly if it has a place in the queue. *)
LEMMA WayIsPlace ==
  ASSUME NEW t
  PROVE  OnItsWay(t) <=> ~Nowhere(t)
BY DEF OnItsWay, Nowhere, Queued, At

(* OneExpiryPerHoldover, in terms of places. *)
LEMMA OneExpiryPlaces ==
  OneExpiryPerHoldover <=>
    \A c \in registered : IF syncState[c] = "HOLDOVER" THEN InOnePlace(CurrentTimer(c))
                                                      ELSE Nowhere(CurrentTimer(c))
BY DEF OneExpiryPerHoldover, Asleep, Fired, QueuedAt, InOnePlace, Nowhere, At

-----------------------------------------------------------------------------
(* A timer that is nowhere, or in one place, is so after a step that       *)
(* leaves the goroutines alone and takes another event or appends one.     *)
LEMMA PlaceKept ==
  ASSUME events \in Seq(Event), NEW t, UNCHANGED <<sleeping, firing>>,
         \/ UNCHANGED events
         \/ events # <<>> /\ Head(events) # Expired(t) /\ events' = Tail(events)
         \/ \E x \in Event : x # Expired(t) /\ events' = Append(events, x)
  PROVE  /\ Nowhere(t) => Nowhere(t)'
         /\ InOnePlace(t) => InOnePlace(t)'
<1>1. CASE UNCHANGED events
  BY <1>1 DEF Nowhere, InOnePlace
<1>2. CASE events # <<>> /\ Head(events) # Expired(t) /\ events' = Tail(events)
  BY <1>2, AtTail DEF Nowhere, InOnePlace
<1>3. CASE \E x \in Event : x # Expired(t) /\ events' = Append(events, x)
  BY <1>3, AtAppend DEF Nowhere, InOnePlace
<1> QED BY <1>1, <1>2, <1>3

(* Taking an event brings no timer back. *)
LEMMA NowhereTail ==
  ASSUME events \in Seq(Event), events # <<>>, NEW t, Nowhere(t),
         t \notin sleeping', firing' \subseteq firing, events' = Tail(events)
  PROVE  Nowhere(t)'
BY AtTail DEF Nowhere

(* The expiries in the queue are still what their timers posted after an   *)
(* event is taken, or one of another kind appended, or another expiry.     *)
LEMMA PostedKept ==
  ASSUME events \in Seq(Event), ExpiriesPosted,
         \/ UNCHANGED events
         \/ events # <<>> /\ events' = Tail(events)
         \/ \E x \in Event : (x.kind = "expired" => x = Expired(x.timer))
                             /\ events' = Append(events, x)
  PROVE  ExpiriesPosted'
<1>1. CASE UNCHANGED events
  BY <1>1 DEF ExpiriesPosted
<1>2. CASE events # <<>> /\ events' = Tail(events)
  BY <1>2, TailShifts DEF ExpiriesPosted
<1>3. ASSUME NEW x \in Event, x.kind = "expired" => x = Expired(x.timer),
             events' = Append(events, x)
      PROVE  ExpiriesPosted'
  <2> SUFFICES ASSUME NEW n \in 1..Len(events'), events'[n].kind = "expired"
               PROVE  events'[n] = Expired(events'[n].timer)
    BY DEF ExpiriesPosted
  <2>1. CASE n = Len(events) + 1
    BY <1>3, <2>1, AppendAdds
  <2>2. CASE n # Len(events) + 1
    BY <1>3, <2>2, AppendAdds, AppendKeeps DEF ExpiriesPosted
  <2> QED BY <2>1, <2>2
<1> QED BY <1>1, <1>2, <1>3

(* The expiry at the head of the queue, for a config, is its timer's. *)
LEMMA HeadExpiry ==
  ASSUME TypeOK, ExpiriesPosted, TimersOwned, events # <<>>, Head(events).kind = "expired"
  PROVE  /\ Head(events).timer \in TimerSet
         /\ Head(events) = Expired(Head(events).timer)
         /\ Head(events).cfg = Head(events).timer.cfg
         /\ Head(events).timer.inst = inst[Head(events).cfg]
<1> DEFINE t == Head(events).timer
<1>1. Head(events) \in Event /\ t \in TimerSet
  BY QueueType, EventFields DEF TypeOK
<1>2. 1 \in 1..Len(events) /\ events[1] = Head(events)
  BY TailShifts DEF TypeOK
<1>3. Head(events) = Expired(t)
  BY <1>2 DEF ExpiriesPosted
<1>4. Head(events).cfg = t.cfg
  BY <1>3, ExpiredFields
<1>5. OnItsWay(t)
  BY <1>2, <1>3 DEF OnItsWay, Queued
<1> QED BY <1>1, <1>3, <1>4, <1>5 DEF TimersOwned

-----------------------------------------------------------------------------
(* The steps, by what they do to clocks and timers. *)

(* What the steps below have to preserve besides types and AppliedOnce. *)
Core == TimersOwned /\ ArmedInHoldover /\ ExpiriesPosted /\ OneExpiryPerHoldover

(* A step that leaves clocks and goroutines alone, and does not touch the  *)
(* expiry of a current timer: the producers, the forwarder, and every      *)
(* handler that only takes its event.                                      *)
LEMMA QuietStep ==
  ASSUME TypeOK, Core, UNCHANGED <<registered, inst, syncState, holdoverGen, armed>>,
         UNCHANGED <<sleeping, firing>>,
         \/ UNCHANGED events
         \/ /\ events # <<>> /\ events' = Tail(events)
            /\ \A c \in registered : Head(events) # Expired(CurrentTimer(c))
         \/ \E x \in Event : x.kind # "expired" /\ events' = Append(events, x)
  PROVE  Core'
<1>0. events \in Seq(Event)
  BY DEF TypeOK
<1>1. TimersOwned'
  <2> SUFFICES ASSUME NEW t \in TimerSet, OnItsWay(t)' PROVE OnItsWay(t)
    BY DEF TimersOwned, Core
  <2>1. ~Nowhere(t)'
    BY DEF OnItsWay, Nowhere, Queued, At
  <2>2. CASE events # <<>> /\ events' = Tail(events)
    BY <1>0, <2>1, <2>2, NowhereTail, WayIsPlace DEF Nowhere
  <2>3. CASE UNCHANGED events \/ \E x \in Event : x.kind # "expired" /\ events' = Append(events, x)
    BY <1>0, <2>1, <2>3, PlaceKept, WayIsPlace, ExpiredFields
  <2> QED BY <2>2, <2>3
<1>2. ArmedInHoldover'
  BY DEF Core, ArmedInHoldover
<1>3. ExpiriesPosted'
  BY <1>0, PostedKept DEF Core
<1>4. OneExpiryPerHoldover'
  <2> SUFFICES ASSUME NEW c \in registered
               PROVE  IF syncState[c] = "HOLDOVER" THEN InOnePlace(CurrentTimer(c))'
                                                   ELSE Nowhere(CurrentTimer(c))'
    BY DEF OneExpiryPerHoldover, Asleep, Fired, QueuedAt, InOnePlace, Nowhere, At
  <2> DEFINE t == CurrentTimer(c)
  <2>1. t' = t
    BY DEF CurrentTimer
  <2>2. IF syncState[c] = "HOLDOVER" THEN InOnePlace(t) ELSE Nowhere(t)
    BY OneExpiryPlaces DEF Core
  <2> HIDE DEF t
  <2>3. /\ Nowhere(t) => (t \notin sleeping /\ t \notin firing /\ At(events, t) = {})'
        /\ InOnePlace(t) => InOnePlace(t)'
    BY <1>0, <2>1, PlaceKept, ExpiredFields DEF t, Nowhere
  <2> QED BY <2>1, <2>2, <2>3 DEF t, InOnePlace, Nowhere
<1> QED BY <1>1, <1>2, <1>3, <1>4 DEF Core

(* A handler that cancels clock c's timer and leaves it in another state   *)
(* than HOLDOVER: an offset sample, or a reset.                            *)
LEMMA CancelStep ==
  ASSUME TypeOK, Core, NEW c \in registered, NEW next, next # "HOLDOVER",
         cancelHoldoverTimer(c), syncState' = [syncState EXCEPT ![c] = next],
         UNCHANGED <<registered, inst, firing>>,
         events # <<>>, events' = Tail(events), Head(events).kind # "expired"
  PROVE  Core'
<1>0. events \in Seq(Event) /\ c \in Cfgs
  BY DEF TypeOK
<1>1. /\ sleeping' \subseteq sleeping
      /\ holdoverGen' \in [Cfgs -> Nat]
      /\ \A d \in Cfgs : holdoverGen'[d] >= holdoverGen[d]
      /\ \A d \in Cfgs : d # c => holdoverGen'[d] = holdoverGen[d] /\ armed'[d] = armed[d]
      /\ holdoverGen'[c] = IF armed[c] THEN holdoverGen[c] + 1 ELSE holdoverGen[c]
      /\ armed'[c] = FALSE
  BY <1>0 DEF cancelHoldoverTimer, TypeOK
<1>2. \A t : Head(events) # Expired(t)
  BY ExpiredFields
<1>3. ASSUME NEW t, Nowhere(t)
      PROVE  t \notin sleeping' /\ t \notin firing' /\ At(events', t) = {}
  BY <1>0, <1>1, <1>3, NowhereTail DEF Nowhere
<1>4. TimersOwned'
  <2> SUFFICES ASSUME NEW t \in TimerSet, OnItsWay(t)'
               PROVE  /\ t.inst = inst[t.cfg] /\ t.inst # 0
                      /\ t.gen <= holdoverGen'[t.cfg]
    BY DEF TimersOwned
  <2>1. OnItsWay(t)
    BY <1>3, WayIsPlace DEF OnItsWay, Queued, At
  <2>2. /\ t.inst = inst[t.cfg] /\ t.inst # 0 /\ t.gen <= holdoverGen[t.cfg]
        /\ t.cfg \in Cfgs /\ t.gen \in Nat
    BY <2>1 DEF TimersOwned, Core, TimerSet
  <2>3. /\ holdoverGen[t.cfg] \in Nat /\ holdoverGen'[t.cfg] \in Nat
        /\ holdoverGen'[t.cfg] >= holdoverGen[t.cfg]
    BY <1>1, <2>2 DEF TypeOK
  <2> QED BY <2>2, <2>3
<1>5. ArmedInHoldover'
  BY <1>0, <1>1 DEF Core, ArmedInHoldover, TypeOK
<1>6. ExpiriesPosted'
  BY <1>0, PostedKept DEF Core
<1>7. OneExpiryPerHoldover'
  <2> SUFFICES ASSUME NEW d \in registered
               PROVE  IF syncState'[d] = "HOLDOVER" THEN InOnePlace(CurrentTimer(d))'
                                                    ELSE Nowhere(CurrentTimer(d))'
    BY DEF OneExpiryPerHoldover, Asleep, Fired, QueuedAt, InOnePlace, Nowhere, At
  <2>0. d \in Cfgs
    BY DEF TypeOK
  <2>1. CASE d = c
    <3>1. syncState'[d] # "HOLDOVER"
      BY <1>0, <2>1 DEF TypeOK
    <3> DEFINE t == Timer(c, inst[c], holdoverGen'[c])
    <3>2. CurrentTimer(d)' = t /\ t \in TimerSet
      BY <1>0, <1>1, <2>1, EventTypes DEF CurrentTimer, TypeOK
    <3>3. Nowhere(t)
      <4>1. CASE armed[c]
        <5>1. t.cfg = c /\ t.gen = holdoverGen[c] + 1 /\ holdoverGen[c] \in Nat
          BY <1>0, <1>1, <4>1 DEF Timer, TypeOK
        <5>2. ~OnItsWay(t)
          BY <3>2, <5>1 DEF Core, TimersOwned
        <5> QED BY <5>2, WayIsPlace
      <4>2. CASE ~armed[c]
        <5>1. t = CurrentTimer(c) /\ syncState[c] # "HOLDOVER"
          BY <1>1, <4>2 DEF CurrentTimer, Core, ArmedInHoldover
        <5> QED BY <5>1, OneExpiryPlaces DEF Core
      <4> QED BY <4>1, <4>2
    <3> QED BY <1>3, <3>1, <3>2, <3>3 DEF Nowhere
  <2>2. CASE d # c
    <3> DEFINE t == CurrentTimer(d)
    <3>1. t' = t /\ syncState'[d] = syncState[d]
      BY <1>0, <1>1, <2>0, <2>2 DEF CurrentTimer, TypeOK
    <3>2. IF syncState[d] = "HOLDOVER" THEN InOnePlace(t) ELSE Nowhere(t)
      BY OneExpiryPlaces DEF Core
    <3>3. t # CurrentTimer(c)
      BY <2>2, TimersDiffer DEF CurrentTimer
    <3>4. t \in sleeping' <=> t \in sleeping
      BY <3>3 DEF cancelHoldoverTimer
    <3> HIDE DEF t
    <3>5. InOnePlace(t) =>
            \/ t \in sleeping' /\ t \notin firing' /\ At(events', t) = {}
            \/ t \notin sleeping' /\ t \in firing' /\ At(events', t) = {}
            \/ t \notin sleeping' /\ t \notin firing'
               /\ \E n \in 1..Len(events') : At(events', t) = {n}
      BY <1>0, <1>2, <3>4, AtTail DEF InOnePlace
    <3> QED BY <1>3, <3>1, <3>2, <3>5 DEF t, InOnePlace, Nowhere
  <2> QED BY <2>1, <2>2
<1> QED BY <1>4, <1>5, <1>6, <1>7 DEF Core

(* A source loss that takes clock c from LOCKED into HOLDOVER. *)
LEMMA ArmStep ==
  ASSUME TypeOK, Core, NEW c \in registered, inst[c] # 0, syncState[c] = "LOCKED",
         armHoldoverTimer(c), syncState' = [syncState EXCEPT ![c] = "HOLDOVER"],
         UNCHANGED <<registered, inst, firing>>,
         events # <<>>, events' = Tail(events), Head(events).kind # "expired"
  PROVE  Core'
<1> DEFINE new == Timer(c, inst[c], holdoverGen[c] + 1)
<1>0. events \in Seq(Event) /\ c \in Cfgs
  BY DEF TypeOK
<1>1. ~armed[c]
  BY DEF Core, ArmedInHoldover
<1>2. /\ sleeping' = sleeping \cup {new}
      /\ holdoverGen' = [holdoverGen EXCEPT ![c] = holdoverGen[c] + 1]
      /\ armed' = [armed EXCEPT ![c] = TRUE]
  BY <1>1 DEF armHoldoverTimer
<1>3. \A t : Head(events) # Expired(t)
  BY ExpiredFields
<1>4. new \in TimerSet /\ new.cfg = c /\ new.gen = holdoverGen[c] + 1 /\ new.inst = inst[c]
      /\ holdoverGen[c] \in Nat
  BY <1>0 DEF Timer, TimerSet, TypeOK
<1>5. Nowhere(new)
  <2>1. ~OnItsWay(new)
    BY <1>4 DEF Core, TimersOwned
  <2> QED BY <2>1, WayIsPlace
<1> HIDE DEF new
<1>6. ASSUME NEW t, Nowhere(t), t # new
      PROVE  t \notin sleeping' /\ t \notin firing' /\ At(events', t) = {}
  BY <1>0, <1>2, <1>6, AtTail DEF Nowhere
<1>7. TimersOwned'
  <2> SUFFICES ASSUME NEW t \in TimerSet, OnItsWay(t)'
               PROVE  /\ t.inst = inst[t.cfg] /\ t.inst # 0
                      /\ t.gen <= holdoverGen'[t.cfg]
    BY DEF TimersOwned
  <2>1. CASE t = new
    BY <1>0, <1>2, <1>4, <2>1 DEF TypeOK
  <2>2. CASE t # new
    <3>1. OnItsWay(t)
      BY <1>6, <2>2, WayIsPlace DEF OnItsWay, Queued, At
    <3>2. /\ t.inst = inst[t.cfg] /\ t.inst # 0 /\ t.gen <= holdoverGen[t.cfg]
          /\ t.cfg \in Cfgs /\ t.gen \in Nat
      BY <3>1 DEF TimersOwned, Core, TimerSet
    <3>3. /\ holdoverGen[t.cfg] \in Nat /\ holdoverGen'[t.cfg] \in Nat
          /\ holdoverGen'[t.cfg] >= holdoverGen[t.cfg]
      BY <1>0, <1>2, <3>2 DEF TypeOK
    <3> QED BY <3>2, <3>3
  <2> QED BY <2>1, <2>2
<1>8. ArmedInHoldover'
  <2> SUFFICES ASSUME NEW d \in registered
               PROVE  armed'[d] <=> syncState'[d] = "HOLDOVER"
    BY DEF ArmedInHoldover
  <2>1. d \in Cfgs
    BY DEF TypeOK
  <2>2. CASE d = c
    BY <1>2, <2>1, <2>2 DEF TypeOK
  <2>3. CASE d # c
    <3>1. armed'[d] = armed[d] /\ syncState'[d] = syncState[d]
      BY <1>2, <2>1, <2>3 DEF TypeOK
    <3> QED BY <3>1 DEF Core, ArmedInHoldover
  <2> QED BY <2>2, <2>3
<1>9. ExpiriesPosted'
  BY <1>0, PostedKept DEF Core
<1>10. OneExpiryPerHoldover'
  <2> SUFFICES ASSUME NEW d \in registered
               PROVE  IF syncState'[d] = "HOLDOVER" THEN InOnePlace(CurrentTimer(d))'
                                                    ELSE Nowhere(CurrentTimer(d))'
    BY DEF OneExpiryPerHoldover, Asleep, Fired, QueuedAt, InOnePlace, Nowhere, At
  <2>0. d \in Cfgs
    BY DEF TypeOK
  <2>1. CASE d = c
    <3>1. syncState'[d] = "HOLDOVER" /\ CurrentTimer(d)' = new
      BY <1>0, <1>2, <2>1 DEF CurrentTimer, new, TypeOK
    <3>2. new \in sleeping' /\ new \notin firing' /\ At(events', new) = {}
      BY <1>0, <1>2, <1>5, AtTail DEF Nowhere
    <3> QED BY <3>1, <3>2 DEF InOnePlace
  <2>2. CASE d # c
    <3> DEFINE t == CurrentTimer(d)
    <3>1. t' = t /\ syncState'[d] = syncState[d]
      BY <1>0, <1>2, <2>0, <2>2 DEF CurrentTimer, TypeOK
    <3>2. IF syncState[d] = "HOLDOVER" THEN InOnePlace(t) ELSE Nowhere(t)
      BY OneExpiryPlaces DEF Core
    <3>3. t # new
      BY <2>2, TimersDiffer DEF CurrentTimer, new
    <3>4. t \in sleeping' <=> t \in sleeping
      BY <1>2, <3>3
    <3> HIDE DEF t
    <3>5. InOnePlace(t) =>
            \/ t \in sleeping' /\ t \notin firing' /\ At(events', t) = {}
            \/ t \notin sleeping' /\ t \in firing' /\ At(events', t) = {}
            \/ t \notin sleeping' /\ t \notin firing'
               /\ \E n \in 1..Len(events') : At(events', t) = {n}
      BY <1>0, <1>3, <3>4, AtTail DEF InOnePlace
    <3> QED BY <1>6, <3>1, <3>2, <3>3, <3>5 DEF t, InOnePlace, Nowhere
  <2> QED BY <2>1, <2>2
<1> QED BY <1>7, <1>8, <1>9, <1>10 DEF Core

(* An expiry that its clock accepts: it is the current timer's, and the    *)
(* only one there was.                                                     *)
LEMMA AcceptStep ==
  ASSUME TypeOK, Core, events # <<>>, Head(events).kind = "expired",
         Head(events).cfg \in registered,
         syncState[Head(events).cfg] = "HOLDOVER",
         Head(events).timer.gen = holdoverGen[Head(events).cfg],
         armed' = [armed EXCEPT ![Head(events).cfg] = FALSE],
         syncState' = [syncState EXCEPT ![Head(events).cfg] = "FREERUN"],
         UNCHANGED <<registered, inst, holdoverGen, sleeping, firing>>,
         events' = Tail(events)
  PROVE  Core' /\ Head(events).timer = CurrentTimer(Head(events).cfg)
<1> DEFINE c == Head(events).cfg
           u == Head(events).timer
<1>0. events \in Seq(Event) /\ c \in Cfgs
  BY DEF TypeOK
<1>1. u \in TimerSet /\ Head(events) = Expired(u) /\ u.cfg = c /\ u.inst = inst[c]
  BY HeadExpiry DEF Core
<1>2. u = CurrentTimer(c)
  BY <1>1 DEF TimerSet, CurrentTimer, Timer
<1> HIDE DEF u
<1>3. u \notin sleeping /\ u \notin firing /\ \E n \in 1..Len(events) : At(events, u) = {n}
  <2>1. InOnePlace(u)
    BY <1>2, OneExpiryPlaces DEF Core
  <2>2. 1 \in At(events, u)
    BY <1>0, <1>1, TailShifts DEF At
  <2> QED BY <2>1, <2>2 DEF InOnePlace
<1>4. At(events', u) = {}
  BY <1>0, <1>1, <1>3, AtTail
<1>5. ASSUME NEW t, Nowhere(t)
      PROVE  t \notin sleeping' /\ t \notin firing' /\ At(events', t) = {}
  BY <1>0, <1>5, AtTail DEF Nowhere
<1>6. TimersOwned'
  <2> SUFFICES ASSUME NEW t \in TimerSet, OnItsWay(t)' PROVE OnItsWay(t)
    BY DEF TimersOwned, Core
  <2> QED BY <1>5, WayIsPlace DEF OnItsWay, Queued, At
<1>7. ArmedInHoldover'
  BY <1>0 DEF Core, ArmedInHoldover, TypeOK
<1>8. ExpiriesPosted'
  BY <1>0, PostedKept DEF Core
<1>9. OneExpiryPerHoldover'
  <2> SUFFICES ASSUME NEW d \in registered
               PROVE  IF syncState'[d] = "HOLDOVER" THEN InOnePlace(CurrentTimer(d))'
                                                    ELSE Nowhere(CurrentTimer(d))'
    BY DEF OneExpiryPerHoldover, Asleep, Fired, QueuedAt, InOnePlace, Nowhere, At
  <2>0. d \in Cfgs /\ CurrentTimer(d)' = CurrentTimer(d)
    BY DEF TypeOK, CurrentTimer
  <2>1. CASE d = c
    <3>1. syncState'[d] # "HOLDOVER"
      BY <1>0, <2>1 DEF TypeOK
    <3> QED BY <1>2, <1>3, <1>4, <2>0, <2>1, <3>1 DEF Nowhere
  <2>2. CASE d # c
    <3> DEFINE t == CurrentTimer(d)
    <3>1. t' = t /\ syncState'[d] = syncState[d]
      BY <2>0, <2>2 DEF TypeOK
    <3>2. IF syncState[d] = "HOLDOVER" THEN InOnePlace(t) ELSE Nowhere(t)
      BY OneExpiryPlaces DEF Core
    <3>3. Head(events) # Expired(t)
      BY <1>2, <1>1, <2>2, TimersDiffer, ExpiredFields DEF CurrentTimer
    <3> HIDE DEF t
    <3>4. InOnePlace(t) =>
            \/ t \in sleeping' /\ t \notin firing' /\ At(events', t) = {}
            \/ t \notin sleeping' /\ t \in firing' /\ At(events', t) = {}
            \/ t \notin sleeping' /\ t \notin firing'
               /\ \E n \in 1..Len(events') : At(events', t) = {n}
      BY <1>0, <3>3, AtTail DEF InOnePlace
    <3> QED BY <1>5, <3>1, <3>2, <3>4 DEF t, InOnePlace, Nowhere
  <2> QED BY <2>1, <2>2
<1> QED BY <1>2, <1>6, <1>7, <1>8, <1>9 DEF Core, u

(* A goroutine that times out, or posts its expiry: its timer moves from   *)
(* one place to the next.                                                  *)
LEMMA TimerStep ==
  ASSUME TypeOK, Core, NEW u \in TimerSet,
         UNCHANGED <<registered, inst, syncState, holdoverGen, armed>>,
         \/ /\ u \in sleeping /\ sleeping' = sleeping \ {u} /\ firing' = firing \cup {u}
            /\ UNCHANGED events
         \/ /\ u \in firing /\ firing' = firing \ {u} /\ UNCHANGED sleeping
            /\ events' = Append(events, Expired(u))
  PROVE  Core'
<1>0. events \in Seq(Event) /\ Expired(u) \in Event /\ Expired(u).timer = u
  BY ExpiredFields DEF TypeOK, TimerSet, Expired, Event
<1>1. ASSUME NEW t, t # u
      PROVE  /\ t \in sleeping' <=> t \in sleeping
             /\ t \in firing' <=> t \in firing
             /\ At(events', t) = At(events, t)
             /\ \A n \in 1..Len(events) : n \in 1..Len(events')
  <2>1. Expired(u) # Expired(t)
    BY <1>1, ExpiredFields
  <2>2. CASE UNCHANGED events
    BY <1>1, <2>2
  <2>3. CASE events' = Append(events, Expired(u))
    BY <1>0, <1>1, <2>1, <2>3, AtAppend
  <2> QED BY <1>1, <2>2, <2>3
<1>2. OnItsWay(u)
  BY DEF OnItsWay
<1>3. TimersOwned'
  <2> SUFFICES ASSUME NEW t \in TimerSet, OnItsWay(t)' PROVE OnItsWay(t)
    BY DEF TimersOwned, Core
  <2>1. CASE t = u
    BY <1>2, <2>1
  <2>2. CASE t # u
    BY <1>1, <2>2, WayIsPlace DEF OnItsWay, Queued, At, Nowhere
  <2> QED BY <2>1, <2>2
<1>4. ArmedInHoldover'
  BY DEF Core, ArmedInHoldover
<1>5. ExpiriesPosted'
  BY <1>0, PostedKept DEF Core
<1>6. OneExpiryPerHoldover'
  <2> SUFFICES ASSUME NEW d \in registered
               PROVE  IF syncState[d] = "HOLDOVER" THEN InOnePlace(CurrentTimer(d))'
                                                   ELSE Nowhere(CurrentTimer(d))'
    BY DEF OneExpiryPerHoldover, Asleep, Fired, QueuedAt, InOnePlace, Nowhere, At
  <2> DEFINE t == CurrentTimer(d)
  <2>1. t' = t
    BY DEF CurrentTimer
  <2>2. IF syncState[d] = "HOLDOVER" THEN InOnePlace(t) ELSE Nowhere(t)
    BY OneExpiryPlaces DEF Core
  <2> HIDE DEF t
  <2>3. CASE t # u
    BY <1>1, <2>1, <2>2, <2>3 DEF t, InOnePlace, Nowhere
  <2>4. CASE t = u
    <3>1. syncState[d] = "HOLDOVER" /\ InOnePlace(u)
      BY <1>2, <2>2, <2>4, WayIsPlace
    <3>2. \/ u \notin sleeping' /\ u \in firing' /\ At(events', u) = {}
          \/ u \notin sleeping' /\ u \notin firing'
             /\ \E n \in 1..Len(events') : At(events', u) = {n}
      <4>1. CASE u \in sleeping /\ sleeping' = sleeping \ {u} /\ firing' = firing \cup {u}
                 /\ UNCHANGED events
        BY <3>1, <4>1 DEF InOnePlace
      <4>2. CASE u \in firing /\ firing' = firing \ {u} /\ UNCHANGED sleeping
                 /\ events' = Append(events, Expired(u))
        <5>1. u \notin sleeping /\ At(events, u) = {}
          BY <3>1, <4>2 DEF InOnePlace
        <5>2. At(events', u) = {Len(events) + 1} /\ Len(events) + 1 \in 1..Len(events')
          BY <1>0, <4>2, <5>1, AtAppend
        <5> QED BY <4>2, <5>1, <5>2
      <4> QED BY <4>1, <4>2
    <3> QED BY <2>1, <2>4, <3>1, <3>2 DEF t, InOnePlace
  <2> QED BY <2>3, <2>4
<1> QED BY <1>3, <1>4, <1>5, <1>6 DEF Core

(* A new clock starts without timers: no timer of its config exists yet. *)
LEMMA AddStep ==
  ASSUME TypeOK, Core, NEW c \in Cfgs, inst[c] = 0, AddClock(c)
  PROVE  Core'
<1>1. /\ UNCHANGED <<sleeping, firing, events>>
      /\ registered' = registered \cup {c}
      /\ \A d \in Cfgs : d # c => /\ inst'[d] = inst[d] /\ holdoverGen'[d] = holdoverGen[d]
                                  /\ armed'[d] = armed[d] /\ syncState'[d] = syncState[d]
      /\ inst'[c] = 1 /\ holdoverGen'[c] = 0 /\ armed'[c] = FALSE /\ syncState'[c] = "NOTSET"
  BY DEF AddClock, TypeOK, timerVars
<1>2. ASSUME NEW t \in TimerSet, OnItsWay(t)
      PROVE  t.cfg # c /\ t.cfg \in Cfgs
  BY <1>2 DEF Core, TimersOwned, TimerSet
<1>3. TimersOwned'
  <2> SUFFICES ASSUME NEW t \in TimerSet, OnItsWay(t)
               PROVE  /\ t.inst = inst'[t.cfg] /\ t.inst # 0
                      /\ t.gen <= holdoverGen'[t.cfg]
    BY <1>1 DEF TimersOwned, OnItsWay
  <2> QED BY <1>1, <1>2 DEF Core, TimersOwned
<1>4. ArmedInHoldover'
  BY <1>1 DEF Core, ArmedInHoldover, TypeOK
<1>5. ExpiriesPosted'
  BY <1>1 DEF Core, ExpiriesPosted
<1>6. OneExpiryPerHoldover'
  <2> SUFFICES ASSUME NEW d \in registered'
               PROVE  IF syncState'[d] = "HOLDOVER" THEN InOnePlace(CurrentTimer(d))'
                                                    ELSE Nowhere(CurrentTimer(d))'
    BY DEF OneExpiryPerHoldover, Asleep, Fired, QueuedAt, InOnePlace, Nowhere, At
  <2>1. CASE d = c
    <3> DEFINE t == Timer(c, 1, 0)
    <3>1. CurrentTimer(d)' = t /\ t \in TimerSet /\ t.cfg = c
      BY <1>1, <2>1 DEF CurrentTimer, Timer, TimerSet
    <3>2. Nowhere(t)
      BY <1>2, <3>1, WayIsPlace
    <3> HIDE DEF t
    <3> QED BY <1>1, <2>1, <3>1, <3>2 DEF Nowhere
  <2>2. CASE d # c
    <3>1. d \in registered /\ d \in Cfgs /\ syncState'[d] = syncState[d]
      BY <1>1, <2>2 DEF TypeOK
    <3>2. CurrentTimer(d)' = CurrentTimer(d)
      BY <1>1, <2>2, <3>1 DEF CurrentTimer
    <3>3. IF syncState[d] = "HOLDOVER" THEN InOnePlace(CurrentTimer(d))
                                       ELSE Nowhere(CurrentTimer(d))
      BY <3>1, OneExpiryPlaces DEF Core
    <3> QED BY <1>1, <3>1, <3>2, <3>3 DEF InOnePlace, Nowhere
  <2> QED BY <2>1, <2>2
<1> QED BY <1>3, <1>4, <1>5, <1>6 DEF Core

(* The single apply: nothing is registered before it, and a name is added  *)
(* only once.                                                              *)
LEMMA AppliedNext ==
  ASSUME MaxApplies <= 1, TypeOK, AppliedOnce, [Next]_vars
  PROVE  AppliedOnce'
<1> USE ClockManagerAssumption
<1>1. CASE RemoveAllClocks
  <2>1. applies = 0 /\ applies' = 1 /\ MaxApplies = 1
    BY <1>1 DEF RemoveAllClocks, AppliedOnce, TypeOK
  <2>2. inst' = inst /\ registered' = {} /\ pending' \subseteq Cfgs
    BY <1>1 DEF RemoveAllClocks, clockVars
  <2> QED BY <2>1, <2>2 DEF AppliedOnce
<1>2. CASE \E c \in Cfgs : AddClock(c)
  <2> PICK c \in Cfgs : AddClock(c)
    BY <1>2
  <2>1. /\ c \in pending /\ pending' = pending \ {c} /\ registered' = registered \cup {c}
        /\ inst' = [inst EXCEPT ![c] = inst[c] + 1] /\ applies' = applies
    BY DEF AddClock
  <2>2. inst[c] = 0 /\ inst'[c] = 1 /\ \A d \in Cfgs : d # c => inst'[d] = inst[d]
    BY <2>1 DEF AppliedOnce, TypeOK
  <2>3. applies # 0
    BY <2>1 DEF AppliedOnce
  <2> QED BY <2>1, <2>2, <2>3 DEF AppliedOnce, TypeOK
<1>3. CASE UNCHANGED <<applyVars, inst>>
  BY <1>3 DEF AppliedOnce, applyVars
<1>4. CASE ProcessEvents
  BY <1>3, <1>4 DEF ProcessEvents, HandleUnknown, HandleOffset, HandleSourceLost, HandleExpired,
                    HandleParentDS, HandleOsSample, HandleReset, loopFrame
<1>5. CASE \/ \E c \in Cfgs, i \in Ifaces : PortSlave(c, i)
           \/ \E c \in Cfgs, in \in BOOLEAN : Ptp4lOffset(c, in)
           \/ \E c \in Cfgs : PortFaulty(c) \/ Ts2phcDown(c)
           \/ \E c \in Cfgs, k \in GMClasses : PmcParentDS(c, k)
           \/ \E s \in OSStates : OsClockSample(s)
  BY <1>3, <1>5 DEF PortSlave, Ptp4lOffset, PortFaulty, Ts2phcDown, PmcParentDS,
                    OsClockSample, producerFrame, clockVars
<1>6. CASE \/ Forward \/ UNCHANGED vars
           \/ \E t \in sleeping : TimerTimeout(t)
           \/ \E t \in firing : TimerPost(t)
  BY <1>3, <1>6 DEF Forward, TimerTimeout, TimerPost, vars, clockVars
<1> QED BY <1>1, <1>2, <1>4, <1>5, <1>6 DEF Next

-----------------------------------------------------------------------------
(* A process event is not an expiry. *)
LEMMA ProcessEventKinds ==
  ASSUME NEW x \in ProcessEvent
  PROVE  x \in Event /\ x.kind # "expired"
BY DEF ProcessEvent, Event

(* Every handler of the event loop preserves the core of the invariant,    *)
(* and ends a holdover by expiry only through the clock's own timer.       *)
LEMMA HandlersStep ==
  ASSUME TypeOK, Core, AppliedOnce, ProcessEvents
  PROVE  /\ Core'
         /\ \A c \in registered :
              syncState[c] = "HOLDOVER" /\ syncState'[c] = "FREERUN"
                /\ Head(events).kind = "expired"
              => Head(events).timer = CurrentTimer(c)
<1> DEFINE e == Head(events)
           c == e.cfg
           own == \A b \in registered :
                    syncState[b] = "HOLDOVER" /\ syncState'[b] = "FREERUN" /\ e.kind = "expired"
                    => e.timer = CurrentTimer(b)
<1>1. events # <<>> /\ events' = Tail(events) /\ UNCHANGED <<registered, inst, firing>>
  BY DEF ProcessEvents, Take, HandleUnknown, HandleOffset, HandleSourceLost, HandleExpired,
         HandleParentDS, HandleOsSample, HandleReset, loopFrame, applyVars
<1>2. e \in Event /\ registered \subseteq Cfgs
  BY <1>1, QueueType DEF TypeOK
<1>3. ASSUME UNCHANGED <<syncState, holdoverGen, armed, sleeping>>,
             \A b \in registered : e # Expired(CurrentTimer(b))
      PROVE  Core' /\ own
  BY <1>1, <1>3, QuietStep
<1>4. CASE HandleUnknown
  <2>1. \A b \in registered : e # Expired(CurrentTimer(b))
    BY <1>4, ExpiredFields DEF HandleUnknown, CurrentTimer, Timer
  <2> QED BY <1>3, <1>4, <2>1 DEF HandleUnknown
<1>5. CASE HandleParentDS \/ HandleOsSample
  <2>1. \A t : e # Expired(t)
    BY <1>5, ExpiredFields DEF HandleParentDS, HandleOsSample, Take
  <2> QED BY <1>3, <1>5, <2>1 DEF HandleParentDS, HandleOsSample
<1>6. CASE HandleOffset
  <2> DEFINE next == IF e.inRange THEN "LOCKED" ELSE "FREERUN"
  <2>1. /\ c \in registered /\ e.kind # "expired" /\ next # "HOLDOVER"
        /\ cancelHoldoverTimer(c) /\ syncState' = [syncState EXCEPT ![c] = next]
    BY <1>6 DEF HandleOffset, Take, onStateChanged
  <2> HIDE DEF next
  <2> QED BY <1>1, <2>1, CancelStep
<1>7. CASE HandleSourceLost
  <2>1. c \in registered /\ e.kind # "expired" /\ \A t : e # Expired(t)
    BY <1>7, ExpiredFields DEF HandleSourceLost, Take
  <2>2. CASE syncState[c] = "LOCKED"
    <3>1. armHoldoverTimer(c) /\ syncState' = [syncState EXCEPT ![c] = "HOLDOVER"]
      BY <1>7, <2>2 DEF HandleSourceLost, onStateChanged
    <3>2. inst[c] # 0
      BY <2>1 DEF AppliedOnce
    <3> QED BY <1>1, <2>1, <2>2, <3>1, <3>2, ArmStep
  <2>3. CASE syncState[c] # "LOCKED"
    <3>1. UNCHANGED <<syncState, holdoverGen, armed, sleeping>>
      BY <1>2, <1>7, <2>1, <2>3 DEF HandleSourceLost, onStateChanged, TypeOK
    <3> QED BY <1>3, <2>1, <3>1
  <2> QED BY <2>2, <2>3
<1>8. CASE HandleExpired
  <2>1. c \in registered /\ e.kind = "expired" /\ UNCHANGED <<holdoverGen, sleeping>>
    BY <1>8 DEF HandleExpired, Take
  <2>2. CASE syncState[c] = "HOLDOVER" /\ e.timer.gen = holdoverGen[c]
    <3>1. /\ armed' = [armed EXCEPT ![c] = FALSE]
          /\ syncState' = [syncState EXCEPT ![c] = "FREERUN"]
      BY <1>8, <2>2 DEF HandleExpired, onStateChanged
    <3>2. Core' /\ e.timer = CurrentTimer(c)
      BY <1>1, <2>1, <2>2, <3>1, AcceptStep
    <3>3. \A b \in registered : b # c => syncState'[b] = syncState[b]
      BY <1>2, <2>1, <3>1 DEF TypeOK
    <3> QED BY <3>2, <3>3
  <2>3. CASE ~(syncState[c] = "HOLDOVER" /\ e.timer.gen = holdoverGen[c])
    <3>1. UNCHANGED <<syncState, armed>>
      BY <1>8, <2>3 DEF HandleExpired
    <3>2. ASSUME NEW b \in registered, e = Expired(CurrentTimer(b))
          PROVE  FALSE
      <4>1. b = c /\ e.timer.gen = holdoverGen[c]
        BY <3>2, ExpiredFields DEF CurrentTimer, Timer
      <4>2. Nowhere(CurrentTimer(b))
        BY <2>3, <4>1, OneExpiryPlaces DEF Core
      <4>3. 1 \in At(events, CurrentTimer(b))
        BY <1>1, <3>2, TailShifts DEF At, TypeOK
      <4> QED BY <4>2, <4>3 DEF Nowhere
    <3> QED BY <1>3, <2>1, <3>1, <3>2
  <2> QED BY <2>2, <2>3
<1>9. CASE HandleReset
  <2>1. e.kind # "expired" /\ \A t : e # Expired(t)
    BY <1>9, ExpiredFields DEF HandleReset, Take
  <2>2. CASE c \in registered
    <3>1. cancelHoldoverTimer(c) /\ syncState' = [syncState EXCEPT ![c] = "FREERUN"]
      BY <1>9, <2>2 DEF HandleReset
    <3> QED BY <1>1, <2>1, <2>2, <3>1, CancelStep
  <2>3. CASE c \notin registered
    BY <1>3, <1>9, <2>1, <2>3 DEF HandleReset
  <2> QED BY <2>2, <2>3
<1> QED BY <1>4, <1>5, <1>6, <1>7, <1>8, <1>9 DEF ProcessEvents

(* Every step preserves the invariant. *)
LEMMA ExpiryNext ==
  ASSUME MaxApplies <= 1, ExpiryInv, [Next]_vars
  PROVE  ExpiryInv'
<1>0. TypeOK /\ Core /\ AppliedOnce
  BY DEF ExpiryInv, Core
<1>1. TypeOK' /\ AppliedOnce'
  BY <1>0, TypeNext, AppliedNext
<1> SUFFICES Core'
  BY <1>1 DEF ExpiryInv, Core
<1>2. CASE RemoveAllClocks
  <2>1. registered' = {} /\ UNCHANGED <<clockVars, timerVars, events>>
    BY <1>2 DEF RemoveAllClocks
  <2> QED BY <1>0, <2>1 DEF Core, TimersOwned, ArmedInHoldover, ExpiriesPosted,
                            OneExpiryPerHoldover, OnItsWay, clockVars, timerVars
<1>3. CASE \E c \in Cfgs : AddClock(c)
  <2> PICK c \in Cfgs : AddClock(c)
    BY <1>3
  <2>1. inst[c] = 0
    BY <1>0 DEF AddClock, AppliedOnce
  <2> QED BY <1>0, <2>1, AddStep
<1>4. CASE ProcessEvents
  BY <1>0, <1>4, HandlersStep
<1>5. CASE \E t \in sleeping : TimerTimeout(t)
  <2> PICK t \in sleeping : TimerTimeout(t)
    BY <1>5
  <2>1. t \in TimerSet
    BY <1>0 DEF TypeOK
  <2> QED BY <1>0, <2>1, TimerStep DEF TimerTimeout, applyVars, clockVars
<1>6. CASE \E t \in firing : TimerPost(t)
  <2> PICK t \in firing : TimerPost(t)
    BY <1>6
  <2>1. t \in TimerSet
    BY <1>0 DEF TypeOK
  <2> QED BY <1>0, <2>1, TimerStep DEF TimerPost, applyVars, clockVars
<1>7. CASE Forward
  <2>1. Head(eventsIn) \in Event /\ Head(eventsIn).kind # "expired"
    BY <1>0, <1>7, QueueType, ProcessEventKinds DEF Forward, TypeOK
  <2> QED BY <1>0, <1>7, <2>1, QuietStep DEF Forward, applyVars, clockVars, timerVars
<1>8. CASE \/ \E c \in Cfgs, i \in Ifaces : PortSlave(c, i)
           \/ \E c \in Cfgs, in \in BOOLEAN : Ptp4lOffset(c, in)
           \/ \E c \in Cfgs : PortFaulty(c) \/ Ts2phcDown(c)
           \/ \E c \in Cfgs, k \in GMClasses : PmcParentDS(c, k)
           \/ \E s \in OSStates : OsClockSample(s)
  <2>1. UNCHANGED <<applyVars, clockVars, timerVars, events>>
    BY <1>8 DEF PortSlave, Ptp4lOffset, PortFaulty, Ts2phcDown, PmcParentDS,
                OsClockSample, producerFrame
  <2> QED BY <1>0, <2>1, QuietStep DEF applyVars, clockVars, timerVars
<1>9. CASE UNCHANGED vars
  BY <1>0, <1>9, QuietStep DEF vars, applyVars, clockVars, timerVars
<1> QED BY <1>2, <1>3, <1>4, <1>5, <1>6, <1>7, <1>8, <1>9 DEF Next

(* The invariant holds in every reachable state. *)
LEMMA ExpiryInvariant ==
  ASSUME MaxApplies <= 1
  PROVE  Spec => []ExpiryInv
<1>1. Init => ExpiryInv
  <2> SUFFICES ASSUME Init PROVE ExpiryInv
    OBVIOUS
  <2>1. TypeOK
    BY ClockManagerAssumption
       DEF Init, TypeOK, EmptyStore, EmptyClassStore, PTPState, IPCState
  <2>2. TimersOwned /\ ArmedInHoldover /\ ExpiriesPosted /\ OneExpiryPerHoldover
    BY DEF Init, TimersOwned, ArmedInHoldover, ExpiriesPosted, OneExpiryPerHoldover,
           OnItsWay, Queued
  <2>3. AppliedOnce
    BY ClockManagerAssumption DEF Init, AppliedOnce
  <2> QED BY <2>1, <2>2, <2>3 DEF ExpiryInv
<1>2. ExpiryInv /\ [Next]_vars => ExpiryInv'
  BY ExpiryNext
<1> QED BY <1>1, <1>2, PTL DEF Spec

(* Until a config name is registered a second time, a clock in HOLDOVER    *)
(* has exactly one expiry that handleHoldoverExpired will accept, and a    *)
(* clock in any other state has none, however timers, offsets, source      *)
(* losses and resets interleave.                                           *)
THEOREM OneExpiry ==
  ASSUME MaxApplies <= 1
  PROVE  Spec => []OneExpiryPerHoldover
<1>1. ExpiryInv => OneExpiryPerHoldover
  BY DEF ExpiryInv
<1> QED BY <1>1, ExpiryInvariant, PTL

(* Until a config name is registered a second time, a holdover is ended by *)
(* expiry only through the timer its own clock armed for it: "a superseded *)
(* or canceled timer cannot cut a fresh holdover short" (bc.go).           *)
THEOREM OwnTimer ==
  ASSUME MaxApplies <= 1
  PROVE  Spec => ExpiryFromOwnTimer
<1> DEFINE Own == \A c \in registered :
                    (/\ syncState[c] = "HOLDOVER" /\ syncState'[c] = "FREERUN"
                     /\ events # <<>> /\ events' = Tail(events) /\ Head(events).kind = "expired")
                    => Head(events).timer = CurrentTimer(c)
<1>1. ExpiryInv /\ [Next]_vars => [Own]_vars
  <2> SUFFICES ASSUME ExpiryInv, Next PROVE Own
    OBVIOUS
  <2> SUFFICES ASSUME NEW c \in registered, syncState[c] = "HOLDOVER",
                      syncState'[c] = "FREERUN", Head(events).kind = "expired"
               PROVE  Head(events).timer = CurrentTimer(c)
    OBVIOUS
  <2>1. TypeOK /\ Core /\ AppliedOnce
    BY DEF ExpiryInv, Core
  <2>2. CASE ProcessEvents
    BY <2>1, <2>2, HandlersStep
  <2>3. CASE \E b \in Cfgs : AddClock(b)
    BY <2>1, <2>3 DEF AddClock, TypeOK
  <2>4. ASSUME UNCHANGED clockVars PROVE FALSE
    BY <2>4 DEF clockVars
  <2>5. CASE \/ RemoveAllClocks \/ Forward
             \/ \E t \in sleeping : TimerTimeout(t)
             \/ \E t \in firing : TimerPost(t)
    BY <2>4, <2>5 DEF RemoveAllClocks, Forward, TimerTimeout, TimerPost
  <2>6. CASE \/ \E b \in Cfgs, i \in Ifaces : PortSlave(b, i)
             \/ \E b \in Cfgs, in \in BOOLEAN : Ptp4lOffset(b, in)
             \/ \E b \in Cfgs : PortFaulty(b) \/ Ts2phcDown(b)
             \/ \E b \in Cfgs, k \in GMClasses : PmcParentDS(b, k)
             \/ \E s \in OSStates : OsClockSample(s)
    BY <2>4, <2>6 DEF PortSlave, Ptp4lOffset, PortFaulty, Ts2phcDown, PmcParentDS,
                      OsClockSample, producerFrame
  <2> QED BY <2>2, <2>3, <2>5, <2>6 DEF Next
<1> QED BY <1>1, ExpiryInvariant, PTL DEF Spec, ExpiryFromOwnTimer
-----------------------------------------------------------------------------
(* The clocks implement HoldoverClock.  What the abstract clocks show of   *)
(* the detailed ones: *)
Shown    == [c \in Cfgs |-> IF c \in registered THEN syncState[c] ELSE "none"]
Coasting == {c \in registered : syncState[c] = "HOLDOVER" /\ Asleep(c)}

(* A step of one clock c leaves what the other clocks show as it is when   *)
(* it leaves their state, their generation and their timers alone.         *)
LEMMA OthersShown ==
  ASSUME TypeOK, NEW c \in registered, UNCHANGED <<registered, inst>>,
         NEW s, syncState' = [syncState EXCEPT ![c] = s],
         \A d \in Cfgs : d # c => holdoverGen'[d] = holdoverGen[d],
         \A d \in Cfgs : d # c => (CurrentTimer(d) \in sleeping' <=> CurrentTimer(d) \in sleeping)
  PROVE  /\ Shown' = [Shown EXCEPT ![c] = s]
         /\ s # "HOLDOVER" => Coasting' = Coasting \ {c}
         /\ s = "HOLDOVER" /\ CurrentTimer(c)' \in sleeping' => Coasting' = Coasting \cup {c}
<1>1. c \in Cfgs /\ registered \subseteq Cfgs
  BY DEF TypeOK
<1>2. syncState'[c] = s /\ \A d \in Cfgs : d # c => syncState'[d] = syncState[d]
  BY <1>1 DEF TypeOK
<1>3. Shown' = [Shown EXCEPT ![c] = s]
  BY <1>1, <1>2 DEF Shown
<1>4. ASSUME NEW d \in registered, d # c
      PROVE  d \in Coasting' <=> d \in Coasting
  <2>1. CurrentTimer(d)' = CurrentTimer(d)
    BY <1>1, <1>4 DEF CurrentTimer
  <2> QED BY <1>1, <1>2, <1>4, <2>1 DEF Coasting, Asleep
<1>5. /\ Coasting \subseteq registered /\ Coasting' \subseteq registered
      /\ s # "HOLDOVER" => c \notin Coasting'
      /\ s = "HOLDOVER" /\ CurrentTimer(c)' \in sleeping' => c \in Coasting'
  BY <1>2 DEF Coasting, Asleep
<1> QED BY <1>3, <1>4, <1>5

(* Steps that leave the clocks and what sleeps alone show nothing. *)
LEMMA NothingShown ==
  ASSUME UNCHANGED <<registered, inst, syncState, holdoverGen>>, UNCHANGED sleeping
  PROVE  Shown' = Shown /\ Coasting' = Coasting
BY DEF Shown, Coasting, Asleep, CurrentTimer

(* A handler of the loop is a step of the abstract clock or shows nothing. *)
LEMMA HandlersShown ==
  ASSUME TypeOK, Core, ProcessEvents
  PROVE  Promised!Next
<1> DEFINE e == Head(events)
<1>0. PICK c : c = e.cfg
  OBVIOUS
<1>1. events # <<>> /\ events' = Tail(events) /\ UNCHANGED <<registered, inst>>
  BY DEF ProcessEvents, Take, HandleUnknown, HandleOffset, HandleSourceLost, HandleExpired,
         HandleParentDS, HandleOsSample, HandleReset, loopFrame, applyVars
<1>2. registered \subseteq Cfgs /\ \A d \in registered : Shown[d] = syncState[d]
                                   /\ syncState[d] # "none"
  BY DEF TypeOK, Shown, PTPState
<1>3. ASSUME Shown' = Shown, Coasting' = Coasting
      PROVE  Promised!Next
  BY <1>3 DEF Promised!Next, Promised!Idle, Shown, Coasting
<1>4. ASSUME UNCHANGED <<syncState, holdoverGen, sleeping>>
      PROVE  Promised!Next
  BY <1>1, <1>3, <1>4, NothingShown
<1>5. ASSUME NEW d \in registered,
             \/ Promised!InRange(d) \/ Promised!RunFree(d) \/ Promised!LoseSource(d)
             \/ Promised!Expire(d)
      PROVE  Promised!Next
  BY <1>2, <1>5 DEF Promised!Next
<1>6. ASSUME c \in registered, cancelHoldoverTimer(c)
      PROVE  /\ \A d \in Cfgs : d # c => holdoverGen'[d] = holdoverGen[d]
             /\ \A d \in Cfgs : d # c =>
                  (CurrentTimer(d) \in sleeping' <=> CurrentTimer(d) \in sleeping)
  <2>1. \A d \in Cfgs : d # c => CurrentTimer(d) # CurrentTimer(c)
    BY TimersDiffer DEF CurrentTimer
  <2> QED BY <1>6, <2>1 DEF cancelHoldoverTimer, TypeOK
<1>7. CASE HandleUnknown \/ HandleParentDS \/ HandleOsSample
  BY <1>4, <1>7 DEF HandleUnknown, HandleParentDS, HandleOsSample
<1>8. CASE HandleOffset
  <2> DEFINE next == IF e.inRange THEN "LOCKED" ELSE "FREERUN"
  <2>1. c \in registered /\ e.kind = "offset" /\ cancelHoldoverTimer(c)
        /\ syncState' = [syncState EXCEPT ![c] = next]
    BY <1>0, <1>8 DEF HandleOffset, Take, onStateChanged
  <2>2. Shown' = [Shown EXCEPT ![c] = next] /\ Coasting' = Coasting \ {c}
    BY <1>1, <1>6, <2>1, OthersShown
  <2>3. Promised!InRange(c) \/ Promised!RunFree(c)
    BY <1>0, <1>1, <1>2, <2>1, <2>2 DEF Promised!InRange, Promised!RunFree, Promised!Input,
                                  Promised!Becomes, Shown, Coasting
  <2> QED BY <1>5, <2>1, <2>3
<1>9. CASE HandleSourceLost
  <2>1. c \in registered /\ e.kind = "sourceLost"
    BY <1>0, <1>9 DEF HandleSourceLost, Take
  <2>2. CASE syncState[c] = "LOCKED"
    <3>1. armHoldoverTimer(c) /\ syncState' = [syncState EXCEPT ![c] = "HOLDOVER"]
      BY <1>0, <1>9, <2>2 DEF HandleSourceLost, onStateChanged
    <3>2. ~armed[c] /\ c \in Cfgs
      BY <1>2, <2>1, <2>2 DEF Core, ArmedInHoldover
    <3>3. /\ sleeping' = sleeping \cup {Timer(c, inst[c], holdoverGen[c] + 1)}
          /\ holdoverGen' = [holdoverGen EXCEPT ![c] = holdoverGen[c] + 1]
      BY <3>1, <3>2 DEF armHoldoverTimer
    <3>4. CurrentTimer(c)' = Timer(c, inst[c], holdoverGen[c] + 1)
      BY <1>1, <3>2, <3>3 DEF CurrentTimer, TypeOK
    <3>5. \A d \in Cfgs : d # c => CurrentTimer(d) # Timer(c, inst[c], holdoverGen[c] + 1)
      BY TimersDiffer DEF CurrentTimer
    <3>6. Shown' = [Shown EXCEPT ![c] = "HOLDOVER"] /\ Coasting' = Coasting \cup {c}
      BY <1>1, <2>1, <3>1, <3>2, <3>3, <3>4, <3>5, OthersShown DEF TypeOK
    <3>7. Promised!LoseSource(c)
      BY <1>0, <1>1, <1>2, <2>1, <2>2, <3>6 DEF Promised!LoseSource, Promised!Input,
                                          Promised!Becomes, Shown, Coasting
    <3> QED BY <1>5, <2>1, <3>7
  <2>3. CASE syncState[c] # "LOCKED"
    <3>1. UNCHANGED <<syncState, holdoverGen, sleeping>>
      BY <1>0, <1>2, <1>9, <2>1, <2>3 DEF HandleSourceLost, onStateChanged, TypeOK
    <3> QED BY <1>4, <3>1
  <2> QED BY <2>2, <2>3
<1>10. CASE HandleExpired
  <2>1. c \in registered /\ e.kind = "expired" /\ UNCHANGED <<holdoverGen, sleeping>>
    BY <1>0, <1>10 DEF HandleExpired, Take
  <2>2. CASE syncState[c] = "HOLDOVER" /\ e.timer.gen = holdoverGen[c]
    <3>1. syncState' = [syncState EXCEPT ![c] = "FREERUN"]
      BY <1>0, <1>10, <2>2 DEF HandleExpired, onStateChanged
    <3>2. c \notin Coasting
      <4>1. /\ e.timer \in TimerSet /\ e = Expired(e.timer)
            /\ c = e.timer.cfg /\ e.timer.inst = inst[c]
        BY <1>0, <1>1, <2>1, HeadExpiry DEF Core
      <4>2. e = Expired(CurrentTimer(c))
        BY <2>2, <4>1 DEF TimerSet, CurrentTimer, Timer
      <4>3. 1 \in At(events, CurrentTimer(c))
        BY <1>1, <4>2, TailShifts DEF At, TypeOK
      <4>4. InOnePlace(CurrentTimer(c))
        BY <2>1, <2>2, OneExpiryPlaces DEF Core
      <4> QED BY <4>3, <4>4 DEF InOnePlace, Coasting, Asleep
    <3>3. Shown' = [Shown EXCEPT ![c] = "FREERUN"] /\ Coasting' = Coasting
      <4>1. PICK next : next = "FREERUN"
        OBVIOUS
      <4>2. syncState' = [syncState EXCEPT ![c] = next] /\ next # "HOLDOVER"
        BY <3>1, <4>1
      <4>3. Shown' = [Shown EXCEPT ![c] = next] /\ Coasting' = Coasting \ {c}
        BY <1>1, <2>1, <4>2, OthersShown
      <4> QED BY <3>2, <4>1, <4>3
    <3>4. Promised!Expire(c)
      BY <1>0, <1>1, <1>2, <2>1, <2>2, <3>2, <3>3 DEF Promised!Expire, Promised!Input,
                                               Promised!Becomes, Shown, Coasting
    <3> QED BY <1>5, <2>1, <3>4
  <2>3. CASE ~(syncState[c] = "HOLDOVER" /\ e.timer.gen = holdoverGen[c])
    BY <1>0, <1>4, <1>10, <2>1, <2>3 DEF HandleExpired
  <2> QED BY <2>2, <2>3
<1>11. CASE HandleReset
  <2>1. e.kind = "reset"
    BY <1>0, <1>11 DEF HandleReset, Take
  <2>2. CASE c \in registered
    <3>1. cancelHoldoverTimer(c) /\ syncState' = [syncState EXCEPT ![c] = "FREERUN"]
      BY <1>0, <1>11, <2>2 DEF HandleReset
    <3>2. Shown' = [Shown EXCEPT ![c] = "FREERUN"] /\ Coasting' = Coasting \ {c}
      <4>1. PICK next : next = "FREERUN"
        OBVIOUS
      <4>2. syncState' = [syncState EXCEPT ![c] = next] /\ next # "HOLDOVER"
        BY <3>1, <4>1
      <4>3. Shown' = [Shown EXCEPT ![c] = next] /\ Coasting' = Coasting \ {c}
        BY <1>1, <1>6, <2>2, <3>1, <4>2, OthersShown
      <4> QED BY <4>1, <4>3
    <3>3. Promised!RunFree(c)
      BY <1>0, <1>1, <1>2, <2>1, <2>2, <3>2 DEF Promised!RunFree, Promised!Input,
                                          Promised!Becomes, Shown, Coasting
    <3> QED BY <1>5, <2>2, <3>3
  <2>3. CASE c \notin registered
    BY <1>0, <1>4, <1>11, <2>3 DEF HandleReset
  <2> QED BY <2>2, <2>3
<1> QED BY <1>7, <1>8, <1>9, <1>10, <1>11 DEF ProcessEvents

(* Every step is one of the abstract clocks, or shows nothing. *)
LEMMA StepsShown ==
  ASSUME ExpiryInv, [Next]_vars
  PROVE  [Promised!Next]_<<Shown, Coasting, events>>
<1>0. TypeOK /\ Core /\ AppliedOnce
  BY DEF ExpiryInv, Core
<1>1. ASSUME Shown' = Shown, Coasting' = Coasting
      PROVE  Promised!Next
  BY <1>1 DEF Promised!Next, Promised!Idle, Shown, Coasting
<1>2. CASE RemoveAllClocks
  <2>1. registered' = {}
    BY <1>2 DEF RemoveAllClocks
  <2>2. Promised!Apply
    BY <2>1 DEF Promised!Apply
  <2> QED BY <2>2 DEF Promised!Next
<1>3. CASE \E c \in Cfgs : AddClock(c)
  <2> PICK c \in Cfgs : AddClock(c)
    BY <1>3
  <2>1. c \notin registered
    BY <1>0 DEF AddClock, AppliedOnce
  <2>2. /\ registered' = registered \cup {c} /\ UNCHANGED <<sleeping, events>>
        /\ \A d \in Cfgs : d # c => /\ inst'[d] = inst[d] /\ holdoverGen'[d] = holdoverGen[d]
                                    /\ syncState'[d] = syncState[d]
        /\ syncState'[c] = "NOTSET"
    BY <1>0 DEF AddClock, TypeOK, timerVars
  <2>3. Shown' = [Shown EXCEPT ![c] = "NOTSET"] /\ Shown[c] = "none"
    BY <2>1, <2>2 DEF Shown
  <2>4. Coasting' = Coasting
    <3>1. \A d \in registered : d \in Cfgs /\ d # c
      BY <1>0, <2>1 DEF TypeOK
    <3>2. \A d \in registered : CurrentTimer(d)' = CurrentTimer(d)
      BY <2>2, <3>1 DEF CurrentTimer
    <3> QED BY <2>2, <3>1, <3>2 DEF Coasting, Asleep
  <2>5. Promised!Register(c)
    BY <2>3, <2>4 DEF Promised!Register, Promised!Becomes, Shown, Coasting
  <2> QED BY <2>5 DEF Promised!Next
<1>4. CASE ProcessEvents
  BY <1>0, <1>4, HandlersShown
<1>5. CASE \E t \in sleeping : TimerTimeout(t)
  <2> PICK t \in sleeping : TimerTimeout(t)
    BY <1>5
  <2>1. UNCHANGED <<registered, inst, syncState, holdoverGen>> /\ sleeping' = sleeping \ {t}
    BY DEF TimerTimeout, applyVars, clockVars
  <2>2. Shown' = Shown /\ \A d \in Cfgs : CurrentTimer(d)' = CurrentTimer(d)
    BY <2>1 DEF Shown, CurrentTimer
  <2>3. CASE \E c \in Coasting : t = CurrentTimer(c)
    <3> PICK c \in Coasting : t = CurrentTimer(c)
      BY <2>3
    <3>1. Coasting \subseteq registered /\ registered \subseteq Cfgs
      BY <1>0 DEF Coasting, TypeOK
    <3>2. \A d \in Cfgs : d # c => CurrentTimer(d) # t
      BY TimersDiffer DEF CurrentTimer
    <3>3. Coasting' = Coasting \ {c}
      BY <2>1, <2>2, <3>1, <3>2 DEF Coasting, Asleep
    <3>4. Promised!TimeUp(c)
      BY <2>2, <3>3 DEF Promised!TimeUp, Shown, Coasting
    <3> QED BY <3>1, <3>4 DEF Promised!Next
  <2>4. CASE \A c \in Coasting : t # CurrentTimer(c)
    <3>1. registered \subseteq Cfgs
      BY <1>0 DEF TypeOK
    <3>2. Coasting' = Coasting
      BY <2>1, <2>2, <2>4, <3>1 DEF Coasting, Asleep
    <3> QED BY <1>1, <2>2, <3>2
  <2> QED BY <2>3, <2>4
<1>6. CASE \E t \in firing : TimerPost(t)
  BY <1>1, <1>6, NothingShown DEF TimerPost, applyVars, clockVars
<1>7. CASE Forward
  BY <1>1, <1>7, NothingShown DEF Forward, applyVars, clockVars, timerVars
<1>8. CASE \/ \E c \in Cfgs, i \in Ifaces : PortSlave(c, i)
           \/ \E c \in Cfgs, in \in BOOLEAN : Ptp4lOffset(c, in)
           \/ \E c \in Cfgs : PortFaulty(c) \/ Ts2phcDown(c)
           \/ \E c \in Cfgs, k \in GMClasses : PmcParentDS(c, k)
           \/ \E s \in OSStates : OsClockSample(s)
  <2>1. UNCHANGED <<applyVars, clockVars, timerVars>>
    BY <1>8 DEF PortSlave, Ptp4lOffset, PortFaulty, Ts2phcDown, PmcParentDS,
                OsClockSample, producerFrame
  <2> QED BY <1>1, <2>1, NothingShown DEF applyVars, clockVars, timerVars
<1>9. CASE UNCHANGED vars
  BY <1>1, <1>9, NothingShown DEF vars, applyVars, clockVars, timerVars
<1> QED BY <1>2, <1>3, <1>4, <1>5, <1>6, <1>7, <1>8, <1>9 DEF Next

(* Until a config name is registered a second time, the clocks with their  *)
(* goroutines, generations and channels implement the clocks the comment   *)
(* on BCClock (bc.go) promises: HOLDOVER only out of LOCKED, and out of    *)
(* HOLDOVER only by an offset, a reset or a timer whose time is up.        *)
THEOREM PromiseKept ==
  ASSUME MaxApplies <= 1
  PROVE  Spec => KeepsPromise
<1>1. Init => Promised!Init
  BY DEF Init, Promised!Init
<1>2. ExpiryInv /\ [Next]_vars => [Promised!Next]_<<Shown, Coasting, events>>
  BY StepsShown
<1>3. [Promised!Next]_<<Shown, Coasting, events>>
        => [Promised!Next]_<<[c \in Cfgs |-> IF c \in registered THEN syncState[c] ELSE "none"],
                             {c \in registered : syncState[c] = "HOLDOVER" /\ Asleep(c)},
                             events>>
  BY DEF Shown, Coasting
<1> QED BY <1>1, <1>2, <1>3, ExpiryInvariant, PTL DEF Spec, KeepsPromise, Promised!Spec
=============================================================================
