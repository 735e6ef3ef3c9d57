---------------------------- MODULE ClockManager ----------------------------
(***************************************************************************)
(* The clock manager of linuxptp-daemon with its boundary and ordinary     *)
(* clocks: pkg/clockmgr/clockmgr.go, pkg/clock/{clock,baseclock,bc}.go, the *)
(* producers of their events in pkg/daemon/log_parsing.go and the profile  *)
(* apply of pkg/daemon/daemon.go.                                          *)
(*                                                                         *)
(* Concurrent parties: the ptp4l log scanners and the other producers, the *)
(* process manager that forwards eventsIn to eventsOut, the event loop     *)
(* ProcessEvents, one goroutine per armed holdover timer, and the daemon   *)
(* applying profiles.  Every handler of the loop runs under                *)
(* clockManagementMu and is one action; RemoveAllClocks and each AddClock  *)
(* take the same lock and are one action each.                             *)
(***************************************************************************)
EXTENDS PTPStates, Naturals, Sequences

CONSTANTS
  Cfgs,        \* config names, ptp4l.<runID>.config: reused by every apply
  OCs,         \* those of ordinary clocks; the others are boundary clocks
  Ts2phcCfgs,  \* those whose profile also runs ts2phc, the source of Reset
  Ifaces,      \* network interfaces
  NoIface,     \* the empty interface name
  GMClasses,   \* clock classes a grandmaster announces
  OSStates,    \* states phc2sys or chronyd report of the system clock
  InCap,       \* capacity of eventsIn (100 in the code)
  OutCap,      \* capacity of eventsOut, which is ClockManager.events (100)
  MaxApplies,  \* bound: profile applies
  MaxGen       \* bound: a port may only go faulty below this generation

ASSUME ClockManagerAssumption ==
  /\ OCs \subseteq Cfgs
  /\ Ts2phcCfgs \subseteq Cfgs
  /\ NoIface \notin Ifaces
  /\ GMClasses \subseteq Nat
  /\ OSStates \subseteq {"FREERUN", "HOLDOVER", "LOCKED"}
  /\ InCap \in Nat \ {0}
  /\ OutCap \in Nat \ {0}
  /\ MaxApplies \in Nat
  /\ MaxGen \in Nat

VARIABLES
  registered,   \* the keys of ClockManager.clocks
  pending,      \* clocks the apply in progress has still to add
  applies,      \* number of applies so far
  inst,         \* which clock object is, or was last, registered under a name
  syncState,    \* BCClock.syncState of that object
  overall,      \* BaseClock.overallSyncState
  clockClass,   \* BCClock.clockClass, 0 when not known
  iface,        \* BCClock.iface
  holdoverGen,  \* BCClock.holdoverGen
  armed,        \* BCClock.holdoverCancel # nil
  sleeping,     \* timer goroutines waiting for cancel or timeout
  firing,       \* timer goroutines past the timeout, in sendEvent
  osState,      \* ClockManager.osClock.State
  store,        \* ipc.Cache.store: last state sent per key, NoMsg when absent
  classStore,   \* ipc.Cache.store: last clock class sent per key, 0 when absent
  slaveIface,   \* daemon: follower interface per config
  offsetSource, \* daemon: ptp4l is the config's master-offset source
  eventsIn,     \* processes -> process manager
  events        \* process manager and timers -> ProcessEvents

clockVars == <<inst, syncState, overall, clockClass, iface, holdoverGen, armed>>
timerVars == <<sleeping, firing>>
applyVars == <<registered, pending, applies>>
storeVars == <<store, classStore>>
portVars  == <<slaveIface, offsetSource>>
vars == <<applyVars, clockVars, timerVars, osState, storeVars, portVars, eventsIn, events>>

-----------------------------------------------------------------------------
(* Events.  A HoldoverExpired event carries the generation of its timer;   *)
(* inst names the clock object that armed it, which the code does not      *)
(* record: no action looks at it.                                          *)

Offset(c, i, in)  == [kind |-> "offset", cfg |-> c, iface |-> i, inRange |-> in]
SourceLost(c, i)  == [kind |-> "sourceLost", cfg |-> c, iface |-> i]
ParentDS(c, k)    == [kind |-> "parentDS", cfg |-> c, class |-> k]
Reset(c)          == [kind |-> "reset", cfg |-> c]
OsSample(s)       == [kind |-> "os", state |-> s]
Timer(c, n, g)    == [cfg |-> c, inst |-> n, gen |-> g]
Expired(t)        == [kind |-> "expired", cfg |-> t.cfg, timer |-> t]

TimerSet == [cfg : Cfgs, inst : Nat, gen : Nat]

ProcessEvent ==
  [kind : {"offset"}, cfg : Cfgs, iface : Ifaces, inRange : BOOLEAN]
    \cup [kind : {"sourceLost"}, cfg : Cfgs, iface : Ifaces]
    \cup [kind : {"parentDS"}, cfg : Cfgs, class : GMClasses]
    \cup [kind : {"reset"}, cfg : Cfgs]
    \cup [kind : {"os"}, state : OSStates]

Event == ProcessEvent
           \cup [kind : {"expired"}, cfg : Cfgs, timer : TimerSet]

(* Keys of the IPC cache: type, profile, interface. *)
NoMsg == "none"
PtpKey(c, i)   == <<"ptp_state", c, i>>
SyncKey(c)     == <<"sync_state", c>>
OsKey          == <<"os_clock_state">>

Keys == {PtpKey(c, i) : c \in Cfgs, i \in Ifaces \cup {NoIface}}
          \cup {SyncKey(c) : c \in Cfgs}
          \cup {OsKey}

ClassKeys == Cfgs \X (Ifaces \cup {NoIface})

EmptyStore      == [k \in Keys |-> NoMsg]
EmptyClassStore == [k \in ClassKeys |-> 0]

-----------------------------------------------------------------------------
Init ==
  /\ registered = {} /\ pending = {} /\ applies = 0
  /\ inst = [c \in Cfgs |-> 0]
  /\ syncState = [c \in Cfgs |-> "NOTSET"]
  /\ overall = [c \in Cfgs |-> "NOTSET"]
  /\ clockClass = [c \in Cfgs |-> 0]
  /\ iface = [c \in Cfgs |-> NoIface]
  /\ holdoverGen = [c \in Cfgs |-> 0]
  /\ armed = [c \in Cfgs |-> FALSE]
  /\ sleeping = {} /\ firing = {}
  /\ osState = "FREERUN"
  /\ store = EmptyStore /\ classStore = EmptyClassStore
  /\ slaveIface = [c \in Cfgs |-> NoIface]
  /\ offsetSource = [c \in Cfgs |-> FALSE]
  /\ eventsIn = <<>> /\ events = <<>>

-----------------------------------------------------------------------------
(* Applying profiles: the processes are stopped, all clocks dropped, then  *)
(* the clocks of the new profiles are added and their processes started.   *)
(* Dropped clocks keep their timer goroutines, the IPC cache its messages, *)
(* the two channels their events.                                          *)

RemoveAllClocks ==
  \E target \in SUBSET Cfgs \ {{}} :
    /\ pending = {} /\ applies < MaxApplies
    /\ applies' = applies + 1
    /\ registered' = {}
    /\ pending' = target
    /\ osState' = "FREERUN"
    /\ slaveIface' = [c \in Cfgs |-> NoIface]     \* InitializeOffsetMaps
    /\ offsetSource' = [c \in Cfgs |-> FALSE]
    /\ UNCHANGED <<clockVars, timerVars, storeVars, eventsIn, events>>

AddClock(c) ==
  /\ c \in pending
  /\ pending' = pending \ {c}
  /\ registered' = registered \cup {c}
  /\ inst' = [inst EXCEPT ![c] = @ + 1]
  /\ syncState' = [syncState EXCEPT ![c] = "NOTSET"]
  /\ overall' = [overall EXCEPT ![c] = "NOTSET"]
  /\ clockClass' = [clockClass EXCEPT ![c] = 0]
  /\ iface' = [iface EXCEPT ![c] = NoIface]
  /\ holdoverGen' = [holdoverGen EXCEPT ![c] = 0]
  /\ armed' = [armed EXCEPT ![c] = FALSE]
  /\ UNCHANGED <<applies, timerVars, osState, storeVars, portVars, eventsIn, events>>

-----------------------------------------------------------------------------
(* Producers.  Their processes run once the apply has added every clock;   *)
(* every send to eventsIn is non-blocking, so a full channel loses it.     *)

Running(c) == pending = {} /\ c \in registered

Offer(ev) == eventsIn' = IF Len(eventsIn) < InCap THEN Append(eventsIn, ev)
                                                  ELSE eventsIn

producerFrame == <<applyVars, clockVars, timerVars, osState, storeVars, events>>

(* ptp4l logs that port i became SLAVE. *)
PortSlave(c, i) ==
  /\ Running(c)
  /\ slaveIface' = [slaveIface EXCEPT ![c] = i]
  /\ UNCHANGED <<producerFrame, offsetSource, eventsIn>>

(* Mutant: the offset is forwarded before the follower interface is known. *)
Ptp4lOffset_Ungated(c, in) ==
  /\ Running(c)
  /\ offsetSource' = [offsetSource EXCEPT ![c] = TRUE]
  /\ Offer(Offset(c, slaveIface[c], in))
  /\ UNCHANGED <<producerFrame, slaveIface>>

(* ptp4l logs an offset: forwarded once the follower interface is known. *)
Ptp4lOffset(c, in) ==
  /\ Running(c)
  /\ offsetSource' = [offsetSource EXCEPT ![c] = TRUE]
  /\ IF slaveIface[c] # NoIface THEN Offer(Offset(c, slaveIface[c], in))
                                ELSE UNCHANGED eventsIn
  /\ UNCHANGED <<producerFrame, slaveIface>>

(* ptp4l logs that the follower port is FAULTY or LISTENING. *)
PortFaulty(c) ==
  /\ Running(c) /\ holdoverGen[c] < MaxGen
  /\ slaveIface[c] # NoIface /\ offsetSource[c]
  /\ Offer(SourceLost(c, slaveIface[c]))
  /\ slaveIface' = [slaveIface EXCEPT ![c] = NoIface]
  /\ UNCHANGED <<producerFrame, offsetSource>>

(* The pmc monitor reports a parent data set. *)
PmcParentDS(c, k) ==
  /\ Running(c)
  /\ Offer(ParentDS(c, k))
  /\ UNCHANGED <<producerFrame, portVars>>

(* phc2sys or chronyd reports a sample of the system clock. *)
OsClockSample(s) ==
  /\ pending = {} /\ registered # {}
  /\ Offer(OsSample(s))
  /\ UNCHANGED <<producerFrame, portVars>>

(* ts2phc went down. *)
Ts2phcDown(c) ==
  /\ Running(c) /\ c \in Ts2phcCfgs
  /\ Offer(Reset(c))
  /\ UNCHANGED <<producerFrame, portVars>>

(* The process manager hands the next event to the clock manager. *)
Forward ==
  /\ eventsIn # <<>> /\ Len(events) < OutCap
  /\ events' = Append(events, Head(eventsIn))
  /\ eventsIn' = Tail(eventsIn)
  /\ UNCHANGED <<applyVars, clockVars, timerVars, osState, storeVars, portVars>>

-----------------------------------------------------------------------------
(* Holdover timers. *)

CurrentTimer(c) == Timer(c, inst[c], holdoverGen[c])

(* Mutant: cancelling does not take a new generation. *)
cancelHoldoverTimer_NoBump(c) ==
  /\ armed' = [armed EXCEPT ![c] = FALSE]
  /\ sleeping' = IF armed[c] THEN sleeping \ {CurrentTimer(c)} ELSE sleeping
  /\ UNCHANGED holdoverGen

(* cancelHoldoverTimer: closing the channel ends a goroutine still asleep. *)
cancelHoldoverTimer(c) ==
  /\ armed' = [armed EXCEPT ![c] = FALSE]
  /\ holdoverGen' = [holdoverGen EXCEPT ![c] = IF armed[c] THEN @ + 1 ELSE @]
  /\ sleeping' = IF armed[c] THEN sleeping \ {CurrentTimer(c)} ELSE sleeping

(* Mutant: the goroutine captures the generation before it is incremented. *)
armHoldoverTimer_OldGen(c) ==
  LET g == holdoverGen[c] + (IF armed[c] THEN 1 ELSE 0)
  IN  /\ armed' = [armed EXCEPT ![c] = TRUE]
      /\ holdoverGen' = [holdoverGen EXCEPT ![c] = g + 1]
      /\ sleeping' = (IF armed[c] THEN sleeping \ {CurrentTimer(c)} ELSE sleeping)
                       \cup {Timer(c, inst[c], g)}

(* armHoldoverTimer: cancel, take a new generation, start a goroutine. *)
armHoldoverTimer(c) ==
  LET g == holdoverGen[c] + (IF armed[c] THEN 2 ELSE 1)
  IN  /\ armed' = [armed EXCEPT ![c] = TRUE]
      /\ holdoverGen' = [holdoverGen EXCEPT ![c] = g]
      /\ sleeping' = (IF armed[c] THEN sleeping \ {CurrentTimer(c)} ELSE sleeping)
                       \cup {Timer(c, inst[c], g)}

TimerTimeout(t) ==
  /\ t \in sleeping
  /\ sleeping' = sleeping \ {t}
  /\ firing' = firing \cup {t}
  /\ UNCHANGED <<applyVars, clockVars, osState, storeVars, portVars, eventsIn, events>>

(* sendEvent blocks while the channel is full. *)
TimerPost(t) ==
  /\ t \in firing /\ Len(events) < OutCap
  /\ firing' = firing \ {t}
  /\ events' = Append(events, Expired(t))
  /\ UNCHANGED <<applyVars, clockVars, sleeping, osState, storeVars, portVars, eventsIn>>

-----------------------------------------------------------------------------
(* The event loop.  next is the state a handler leaves the clock in.       *)

Take(kind) == /\ events # <<>> /\ Head(events).kind = kind
              /\ events' = Tail(events)

loopFrame == <<applyVars, inst, firing, portVars, eventsIn>>

(* Mutant: the port state is sent before it is assigned. *)
onStateChanged_SendFirst(c, next, i) ==
  LET worst == worstOfState(next, osState)
      sent  == IF next = syncState[c] THEN store
               ELSE [store EXCEPT ![PtpKey(c, i)] = PtpStateToIPCState(syncState[c])]
  IN  /\ syncState' = [syncState EXCEPT ![c] = next]
      /\ overall' = [overall EXCEPT ![c] = worst]
      /\ store' = IF worst = overall[c] THEN sent
                  ELSE [sent EXCEPT ![SyncKey(c)] = PtpStateToIPCState(worst)]

(* Handlers that change syncState call onStateChanged: the state is sent   *)
(* when it changed, the overall state always reconciled and sent when it   *)
(* changed.                                                                *)
onStateChanged(c, next, i) ==
  LET worst == worstOfState(next, osState)
      sent  == IF next = syncState[c] THEN store
               ELSE [store EXCEPT ![PtpKey(c, i)] = PtpStateToIPCState(next)]
  IN  /\ syncState' = [syncState EXCEPT ![c] = next]
      /\ overall' = [overall EXCEPT ![c] = worst]
      /\ store' = IF worst = overall[c] THEN sent
                  ELSE [sent EXCEPT ![SyncKey(c)] = PtpStateToIPCState(worst)]

(* An event for a config without a clock is dropped. *)
HandleUnknown ==
  /\ events # <<>> /\ Head(events).kind \in {"offset", "sourceLost", "parentDS", "expired"}
  /\ Head(events).cfg \notin registered
  /\ events' = Tail(events)
  /\ UNCHANGED <<loopFrame, syncState, overall, clockClass, iface, holdoverGen,
                 armed, sleeping, osState, storeVars>>

HandleOffset ==
  LET c == Head(events).cfg
      i == Head(events).iface
  IN  /\ Take("offset") /\ c \in registered
      /\ iface' = [iface EXCEPT ![c] = i]
      /\ cancelHoldoverTimer(c)
      /\ onStateChanged(c, IF Head(events).inRange THEN "LOCKED" ELSE "FREERUN", i)
      /\ UNCHANGED <<loopFrame, clockClass, osState, classStore>>

(* Mutant: a clock that was not LOCKED goes into HOLDOVER too. *)
HandleSourceLost_AnyState ==
  LET c == Head(events).cfg
  IN  /\ Take("sourceLost") /\ c \in registered
      /\ armHoldoverTimer(c)
      /\ onStateChanged(c, "HOLDOVER", Head(events).iface)
      /\ UNCHANGED <<loopFrame, clockClass, iface, osState, classStore>>

HandleSourceLost ==
  LET c == Head(events).cfg
      i == Head(events).iface
  IN  /\ Take("sourceLost") /\ c \in registered
      /\ IF syncState[c] = "LOCKED"
         THEN armHoldoverTimer(c) /\ onStateChanged(c, "HOLDOVER", i)
         ELSE /\ onStateChanged(c, syncState[c], i)
              /\ UNCHANGED <<armed, holdoverGen, sleeping>>
      /\ UNCHANGED <<loopFrame, clockClass, iface, osState, classStore>>

(* Mutant: the generation of the expiry is not compared. *)
HandleExpired_AnyGen ==
  LET c == Head(events).cfg
  IN  /\ Take("expired") /\ c \in registered
      /\ IF syncState[c] = "HOLDOVER"
         THEN /\ armed' = [armed EXCEPT ![c] = FALSE]
              /\ onStateChanged(c, "FREERUN", iface[c])
         ELSE UNCHANGED <<armed, syncState, overall, store>>
      /\ UNCHANGED <<loopFrame, clockClass, iface, holdoverGen, sleeping, osState, classStore>>

HandleExpired ==
  LET c == Head(events).cfg
  IN  /\ Take("expired") /\ c \in registered
      /\ IF syncState[c] = "HOLDOVER" /\ Head(events).timer.gen = holdoverGen[c]
         THEN /\ armed' = [armed EXCEPT ![c] = FALSE]
              /\ onStateChanged(c, "FREERUN", iface[c])
         ELSE UNCHANGED <<armed, syncState, overall, store>>
      /\ UNCHANGED <<loopFrame, clockClass, iface, holdoverGen, sleeping, osState, classStore>>

HandleParentDS ==
  LET c == Head(events).cfg
      k == IF c \in OCs THEN 255 ELSE Head(events).class
  IN  /\ Take("parentDS") /\ c \in registered
      /\ clockClass' = [clockClass EXCEPT ![c] = k]
      /\ classStore' = IF k = clockClass[c] THEN classStore
                       ELSE [classStore EXCEPT ![<<c, iface[c]>>] = k]
      /\ UNCHANGED <<loopFrame, syncState, overall, iface, holdoverGen, armed,
                     sleeping, osState, store>>

(* Mutant: a changed system clock state is not handed to the clocks. *)
HandleOsSample_NoFanOut ==
  /\ Take("os")
  /\ osState' = Head(events).state
  /\ store' = IF Head(events).state = osState THEN store
              ELSE [store EXCEPT ![OsKey] = PtpStateToIPCState(Head(events).state)]
  /\ UNCHANGED <<loopFrame, overall, syncState, clockClass, iface, holdoverGen, armed,
                 sleeping, classStore>>

(* handleOSClockEvent: a changed state is sent, and every clock reconciles. *)
HandleOsSample ==
  LET s == Head(events).state
      worst(c) == worstOfState(syncState[c], s)
  IN  /\ Take("os")
      /\ osState' = s
      /\ IF s = osState THEN UNCHANGED <<overall, store>>
         ELSE /\ overall' = [c \in Cfgs |-> IF c \in registered THEN worst(c) ELSE overall[c]]
              /\ store' = [k \in Keys |->
                   IF k = OsKey THEN PtpStateToIPCState(s)
                   ELSE IF \E c \in registered : k = SyncKey(c) /\ worst(c) # overall[c]
                        THEN PtpStateToIPCState(worst(k[2]))
                        ELSE store[k]]
      /\ UNCHANGED <<loopFrame, syncState, clockClass, iface, holdoverGen, armed, sleeping,
                     classStore>>

(* reset: the whole IPC cache is cleared; the clock, when there is one,    *)
(* cancels its timer and starts over, resetting the shared system clock.   *)
HandleReset ==
  LET c == Head(events).cfg
  IN  /\ Take("reset")
      /\ store' = EmptyStore /\ classStore' = EmptyClassStore
      /\ IF c \in registered
         THEN /\ cancelHoldoverTimer(c)
              /\ osState' = "FREERUN"
              /\ syncState' = [syncState EXCEPT ![c] = "FREERUN"]
              /\ overall' = [overall EXCEPT ![c] = "FREERUN"]
              /\ clockClass' = [clockClass EXCEPT ![c] = 0]
              /\ iface' = [iface EXCEPT ![c] = NoIface]
         ELSE UNCHANGED <<armed, holdoverGen, sleeping, osState, syncState, overall,
                          clockClass, iface>>
      /\ UNCHANGED loopFrame

ProcessEvents ==
  \/ HandleUnknown
  \/ HandleOffset
  \/ HandleSourceLost
  \/ HandleExpired
  \/ HandleParentDS
  \/ HandleOsSample
  \/ HandleReset

Next ==
  \/ RemoveAllClocks
  \/ \E c \in Cfgs : AddClock(c)
  \/ \E c \in Cfgs, i \in Ifaces : PortSlave(c, i)
  \/ \E c \in Cfgs, in \in BOOLEAN : Ptp4lOffset(c, in)
  \/ \E c \in Cfgs : PortFaulty(c)
  \/ \E c \in Cfgs, k \in GMClasses : PmcParentDS(c, k)
  \/ \E s \in OSStates : OsClockSample(s)
  \/ \E c \in Cfgs : Ts2phcDown(c)
  \/ Forward
  \/ \E t \in sleeping : TimerTimeout(t)
  \/ \E t \in firing : TimerPost(t)
  \/ ProcessEvents

Spec == Init /\ [][Next]_vars
-----------------------------------------------------------------------------
(* Fairness: the loop and the forwarder always get to run; a timer that is *)
(* not cancelled times out; a goroutine blocked on a channel send is first *)
(* in the channel's queue of waiting senders, so it is served once the     *)
(* loop receives, however busy the other producers are.                    *)
FairSpec ==
  /\ Spec
  /\ WF_vars(ProcessEvents)
  /\ WF_vars(Forward)
  /\ WF_vars(\E t \in sleeping : TimerTimeout(t))
  /\ SF_vars(\E t \in firing : TimerPost(t))

-----------------------------------------------------------------------------
(* Every variable has its type; no counter or state leaves its range. *)
TypeOK ==
  /\ registered \subseteq Cfgs /\ pending \subseteq Cfgs /\ applies \in Nat
  /\ inst \in [Cfgs -> Nat]
  /\ syncState \in [Cfgs -> PTPState]
  /\ overall \in [Cfgs -> PTPState]
  /\ clockClass \in [Cfgs -> Nat]
  /\ iface \in [Cfgs -> Ifaces \cup {NoIface}]
  /\ holdoverGen \in [Cfgs -> Nat]
  /\ armed \in [Cfgs -> BOOLEAN]
  /\ sleeping \subseteq TimerSet /\ firing \subseteq TimerSet
  /\ osState \in IPCState
  /\ store \in [Keys -> IPCState \cup {NoMsg}]
  /\ classStore \in [ClassKeys -> Nat]
  /\ slaveIface \in [Cfgs -> Ifaces \cup {NoIface}]
  /\ offsetSource \in [Cfgs -> BOOLEAN]
  /\ eventsIn \in Seq(ProcessEvent) /\ events \in Seq(Event)

(* Where the expiry of clock c's current holdover can be. *)
Asleep(c)   == CurrentTimer(c) \in sleeping
Fired(c)    == CurrentTimer(c) \in firing
QueuedAt(c) == {n \in 1..Len(events) : events[n] = Expired(CurrentTimer(c))}

(* A clock in HOLDOVER has exactly one expiry on its way that              *)
(* handleHoldoverExpired will accept (so holdover cannot last for ever, nor *)
(* end twice), and a clock in any other state has none (so no timer left   *)
(* over from an earlier holdover can end a later one).  This is what       *)
(* holdoverGen and holdoverCancel of bc.go are for; it holds as long as no *)
(* config name is registered twice.                                        *)
OneExpiryPerHoldover ==
  \A c \in registered :
    IF syncState[c] = "HOLDOVER"
    THEN \/ Asleep(c) /\ ~Fired(c) /\ QueuedAt(c) = {}
         \/ ~Asleep(c) /\ Fired(c) /\ QueuedAt(c) = {}
         \/ ~Asleep(c) /\ ~Fired(c) /\ \E n \in 1..Len(events) : QueuedAt(c) = {n}
    ELSE ~Asleep(c) /\ ~Fired(c) /\ QueuedAt(c) = {}

(* A clock in HOLDOVER always has an expiry of its own on its way, whatever *)
(* clocks were registered under its name before: the part of               *)
(* OneExpiryPerHoldover that survives a second apply.                      *)
HoldoverHasExpiry ==
  \A c \in registered :
    syncState[c] = "HOLDOVER" => Asleep(c) \/ Fired(c) \/ QueuedAt(c) # {}

(* Every registered clock's overall state is the worse of its own state    *)
(* and the system clock's: onStateChanged "always reconciles the overall   *)
(* (with-OS-clock) sync state" and handleOSClockEvent reconciles them all. *)
OverallReconciled ==
  \A c \in registered : overall[c] = worstOfState(syncState[c], osState)

(* What a cloud-event-proxy that asks for a snapshot is told is what the   *)
(* clocks are in: once a registered clock has a state, the IPC cache holds *)
(* its overall state, and the last port state sent for it is its own.      *)
SnapshotCurrent ==
  \A c \in registered : syncState[c] # "NOTSET" =>
    /\ store[SyncKey(c)] = PtpStateToIPCState(overall[c])
    /\ \E i \in Ifaces \cup {NoIface} : store[PtpKey(c, i)] = syncState[c]

(* A holdover ends: the clock locks again, free-runs or is removed. *)
HoldoverEnds ==
  \A c \in Cfgs :
    (c \in registered /\ syncState[c] = "HOLDOVER")
      ~> (c \notin registered \/ syncState[c] # "HOLDOVER")

(* HOLDOVER ends by expiry only through the timer that this very clock     *)
(* armed: "a superseded or canceled timer cannot cut a fresh holdover      *)
(* short" (bc.go).                                                         *)
ExpiryFromOwnTimer ==
  [][\A c \in registered :
       (/\ syncState[c] = "HOLDOVER" /\ syncState'[c] = "FREERUN"
        /\ events # <<>> /\ events' = Tail(events) /\ Head(events).kind = "expired")
       => Head(events).timer = CurrentTimer(c)]_vars

(* Once everything a faulty follower port set off has been handled, its    *)
(* clock is not LOCKED: "slave port faulty (source lost) while LOCKED ->   *)
(* HOLDOVER" (bc.go).                                                      *)
SourceLossReachesClock ==
  \A c \in registered :
    (/\ pending = {} /\ eventsIn = <<>> /\ events = <<>>
     /\ slaveIface[c] = NoIface /\ offsetSource[c])
    => syncState[c] # "LOCKED"

-----------------------------------------------------------------------------
(* The clocks behind their goroutines, generations and channels: a name    *)
(* that is not registered has no clock, and a holdover has time left while *)
(* its own timer sleeps.                                                   *)
Promised == INSTANCE HoldoverClock WITH
  state    <- [c \in Cfgs |-> IF c \in registered THEN syncState[c] ELSE "none"],
  coasting <- {c \in registered : syncState[c] = "HOLDOVER" /\ Asleep(c)},
  inputs   <- events

(* As long as no config name is registered twice, the clocks do what the   *)
(* comment on BCClock (bc.go) promises and nothing else: HOLDOVER only out *)
(* of LOCKED, and out of HOLDOVER only by an offset, a reset or a timer    *)
(* whose time is up.                                                       *)
KeepsPromise == Promised!Spec
=============================================================================
