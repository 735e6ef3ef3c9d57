------------------------------ MODULE HAClock ------------------------------
(***************************************************************************)
(* The high-availability clock of linuxptp-daemon (pkg/clock/ha.go): a     *)
(* composite of boundary clocks over one phc2sys.  Its state is the best   *)
(* of its members', the state it publishes the worse of that and the       *)
(* operating system clock's.  The timers of a member's holdover are        *)
(* modelled in ClockManager; here a holdover may end at any time.          *)
(***************************************************************************)
EXTENDS PTPStates, Sequences

CONSTANTS
  Members,     \* config names of the member clocks
  NoMember

ASSUME HAAssumption == NoMember \notin Members

VARIABLES
  member,      \* state of each member clock
  known,       \* members whose interface a sample has shown
  os,          \* shared OsClock.State
  syncState, overallSyncState,
  activeCfg,   \* the member phc2sys has selected, as far as the clock knows
  selected,    \* the member phc2sys has selected
  published,   \* last sync_state sent under the HA profile
  memberMsgs   \* members whose own sync_state was let through

haVars == <<member, known, os, syncState, overallSyncState, activeCfg, selected, published,
            memberMsgs>>

HAInit ==
  /\ member = [m \in Members |-> "NOTSET"] /\ known = {}
  /\ os = "FREERUN" /\ syncState = "NOTSET" /\ overallSyncState = "NOTSET"
  /\ activeCfg = NoMember /\ selected = NoMember
  /\ published = "none" /\ memberMsgs = {}

(* bestOfState, folded over the members. *)
bestMemberState(ms) ==
  LET ss == {ms[m] : m \in Members}
  IN  IF "LOCKED" \in ss THEN "LOCKED" ELSE IF "HOLDOVER" \in ss THEN "HOLDOVER"
      ELSE IF "FREERUN" \in ss THEN "FREERUN" ELSE "NOTSET"

(* emitOverallSyncStateIfChanged *)
Emit(state, o) ==
  LET next == worstOfState(state, o)
  IN  /\ overallSyncState' = next
      /\ published' = IF next # overallSyncState THEN PtpStateToIPCState(next) ELSE published

(* AddEvent of a member: a sample in or out of range, the source lost, or  *)
(* the end of a holdover.                                                  *)
MemberState(s, e) ==
  CASE e = "in" -> "LOCKED"
    [] e = "out" -> "FREERUN"
    [] e = "lost" -> IF s = "LOCKED" THEN "HOLDOVER" ELSE s
    [] e = "expired" -> IF s = "HOLDOVER" THEN "FREERUN" ELSE s

(* interceptMemberIPC: what a member publishes of itself passes, but not   *)
(* its own overall state.                                                  *)
interceptMemberIPC(m, types) == memberMsgs' = memberMsgs \cup (types \ {"sync_state"}) \X {m}

(* Mutant: the composite takes the state of the member that has reported. *)
HAAddEvent_Member(m, e) ==
  /\ member' = [member EXCEPT ![m] = MemberState(@, e)]
  /\ known' = IF e \in {"in", "out"} THEN known \cup {m} ELSE known
  /\ interceptMemberIPC(m, {"ptp_state", "sync_state"})
  /\ syncState' = member'[m]
  /\ Emit(syncState', os)
  /\ UNCHANGED <<os, activeCfg, selected>>

HAAddEvent(m, e) ==
  /\ member' = [member EXCEPT ![m] = MemberState(@, e)]
  /\ known' = IF e \in {"in", "out"} THEN known \cup {m} ELSE known
  /\ interceptMemberIPC(m, {"ptp_state", "sync_state"})
  /\ syncState' = bestMemberState(member')
  /\ Emit(syncState', os)
  /\ UNCHANGED <<os, activeCfg, selected>>

(* phc2sys selects a source: setActiveByIface finds the member by the      *)
(* interface of its samples, and keeps the old one if there is none.       *)
SelectedSource(m) ==
  /\ m # selected /\ selected' = m
  /\ activeCfg' = IF m \in known THEN m ELSE activeCfg
  /\ UNCHANGED <<member, known, os, syncState, overallSyncState, published, memberMsgs>>

(* A sample of phc2sys: SystemClockUpdate tells the members as well. *)
SystemClockUpdate(s) ==
  /\ s # os /\ os' = s
  /\ Emit(syncState, s)
  /\ \E m \in Members : interceptMemberIPC(m, {"sync_state"})
  /\ UNCHANGED <<member, known, syncState, activeCfg, selected>>

(* Reset: members go back to the beginning, the composite to FREERUN. *)
Reset ==
  /\ syncState # "NOTSET"
  /\ member' = [m \in Members |-> "FREERUN"]
  /\ os' = "FREERUN" /\ syncState' = "FREERUN" /\ overallSyncState' = "FREERUN"
  /\ activeCfg' = NoMember /\ known' = {} /\ published' = "none"
  /\ UNCHANGED <<selected, memberMsgs>>

HANext ==
  \/ \E m \in Members, e \in {"in", "out", "lost", "expired"} : HAAddEvent(m, e)
  \/ \E m \in Members : SelectedSource(m)
  \/ \E s \in {"FREERUN", "HOLDOVER", "LOCKED"} : SystemClockUpdate(s)
  \/ Reset

HASpec == HAInit /\ [][HANext]_haVars

-----------------------------------------------------------------------------
(* "As long as one member can serve as a good source [...] the node stays  *)
(* synced": after any order of samples, losses, selections, OS clock       *)
(* updates and resets, the state last published for the node is the worse  *)
(* of the best member and the OS clock, and no member publishes one of its *)
(* own (AddEvent, interceptMemberIPC).                                     *)
BestMemberPublished ==
  /\ published # "none"
       => published = PtpStateToIPCState(worstOfState(bestMemberState(member), os))
  /\ \A x \in memberMsgs : x[1] # "sync_state"
=============================================================================
