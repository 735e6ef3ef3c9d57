---------------------------- MODULE HoldoverClock ----------------------------
(***************************************************************************)
(* What a boundary or ordinary clock promises, as the comment on BCClock   *)
(* (pkg/clock/bc.go) states it: an offset in range locks it, one out of    *)
(* range lets it run free, the loss of its source while it is LOCKED       *)
(* begins a holdover, and the holdover timer ends the holdover once its    *)
(* time is up, never before.  There are no goroutines and no generations   *)
(* here; ClockManager is shown to implement this specification.            *)
(***************************************************************************)
EXTENDS Sequences

CONSTANT Cfgs

VARIABLES
  state,      \* per config name: the state of its clock, "none" without one
  coasting,   \* the clocks whose holdover has time left
  inputs      \* the events the clocks have still to handle

Init ==
  /\ state = [c \in Cfgs |-> "none"]
  /\ coasting = {}
  /\ inputs = <<>>

(* The next input is one of this kind for clock c. *)
Input(c, kind) ==
  inputs # <<>> /\ Head(inputs).kind = kind /\ Head(inputs).cfg = c

Becomes(c, s) == state' = [state EXCEPT ![c] = s]

(* Profiles are applied: all clocks go, and those of the profiles come. *)
Apply       == state' = [c \in Cfgs |-> "none"] /\ coasting' = {}
Register(c) == state[c] = "none" /\ Becomes(c, "NOTSET") /\ UNCHANGED coasting

InRange(c) ==
  /\ state[c] # "none" /\ Input(c, "offset") /\ Head(inputs).inRange
  /\ Becomes(c, "LOCKED") /\ coasting' = coasting \ {c}

RunFree(c) ==
  /\ state[c] # "none"
  /\ Input(c, "reset") \/ (Input(c, "offset") /\ ~Head(inputs).inRange)
  /\ Becomes(c, "FREERUN") /\ coasting' = coasting \ {c}

LoseSource(c) ==
  /\ state[c] = "LOCKED" /\ Input(c, "sourceLost")
  /\ Becomes(c, "HOLDOVER") /\ coasting' = coasting \cup {c}

TimeUp(c) == c \in coasting /\ coasting' = coasting \ {c} /\ UNCHANGED state

Expire(c) ==
  /\ state[c] = "HOLDOVER" /\ c \notin coasting /\ Input(c, "expired")
  /\ Becomes(c, "FREERUN") /\ UNCHANGED coasting

(* Inputs arrive, and some change nothing. *)
Idle == UNCHANGED <<state, coasting>>

Next ==
  \/ Apply
  \/ Idle
  \/ \E c \in Cfgs : \/ Register(c) \/ InRange(c) \/ RunFree(c) \/ LoseSource(c)
                     \/ TimeUp(c) \/ Expire(c)

Spec == Init /\ [][Next]_<<state, coasting, inputs>>
=============================================================================
