------------------------------ MODULE PTPStates ------------------------------
(***************************************************************************)
(* The synchronisation states every clock of linuxptp-daemon reports       *)
(* (pkg/event/event.go) and the two functions all clocks apply to them.    *)
(* PTP_UNKNOWN is a state of per-process data only, never of a clock.      *)
(***************************************************************************)

PTPState == {"NOTSET", "FREERUN", "HOLDOVER", "LOCKED"}

(* What an IPC message can carry: NOTSET is reported as FREERUN. *)
PtpStateToIPCState(s) == IF s \in {"LOCKED", "HOLDOVER"} THEN s ELSE "FREERUN"

IPCState == {"FREERUN", "HOLDOVER", "LOCKED"}

(* The worse of a clock's state and the operating system clock's state. *)
worstOfState(a, b) ==
  IF "NOTSET" \in {a, b} THEN "NOTSET"
  ELSE IF "FREERUN" \in {a, b} THEN "FREERUN"
  ELSE IF "HOLDOVER" \in {a, b} THEN "HOLDOVER"
  ELSE "LOCKED"
=============================================================================
