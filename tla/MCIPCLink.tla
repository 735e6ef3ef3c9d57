----------------------------- MODULE MCIPCLink -----------------------------
(***************************************************************************)
(* Instances of IPCLink for TLC.  k1 and k2 are the sync_state messages of *)
(* two profiles, which the proxy shows under one resource; k3 is another   *)
(* message type.                                                           *)
(***************************************************************************)
EXTENDS IPCLink

CONSTANTS k1, k2, k3, s1, s2

MCSlotOf == [k \in Keys |-> IF k = k3 THEN s2 ELSE s1]
=============================================================================
