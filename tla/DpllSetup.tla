------------------------------ MODULE DpllSetup ------------------------------
(***************************************************************************)
(* Which DPLLs a profile has and how they are watched (setupDPLL of        *)
(* pkg/daemon/daemon.go and the parameters that hardwareconfig.go hands to *)
(* it).  Of the three holdover parameters, which are set and kept alike,   *)
(* MaxInSpecOffset stands for all.                                         *)
(*                                                                         *)
(* A profile is a record of: tbc, the type T-BC; ifaces, the interfaces of *)
(* ts2phc with their sources; ignored, the ones with dpll.<iface>.ignore;  *)
(* inSpec, a set with the setting or none; clocks and flags, the settings  *)
(* of an interface that has them; hardware, the subsystems of its ready    *)
(* hardware configurations.  A subsystem has ifaces, clock (0 when it      *)
(* cannot be resolved), inputs, holdover (a set as inSpec) and flags.      *)
(***************************************************************************)
EXTENDS Naturals, Sequences

DefaultInSpec == 1
OnlyPhaseStatus == {"noFreqStatus", "noPhaseOffset"}

(* A subsystem with phase inputs is the one that follows ptp4l. *)
getInterfacesFromHardwareConfig(p) ==
  LET used == SelectSeq(p.hardware, LAMBDA s : s.ifaces # <<>>)
  IN [k \in 1..Len(used) |->
        [name |-> Head(used[k].ifaces), source |-> IF used[k].inputs THEN "ptp" ELSE "pps"]]

(* Per clock the last of the subsystems given. *)
ByClock(p, given) ==
  LET known == {k \in given : p.hardware[k].ifaces # <<>> /\ p.hardware[k].clock # 0}
  IN [c \in {p.hardware[k].clock : k \in known} |->
        p.hardware[CHOOSE k \in known : /\ p.hardware[k].clock = c
                                        /\ \A j \in known : p.hardware[j].clock = c => j <= k]]

extractHoldoverParameters(p) ==
  LET last == ByClock(p, {k \in DOMAIN p.hardware : p.hardware[k].holdover # {}})
  IN [c \in DOMAIN last |-> IF last[c].holdover = {0} THEN DefaultInSpec
                            ELSE CHOOSE v \in last[c].holdover : TRUE]
extractDPLLFlags(p) ==
  LET last == ByClock(p, {k \in DOMAIN p.hardware : p.hardware[k].flags # {}})
  IN [c \in DOMAIN last |-> last[c].flags]

Given(f, k, otherwise) == IF k \in DOMAIN f THEN f[k] ELSE otherwise

(* The variables of the loop outlive an interface: one that sets neither a *)
(* clock nor a limit has those of the interface before it.                 *)
setupDPLL(p) ==
  LET fromHardware == getInterfacesFromHardwareConfig(p)
      ifaces == SelectSeq(IF p.tbc /\ fromHardware # <<>> THEN fromHardware ELSE p.ifaces,
                          LAMBDA i : /\ i.source \in {"gnss", "pps"} \cup (IF p.tbc THEN {"ptp"} ELSE {})
                                     /\ i.name \notin p.ignored)
      N == 1..Len(ifaces)
      At(n) == CHOOSE k \in N : ifaces[k].name = n
      clock[k \in 0..Len(ifaces)] ==
        IF k = 0 THEN 0 ELSE Given(p.clocks, ifaces[k].name, clock[k - 1])
      flags == [k \in N |-> Given(extractDPLLFlags(p), clock[k], Given(p.flags, ifaces[k].name, {}))]
      inSpec[k \in 0..Len(ifaces)] ==
        CASE k = 0 -> DefaultInSpec
          [] k \in N /\ OnlyPhaseStatus \subseteq flags[k] -> 0
          [] OTHER -> Given(extractHoldoverParameters(p), clock[k],
                            IF p.inSpec # {} THEN CHOOSE v \in p.inSpec : TRUE ELSE inSpec[k - 1])
      nics == {ifaces[k].name : k \in N}
  IN [nics |-> nics, source |-> [n \in nics |-> ifaces[At(n)].source],
      flags |-> [n \in nics |-> flags[At(n)]], inSpec |-> [n \in nics |-> inSpec[At(n)]]]
=============================================================================
