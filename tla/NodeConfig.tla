----------------------------- MODULE NodeConfig -----------------------------
(***************************************************************************)
(* How a node configuration becomes running processes in linuxptp-daemon.  *)
(*                                                                         *)
(* Concurrent parties: the ticker of cmd/main.go (hybrid mode) and the     *)
(* file watcher of the hardware configuration controller, which both read  *)
(* the profile file and call LinuxPTPConfUpdate.UpdateConfig               *)
(* (pkg/daemon/config.go); the daemon goroutine, which takes signals from  *)
(* UpdateCh and rebuilds everything (Daemon.Run, applyNodePTPProfiles of   *)
(* pkg/daemon/daemon.go); the HardwareConfig reconciler                    *)
(* (pkg/controller/hardwareconfig_controller.go), which resolves the       *)
(* HardwareConfigs of the active profiles and asks for a restart.          *)
(* UpdateConfig takes no lock: its two assignments are steps of their own. *)
(***************************************************************************)
EXTENDS Naturals, Sequences, FiniteSets, SequencesExt

CONSTANTS
  Contents,   \* what the profile file may hold: sequences of profiles
  Bad,        \* a content that does not parse
  None,       \* no value
  Writers,    \* who calls UpdateConfig: "ticker", "watcher"
  HwNames,    \* names of HardwareConfig resources
  HwSpecs,    \* their specs: [profile, up]
  SecretChanges,  \* what a change of the secret files is to the file system:
              \* [below, hidden, op], see EditSecret
  Watched,    \* saFileWatcher exists: New could make it, and the directory was there
  ChCap,      \* capacity of UpdateCh (10 in the code)
  Start,      \* the contents the file may have when the daemon starts
  MaxEvents   \* bound: edits of the file, a HardwareConfig or a secret, transient
              \* failures and restarts of the daemon, together

ASSUME NodeConfigAssumption ==
  /\ Bad \notin Contents
  /\ Writers \subseteq {"ticker", "watcher"} /\ "ticker" \in Writers
  /\ Start \subseteq Contents /\ None \notin Contents
  /\ \A c \in Contents :
       \* the operator makes the names unique on a node (qualifyProfileName of
       \* controllers/recommend.go); the sort has no order for two of one name
       /\ Len(c) \in Nat /\ DOMAIN c = 1..Len(c)
       /\ \A k \in DOMAIN c : c[k].name \in Nat /\ c[k].phc2sys \in BOOLEAN
       /\ \A j, k \in DOMAIN c : c[j].name = c[k].name => j = k
  /\ SecretChanges \subseteq [below : BOOLEAN, hidden : BOOLEAN,
                               op : {"create", "write", "remove", "rename", "chmod"}]
  /\ Watched \in BOOLEAN /\ ChCap \in Nat \ {0} /\ MaxEvents \in Nat

VARIABLES
  file, fileEvent,          \* the profile file; the watcher has an event of it
  secret, crs,              \* secret files, HardwareConfigs
  remembered, profiles,     \* appliedNodeProfileJSON, NodeProfiles
  updateCh, blocked,        \* UpdateCh; goroutines of TriggerRestart on it
  upd,                      \* the calls of UpdateConfig: [pc, json, auth]
  secEvents, secFlag,       \* events of saFileWatcher; SecurityFilesChanged
  apply,                    \* applyNodePTPProfiles: [pc, i, n, topo, built]
  running, ready,           \* the processes started; ReadyTracker.config
  hwConfigs, ptpConfig,     \* HardwareConfigManager: configs, names of profiles
  lastApplied,              \* the reconciler's memory
  hw, hwPending,            \* reconcileAllConfigs: [pc, new, old]; its queue
  failed, raced, flagLost,  \* history: see the properties
  noticed,                  \* history: the last secret whose change the watcher reported
  events

fileVars == <<file, fileEvent, secret, crs>>
confVars == <<remembered, profiles, updateCh, blocked, upd, raced>>
secVars  == <<secEvents, secFlag, flagLost, noticed>>
runVars  == <<apply, running, ready, failed>>
hwVars   == <<hwConfigs, ptpConfig, lastApplied, hw, hwPending>>
vars == <<fileVars, confVars, secVars, runVars, hwVars, events>>

Happens == events < MaxEvents /\ events' = events + 1

NoApply == [pc |-> "idle", i |-> 0, n |-> 0, topo |-> None, built |-> <<>>]
NoUpd   == [pc |-> "idle", json |-> <<>>, auth |-> FALSE]
NoHw    == [pc |-> "idle", new |-> {}, old |-> {}]

(* A profile as NodeProfiles holds it: what the file says and the settings *)
(* the daemon writes into PtpSettings.                                     *)
Loaded(content) == [k \in DOMAIN content |->
  [conf |-> content[k], up |-> content[k].up, controlled |-> None]]

(* ------------------------- applyNodePTPProfiles ------------------------ *)

(* processShouldRun of phc2sys, and the order of the sort: profiles with   *)
(* phc2sys last, then by name.                                             *)
ProfileBefore(a, b) == \/ ~a.conf.phc2sys /\ b.conf.phc2sys
                       \/ a.conf.phc2sys = b.conf.phc2sys /\ a.conf.name < b.conf.name
Rank(ps, k) == 1 + Cardinality({j \in DOMAIN ps : ProfileBefore(ps[j], ps[k])})
Sorted(ps) == [r \in DOMAIN ps |-> ps[CHOOSE k \in DOMAIN ps : Rank(ps, k) = r]]

NamesOf(ps) == {ps[k].conf.name : k \in DOMAIN ps}

(* reconcileRelatedProfiles: of a controlling profile, the run ID of the   *)
(* last profile that names it.                                             *)
reconcileRelatedProfiles(ps) ==
  [n \in {m \in NamesOf(ps) : \E k \in DOMAIN ps : ps[k].conf.controlledBy = m} |->
     CHOOSE k \in DOMAIN ps : /\ ps[k].conf.controlledBy = n
                              /\ \A j \in DOMAIN ps : ps[j].conf.controlledBy = n => j <= k]

HaProfiles(ps) == {k \in DOMAIN ps : ps[k].conf.phc2sys /\ ps[k].conf.ha # {}}
HaMembers(ps)  == UNION {ps[k].conf.ha : k \in HaProfiles(ps)}

(* NewProfileTopology fails on two HA profiles and on a missing member.    *)
TopologyValid(ps) ==
  Cardinality(HaProfiles(ps)) <= 1 /\ HaMembers(ps) \subseteq NamesOf(ps)
NewProfileTopology(ps) ==
  [runID   |-> [n \in NamesOf(ps) |-> CHOOSE k \in DOMAIN ps : /\ ps[k].conf.name = n
                                        /\ \A j \in DOMAIN ps : ps[j].conf.name = n => j <= k],
   ha      |-> {ps[k].conf.name : k \in HaProfiles(ps)},
   members |-> HaMembers(ps),
   related |-> reconcileRelatedProfiles(ps)]

(* A name the topology does not know has the zero value of the map; run    *)
(* IDs start at 1 here.                                                    *)
RunID(topo, n) == IF n \in DOMAIN topo.runID THEN topo.runID[n] ELSE 1

HwOf(hs, n) == {h \in hs : h.spec.profile = n}

(* A setting that is there already is kept.                                *)
populatePtpSettingsFromHardware(p, h) == IF p.up # None THEN p ELSE [p EXCEPT !.up = h.spec.up]

(* With a HardwareConfig of the profile its settings are taken over,       *)
(* without one the plugins set the hardware up.                            *)
initHardware(p, hs) ==
  IF HwOf(hs, p.conf.name) = {} THEN p
  ELSE populatePtpSettingsFromHardware(p, CHOOSE h \in HwOf(hs, p.conf.name) : TRUE)

(* A clock of its own, a member of the HA clock, or the HA clock itself.   *)
ClockRole(topo, n) == IF n \in topo.ha THEN "ha"
                      ELSE IF n \in topo.members THEN "member" ELSE "alone"

createProcesses(p, topo, hs, sec) ==
  [name |-> p.conf.name, conf |-> p.conf, run |-> RunID(topo, p.conf.name),
   up |-> p.up, controlled |-> p.controlled, hw |-> HwOf(hs, p.conf.name), sec |-> sec,
   role |-> ClockRole(topo, p.conf.name)]

(* The daemon takes a signal: everything is stopped, the profiles sorted   *)
(* where they are.                                                         *)
ApplyStart ==
  /\ apply.pc = "idle" /\ updateCh > 0
  /\ updateCh' = updateCh - 1
  /\ apply' = [NoApply EXCEPT !.pc = "topology"]
  /\ running' = {} /\ ready' = FALSE /\ failed' = FALSE
  /\ profiles' = Sorted(profiles)
  /\ ptpConfig' = (IF profiles = <<>> THEN ptpConfig ELSE NamesOf(profiles))
  /\ UNCHANGED <<remembered, blocked, upd, raced, fileVars, secVars, hwConfigs,
                 lastApplied, hw, hwPending, events>>

Fail == apply' = NoApply /\ failed' = TRUE

(* Relations, topology and the settings written into every profile.        *)
ApplyTopology ==
  /\ apply.pc = "topology"
  /\ \/ /\ ~TopologyValid(profiles)
        /\ Fail /\ UNCHANGED profiles
     \/ /\ TopologyValid(profiles)
        /\ \E topo \in {NewProfileTopology(profiles)} :
             /\ profiles' = [k \in DOMAIN profiles |->
                  IF profiles[k].conf.name \in DOMAIN topo.related
                  THEN [profiles[k] EXCEPT !.controlled = topo.related[profiles[k].conf.name]]
                  ELSE profiles[k]]
             /\ apply' = [apply EXCEPT !.pc = "profiles", !.i = 1, !.n = Len(profiles), !.topo = topo]
        /\ UNCHANGED failed
  /\ UNCHANGED <<remembered, updateCh, blocked, upd, raced, running, ready, fileVars,
                 secVars, hwVars, events>>

(* prepareProfile and applyNodePtpProfile, or the share of assembleHAClock *)
(* in one profile.  NodeProfiles is read again for every index: after a    *)
(* swap to a shorter list the index is out of range and the daemon exits.  *)
ApplyProfile ==
  /\ apply.pc = "profiles" /\ apply.i <= apply.n /\ apply.i <= Len(profiles)
  /\ \E p \in {initHardware(profiles[apply.i], hwConfigs)} :
       /\ profiles' = [profiles EXCEPT ![apply.i] = p]
       /\ \/ /\ p.conf.ok
             /\ apply' = [apply EXCEPT !.i = @ + 1,
                            !.built = Append(@, createProcesses(p, apply.topo, hwConfigs, secret))]
             /\ UNCHANGED <<failed, events>>
          \/ /\ ~p.conf.ok
             /\ Fail /\ UNCHANGED events
          \/ /\ p.conf.ok /\ Happens   \* os.WriteFile of a config fails
             /\ Fail
  /\ UNCHANGED <<remembered, updateCh, blocked, upd, raced, running, ready, fileVars,
                 secVars, hwVars>>

(* StartProcesses and what follows it.                                     *)
ApplyEnd ==
  /\ apply.pc = "profiles" /\ apply.i > apply.n
  /\ running' = Range(apply.built) /\ ready' = TRUE
  /\ apply' = NoApply
  /\ UNCHANGED <<failed, confVars, fileVars, secVars, hwVars, events>>

(* The pod starts again with empty memory; the files are still there.      *)
Restarted ==
  /\ remembered' = None /\ profiles' = <<>> /\ updateCh' = 0 /\ blocked' = 0
  /\ upd' = [w \in Writers |-> NoUpd] /\ raced' = FALSE
  /\ secEvents' = {} /\ secFlag' = FALSE /\ flagLost' = FALSE
  /\ apply' = NoApply /\ running' = {} /\ ready' = FALSE /\ failed' = FALSE
  /\ hwConfigs' = {} /\ ptpConfig' = {} /\ lastApplied' = {} /\ hw' = NoHw /\ hwPending' = TRUE
  /\ fileEvent' = TRUE   \* startFileWatcher loads a file that is there
  /\ UNCHANGED <<file, secret, crs, noticed>>
ApplyPanics ==
  /\ apply.pc = "profiles" /\ apply.i <= apply.n /\ apply.i > Len(profiles)
  /\ Restarted /\ UNCHANGED events
PodRestarts == Happens /\ Restarted

(* ----------------------------- UpdateConfig ---------------------------- *)

(* Mutant: the file watcher consumes the security flag as well. *)
ReadFile_WatcherTakesFlag(w) ==
  /\ upd[w].pc = "idle"
  /\ \/ w = "ticker" /\ UNCHANGED fileEvent
     \/ w = "watcher" /\ fileEvent /\ fileEvent' = FALSE
  /\ upd' = [upd EXCEPT ![w] = [pc |-> "compare", json |-> file, auth |-> w = "ticker" /\ secFlag]]
  /\ secFlag' = FALSE
  /\ UNCHANGED <<remembered, profiles, updateCh, blocked, raced, secEvents, flagLost,
                 noticed, file, secret, crs, runVars, hwVars, events>>

(* Mutant: the ticker reads the file only after an event of the watcher. *)
ReadFile_OnEvent(w) ==
  /\ upd[w].pc = "idle"
  /\ fileEvent /\ fileEvent' = FALSE
  /\ upd' = [upd EXCEPT ![w] = [pc |-> "compare", json |-> file, auth |-> w = "ticker" /\ secFlag]]
  /\ secFlag' = (IF w = "ticker" THEN FALSE ELSE secFlag)
  /\ UNCHANGED <<remembered, profiles, updateCh, blocked, raced, secEvents, flagLost,
                 noticed, file, secret, crs, runVars, hwVars, events>>

(* readAndUpdatePtpConfigFromFile reads at every tick and consumes the     *)
(* security flag, loadProfileFileSynchronously at an event of the file.    *)
ReadFile(w) ==
  /\ upd[w].pc = "idle"
  /\ \/ w = "ticker" /\ UNCHANGED fileEvent
     \/ w = "watcher" /\ fileEvent /\ fileEvent' = FALSE
  /\ upd' = [upd EXCEPT ![w] = [pc |-> "compare", json |-> file, auth |-> w = "ticker" /\ secFlag]]
  /\ secFlag' = (IF w = "ticker" THEN FALSE ELSE secFlag)
  /\ UNCHANGED <<remembered, profiles, updateCh, blocked, raced, secEvents, flagLost,
                 noticed, file, secret, crs, runVars, hwVars, events>>

(* The ticker triggers the hardware reconciliation unless the update       *)
(* failed, the watcher in any case.                                        *)
Return(w, ok) ==
  /\ upd' = [upd EXCEPT ![w] = NoUpd]
  /\ hwPending' = (hwPending \/ ok \/ w = "watcher")

(* An unchanged content is skipped, one that does not parse is an error,   *)
(* any other is remembered.  Two writers at their assignments at once may  *)
(* leave the memory of one file with the profiles of another.              *)
Compare(w) ==
  /\ upd[w].pc = "compare"
  /\ \/ /\ upd[w].json = remembered /\ ~upd[w].auth
        /\ Return(w, TRUE) /\ UNCHANGED <<flagLost, remembered, raced>>
     \/ /\ upd[w].json = Bad
        /\ Return(w, FALSE)
        /\ flagLost' = (flagLost \/ upd[w].auth)
        /\ UNCHANGED <<remembered, raced>>
     \/ /\ upd[w].json # Bad
        /\ upd[w].json # remembered \/ upd[w].auth
        /\ remembered' = upd[w].json
        /\ raced' = (raced \/ \E v \in Writers \ {w} : upd[v].pc = "profiles")
        /\ upd' = [upd EXCEPT ![w].pc = "profiles"]
        /\ UNCHANGED <<hwPending, flagLost>>
  /\ UNCHANGED <<profiles, updateCh, blocked, secEvents, secFlag, noticed, fileVars, runVars,
                 hwConfigs, ptpConfig, lastApplied, hw, events>>

AssignProfiles(w) ==
  /\ upd[w].pc = "profiles"
  /\ profiles' = Loaded(upd[w].json)
  /\ upd' = [upd EXCEPT ![w].pc = "send"]
  /\ UNCHANGED <<remembered, updateCh, blocked, raced, fileVars, secVars, runVars, hwVars,
                 events>>

Send_WhenIdle(w) ==
  /\ upd[w].pc = "send"
  /\ updateCh' = (IF apply.pc = "idle" /\ updateCh < ChCap THEN updateCh + 1 ELSE updateCh)
  /\ Return(w, TRUE)
  /\ UNCHANGED <<remembered, profiles, blocked, raced, fileVars, secVars, runVars,
                 hwConfigs, ptpConfig, lastApplied, hw, events>>

Send(w) ==
  /\ upd[w].pc = "send" /\ updateCh < ChCap
  /\ updateCh' = updateCh + 1
  /\ Return(w, TRUE)
  /\ UNCHANGED <<remembered, profiles, blocked, raced, fileVars, secVars, runVars,
                 hwConfigs, ptpConfig, lastApplied, hw, events>>

(* A goroutine of TriggerRestartForHardwareChange gets through.            *)
SendBlocked ==
  /\ blocked > 0 /\ updateCh < ChCap
  /\ blocked' = blocked - 1 /\ updateCh' = updateCh + 1
  /\ UNCHANGED <<remembered, profiles, upd, raced, fileVars, secVars, runVars, hwVars,
                 events>>

(* Daemon.Run ignores renames, modes and hidden names.                     *)
Counts(c) == c.op \in {"write", "create", "remove"} /\ ~c.hidden

(* It takes an event of the secret watcher between two applies.            *)
SecretEvent ==
  /\ apply.pc = "idle"
  /\ \E c \in secEvents :
       secEvents' = secEvents \ {c} /\ secFlag' = (secFlag \/ Counts(c))
  /\ UNCHANGED <<flagLost, noticed, fileVars, confVars, runVars, hwVars, events>>

(* ------------------- HardwareConfigReconciler ------------------------- *)

(* calculateNodeHardwareConfigs: those of the active profiles.             *)
Applicable == {h \in crs : h.spec.profile \in NamesOf(profiles)}

(* diffHardwareConfigs: added, removed and modified configs, the modified  *)
(* ones in their new form.                                                 *)
Diff(old, new) == (new \ old) \cup {h \in old : \A g \in new : g.name # h.name}

HwList ==
  /\ hw.pc = "idle" /\ hwPending
  /\ \/ /\ Diff(lastApplied, Applicable) = {}
        /\ hwPending' = FALSE
        /\ UNCHANGED <<hw, lastApplied>>
     \/ /\ Diff(lastApplied, Applicable) # {}
        /\ hwPending' = FALSE
        /\ hw' = [pc |-> "update", new |-> Applicable, old |-> lastApplied]
        /\ lastApplied' = Applicable
  /\ UNCHANGED <<hwConfigs, ptpConfig, fileVars, confVars, secVars, runVars, events>>

(* ResolveClockChain needs the profile among those of the last apply.      *)
Resolvable(hs) == \A h \in hs : h.spec.profile \in ptpConfig

(* Mutant: a failed update is remembered as applied. *)
HwUpdate_NoRevert ==
  /\ hw.pc = "update"
  /\ \/ /\ Resolvable(hw.new)
        /\ hwConfigs' = hw.new
        /\ hw' = [hw EXCEPT !.pc = IF hw.new = {} THEN "idle" ELSE "restart"]
        /\ UNCHANGED <<lastApplied, hwPending>>
     \/ /\ ~Resolvable(hw.new)
        /\ hwPending' = TRUE
        /\ hw' = NoHw /\ UNCHANGED <<hwConfigs, lastApplied>>
  /\ UNCHANGED <<ptpConfig, fileVars, confVars, secVars, runVars, events>>

(* UpdateHardwareConfig of the manager; an empty list cannot fail.  On a   *)
(* failure lastAppliedConfigs is what it was.  A request of the queue      *)
(* comes again; one of a change of the profiles does not, and the next     *)
(* tick makes up for it (executeProfileChangeReconciliation).              *)
HwUpdate ==
  /\ hw.pc = "update"
  /\ \/ /\ Resolvable(hw.new)
        /\ hwConfigs' = hw.new
        /\ hw' = [hw EXCEPT !.pc = IF hw.new = {} THEN "idle" ELSE "restart"]
        /\ UNCHANGED <<lastApplied, hwPending, events>>
     \/ /\ hw.new # {}
        /\ \/ ~Resolvable(hw.new) /\ UNCHANGED events
           \/ Resolvable(hw.new) /\ Happens   \* the hardware cannot be read
        /\ lastApplied' = hw.old /\ hwPending' \in {hwPending, TRUE}
        /\ hw' = NoHw /\ UNCHANGED hwConfigs
  /\ UNCHANGED <<ptpConfig, fileVars, confVars, secVars, runVars>>

(* checkIfChangedConfigsAffectActiveProfiles, and the trigger, which does  *)
(* not wait for room in UpdateCh.                                          *)
HwRestart ==
  /\ hw.pc = "restart"
  /\ hw' = NoHw
  /\ \/ /\ \A h \in Diff(hw.old, hw.new) : h.spec.profile \notin NamesOf(profiles)
        /\ UNCHANGED <<updateCh, blocked>>
     \/ /\ \E h \in Diff(hw.old, hw.new) : h.spec.profile \in NamesOf(profiles)
        /\ \/ updateCh < ChCap /\ updateCh' = updateCh + 1 /\ UNCHANGED blocked
           \/ updateCh = ChCap /\ blocked' = blocked + 1 /\ UNCHANGED updateCh
  /\ UNCHANGED <<remembered, profiles, upd, raced, hwConfigs, ptpConfig, lastApplied,
                 hwPending, fileVars, secVars, runVars, events>>

(* ------------------------------ the world ------------------------------ *)

(* The profile file is written.  startFileWatcher and handleFileEvents are *)
(* told, and ask for a reconciliation of the hardware once it is read.     *)
EditFile ==
  /\ Happens
  /\ \E c \in (Contents \cup {Bad}) \ {file} : file' = c
  /\ fileEvent' \in {TRUE, fileEvent}   \* the link of a ConfigMap may move unseen
  /\ UNCHANGED <<secret, crs, confVars, secVars, runVars, hwVars>>

(* The secret files change.  The watcher, if there is one, is told of the  *)
(* entries of PtpSecretMountDir, and not of what changes below them, where *)
(* the operator mounts the secrets.                                        *)
EditSecret ==
  /\ Happens
  /\ secret' = secret + 1
  /\ \E c \in SecretChanges :
       /\ secEvents' = IF Watched /\ ~c.below THEN secEvents \cup {c} ELSE secEvents
       /\ noticed' = IF Watched /\ ~c.below /\ Counts(c) THEN secret' ELSE noticed
  /\ UNCHANGED <<file, fileEvent, crs, secFlag, flagLost, confVars, runVars, hwVars>>

(* SetupWithManager watches the HardwareConfigs: each change is a request. *)
EditHardwareConfig ==
  /\ Happens
  /\ \E n \in HwNames : \E s \in HwSpecs \cup {None} :
       \E rest \in {{h \in crs : h.name # n}} :
         /\ crs' = (IF s = None THEN rest ELSE rest \cup {[name |-> n, spec |-> s]})
         /\ crs' # crs
  /\ hwPending' = TRUE
  /\ UNCHANGED <<file, fileEvent, secret, hwConfigs, ptpConfig, lastApplied, hw, confVars,
                 secVars, runVars>>

Init ==
  /\ file \in Start /\ fileEvent = TRUE /\ secret = 0 /\ crs = {} /\ events = 0
  /\ remembered = None /\ profiles = <<>> /\ updateCh = 0 /\ blocked = 0
  /\ upd = [w \in Writers |-> NoUpd] /\ raced = FALSE
  /\ secEvents = {} /\ secFlag = FALSE /\ flagLost = FALSE
  /\ noticed = 0
  /\ apply = NoApply /\ running = {} /\ ready = FALSE /\ failed = FALSE
  /\ hwConfigs = {} /\ ptpConfig = {} /\ lastApplied = {} /\ hw = NoHw /\ hwPending = TRUE

Daemon    == ApplyStart \/ ApplyTopology \/ ApplyProfile \/ ApplyEnd \/ ApplyPanics
Update(w) == Compare(w) \/ AssignProfiles(w) \/ Send(w)
Hardware  == HwList \/ HwUpdate \/ HwRestart
World     == EditFile \/ EditSecret \/ EditHardwareConfig \/ PodRestarts

Next ==
  \/ Daemon \/ SendBlocked \/ SecretEvent \/ Hardware \/ World
  \/ \E w \in Writers : ReadFile(w) \/ Update(w)

(* Goroutines that can run are run; the ticker ticks for ever.             *)
Fairness ==
  /\ WF_vars(Daemon) /\ WF_vars(SendBlocked) /\ SF_vars(SecretEvent) /\ WF_vars(Hardware)
  /\ \A w \in Writers : WF_vars(Update(w))
  /\ WF_vars(ReadFile("ticker"))

Spec == Init /\ [][Next]_vars /\ Fairness

(* ----------------------------- properties ------------------------------ *)

(* What the processes of a content are, written down independently of the  *)
(* steps: every profile under its place in the order.                      *)
Wanted(content) ==
  LET ps == Sorted(Loaded(content)) IN
  {[name |-> ps[k].conf.name, conf |-> ps[k].conf, run |-> k] : k \in DOMAIN ps}
Started == {[name |-> r.name, conf |-> r.conf, run |-> r.run] : r \in running}

Quiet == /\ apply.pc = "idle" /\ updateCh = 0 /\ blocked = 0
         /\ \A w \in Writers : upd[w].pc \in {"idle", "compare"}

(* When no signal is left and the last apply did not fail, exactly the     *)
(* processes of the content UpdateConfig remembers are running, whatever   *)
(* was swapped under an apply in progress: a later file with the same      *)
(* content is skipped, so nothing else would correct them.  Not when the   *)
(* assignments of two writers crossed (UpdateConfig, applyNodePTPProfiles).*)
RunsWhatItRemembers ==
  Quiet /\ ~failed /\ ~raced =>
    IF remembered = None THEN running = {} ELSE Started = Wanted(remembered)

(* A file that stays is what the node runs in the end, after any number of *)
(* edits, bad files and restarts, unless an apply failed (the failure is   *)
(* only logged and the content not tried again), two writers crossed, or   *)
(* the file does not parse.                                                *)
FileReachesNode ==
  \A c \in Contents : <>[](file = c) => <>[](failed \/ raced \/ (Quiet => Started = Wanted(c)))

(* A change of the secret files that the watcher reports and Run does not  *)
(* ignore is never forgotten: at rest it, or a later secret, is in use, or *)
(* its event is with the watcher, the flag is set, or a tick carries it.   *)
(* The event waits for the daemon, the flag for a tick, and a tick with it *)
(* asks for an apply although the content is the same.  Not when the flag  *)
(* was taken with a file that does not parse, which drops it (Run,         *)
(* GetAndResetSecurityFilesChanged, UpdateConfig).                         *)
OnItsWay == (\E c \in secEvents : Counts(c)) \/ secFlag \/ \E w \in Writers : upd[w].auth
SecretNotForgotten ==
  Quiet /\ ~failed /\ ~raced /\ ~flagLost =>
    OnItsWay \/ \A r \in running : r.sec >= noticed

(* The comment of Daemon.Run: a change of the authentication files of a    *)
(* Secret triggers events and with them an apply, which restarts the       *)
(* processes.  With a watcher, at rest every process has the secret that   *)
(* is on the node, or the change is on its way.                            *)
SecretsReachProcesses ==
  Watched /\ Quiet /\ ~failed /\ ~raced /\ ~flagLost =>
    OnItsWay \/ \A r \in running : r.sec = secret

(* At rest every running profile was set up with the HardwareConfigs the   *)
(* manager holds for it, if it holds any: the reconciler asks for an apply *)
(* after it changed them, and remembers them only if the manager took them *)
(* (reconcileAllConfigs).                                                  *)
HardwareApplied ==
  Quiet /\ ~failed /\ ~raced /\ hw.pc = "idle" /\ ~hwPending =>
    /\ \A r \in running : HwOf(hwConfigs, r.name) # {} => r.hw = HwOf(hwConfigs, r.name)
    /\ hwConfigs = lastApplied

(* The field comment of ConfigUpdate: restarts are triggered when hardware *)
(* config changes affect currently active PTP profiles.  At rest no        *)
(* running profile uses a HardwareConfig that is gone.                     *)
NoRemovedHardware ==
  Quiet /\ ~failed /\ ~raced /\ hw.pc = "idle" /\ ~hwPending =>
    \A r \in running : r.hw \subseteq hwConfigs

(* The comment on populatePtpSettingsFromHardware: PtpSettings is updated  *)
(* with values derived from HardwareConfig.  At rest the upstream port of  *)
(* a profile that leaves it to the hardware is that of its HardwareConfig. *)
SettingsFromHardware ==
  Quiet /\ ~failed /\ ~raced /\ hw.pc = "idle" /\ ~hwPending =>
    \A r \in running :
      HwOf(hwConfigs, r.name) # {} /\ r.conf.up = None =>
        \E h \in HwOf(hwConfigs, r.name) : r.up = h.spec.up
=============================================================================
