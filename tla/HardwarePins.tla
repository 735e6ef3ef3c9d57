---------------------------- MODULE HardwarePins ----------------------------
(***************************************************************************)
(* The hardware a HardwareConfig sets up: DPLL pins and sysfs files        *)
(* (pkg/hardwareconfig/hardwareconfig.go).  The manager turns configs into *)
(* commands; four parties of the daemon send them, a batch at a time and   *)
(* without a common lock: the apply of a profile, ptp4l's log (locked and  *)
(* lost), the DPLL monitor's notifications and the reconciler, which       *)
(* resets what removed configs used.                                       *)
(***************************************************************************)
EXTENDS ClockChain

CONSTANTS
  HwConfigSets,   \* lists of HardwareConfigs the cluster may hold
  MaxPinFaults    \* bound: commands and read-backs that fail

VARIABLES
  pins, sysfs,    \* hardware: fields of every pin; path -> value
  held,           \* hardwareConfigs of the manager, with their commands
  job,            \* who -> conditions still to apply: sequences of batches
  disturbed,      \* history: another party wrote since the profile's apply began
  applied,        \* history: the configs of the last apply that reported success
  pinFaults, skipped   \* history: faults; a batch cut short that reported success
pinVars == <<pins, sysfs, held, job, disturbed, applied, pinFaults, skipped>>

Parties == {"apply", "ptp4l", "dpll", "reconciler"}

(* ------------------------------- commands ------------------------------ *)

Ctl(state, prio) == [state |-> state, prio |-> prio]
NoCommand(p) == [id |-> p, freq |-> None, esync |-> None, phase |-> None, ctl |-> <<>>]
Parents(p) == PinTable[p].parents
OneOf(a, b) == IF b # None THEN b ELSE a   \* a later value over an earlier one

(* Input parents get a priority by position, output parents a state: that  *)
(* of pps over that of eec, for both.                                      *)
buildPinCommandFromDefaults(p, ov) ==
  [NoCommand(p) EXCEPT !.ctl = [k \in DOMAIN Parents(p) |->
     IF Parents(p)[k] = "in" THEN Ctl(None, IF k = 1 THEN ov.eec.prio ELSE ov.pps.prio)
     ELSE Ctl(OneOf(ov.eec.state, ov.pps.state), None)]]

(* A pin's frequency, with eSync in the sequence of the vendor.            *)
buildPinFrequencyCommands(p, cfg, def) ==
  IF cfg.esync = None
  THEN IF cfg.freq = None THEN <<>> ELSE <<[NoCommand(p) EXCEPT !.freq = cfg.freq]>>
  ELSE IF def = None \/ Vendor[def].esync = <<>>
  THEN <<[NoCommand(p) EXCEPT !.freq = cfg.freq, !.esync = cfg.esync]>>
  ELSE [k \in DOMAIN Vendor[def].esync |->
          CASE Vendor[def].esync[k] = "frequency" -> [NoCommand(p) EXCEPT !.freq = cfg.freq]
            [] Vendor[def].esync[k] = "eSyncFrequency" ->
                 [NoCommand(p) EXCEPT !.esync = cfg.esync]
            [] Vendor[def].esync[k] = "enable" ->
                 [NoCommand(p) EXCEPT !.ctl = [j \in DOMAIN Parents(p) |->
                    Ctl(IF Parents(p)[j] = "out" THEN "connected" ELSE None, None)]]]

(* Division of int32 truncates.                                            *)
Quotient(a, b) == IF a >= 0 THEN a \div b ELSE -((-a) \div b)
roundToGranularity(v, gran) ==
  IF gran <= 1 THEN v
  ELSE IF v >= 0 THEN Quotient(v + gran \div 2, gran) * gran
  ELSE Quotient(v - gran \div 2, gran) * gran
Clamped(v, p) ==
  IF PinTable[p].min # 0 /\ v < PinTable[p].min THEN PinTable[p].min
  ELSE IF PinTable[p].max # 0 /\ v > PinTable[p].max THEN PinTable[p].max ELSE v
buildPhaseAdjustmentCommand(p, cfg) ==
  [NoCommand(p) EXCEPT !.phase = Clamped(roundToGranularity(cfg.phase, PinTable[p].gran), p)]

(* All orders of the labels of a map.                                      *)
Orders(f) == SetToSeqs(DOMAIN f)
Concat(seqs) == FoldLeft(LAMBDA acc, x : acc \o x, <<>>, seqs)

(* The commands of a subsystem for one order of every map: the defaults,   *)
(* the frequencies, the phase adjustments.                                 *)
OrdersOf(s) == [pins : Orders(Vendor[s.def].pins), in : Orders(s.in), out : Orders(s.out)]
resolveSubsystemStructure(s, o) ==
  LET c == getClockIDCached(s)
      pin(l) == GetPin(c, l)
      known(order) == SelectSeq(order, LAMBDA l : pin(l) # None)
      dflt(l)      == <<buildPinCommandFromDefaults(pin(l), Vendor[s.def].pins[l])>>
      freq(f, l)   == buildPinFrequencyCommands(pin(l), f[l], s.def)
      phase(f, l)  == IF f[l].phase = None THEN <<>>
                      ELSE <<buildPhaseAdjustmentCommand(pin(l), f[l])>>
      each(Op(_), order) == Concat([k \in DOMAIN known(order) |-> Op(known(order)[k])])
  IN each(dflt, o.pins)
     \o each(LAMBDA l : freq(s.in, l), o.in) \o each(LAMBDA l : freq(s.out, l), o.out)
     \o each(LAMBDA l : phase(s.in, l), o.in) \o each(LAMBDA l : phase(s.out, l), o.out)

SubsystemOf(cfg, name) ==
  LET same == {k \in DOMAIN cfg.subs : cfg.subs[k].name = name}
  IN IF same = {} THEN None ELSE cfg.subs[Min(same)]

(* Of a desired state of a pin: eec on even parents, pps on odd ones.      *)
createPinCommandForDPLLDesiredState(cfg, d) ==
  LET p == GetPin(getClockIDCached(SubsystemOf(cfg, d.sub)), d.label)
      side(k) == IF k % 2 = 1 THEN d.eec ELSE d.pps
  IN [NoCommand(p) EXCEPT !.ctl = [k \in DOMAIN Parents(p) |->
        Ctl(side(k).state, IF Parents(p)[k] = "in" THEN side(k).prio ELSE None)]]

(* It is an error if the pin, or the interface of a sysfs file, is not     *)
(* known.                                                                  *)
SourceNamed(cfg, n) ==
  LET same == {k \in DOMAIN cfg.sources :
                 IF n = None THEN cfg.sources[k].type = "ptpTimeReceiver"
                                  /\ cfg.sources[k].rx # <<>>
                 ELSE cfg.sources[k].name = n}
  IN IF same = {} THEN None ELSE cfg.sources[Min(same)]
getInterfaceNameFromSources(cfg, n) ==
  LET src == SourceNamed(cfg, n)
      s   == SubsystemOf(cfg, src.sub)
  IN IF src = None THEN None
     ELSE IF s = None THEN None
     ELSE IF src.type \in {"dpll", "gnss"} THEN NetworkInterface(s)
     ELSE IF src.rx = <<>> THEN None
     ELSE IF src.rx[1] \in Range(s.ports) \cup {s.iface} THEN NetworkInterface(s) ELSE None
Resolves(cfg, d) ==
  IF d.kind = "dpll"
  THEN /\ SubsystemOf(cfg, d.sub) # None
       /\ GetPin(getClockIDCached(SubsystemOf(cfg, d.sub)), d.label) # None
  ELSE getInterfaceNameFromSources(cfg, d.src) # None

Write(cfg, d) ==
  IF d.kind = "dpll" THEN [kind |-> "pin", cmd |-> createPinCommandForDPLLDesiredState(cfg, d)]
  ELSE [kind |-> "file", path |-> <<getInterfaceNameFromSources(cfg, d.src), d.label>>,
        value |-> d.value]

(* ------------------------- merging and batches ------------------------- *)

MergeCtl(a, b) == [k \in 1..Max({Len(a), Len(b)}) |->
  IF k > Len(a) THEN b[k] ELSE IF k > Len(b) THEN a[k]
  ELSE Ctl(OneOf(a[k].state, b[k].state), OneOf(a[k].prio, b[k].prio))]
Merge(a, b) == [a EXCEPT !.freq = OneOf(@, b.freq), !.esync = OneOf(@, b.esync),
                         !.phase = OneOf(@, b.phase), !.ctl = MergeCtl(@, b.ctl)]

(* Mutant: earlier fields win over later ones. *)
mergePinCommandsByID_First(cmds) ==
  [p \in {cmds[k].id : k \in DOMAIN cmds} |->
     FoldLeft(LAMBDA a, b : Merge(b, a), NoCommand(p),
              SelectSeq(cmds, LAMBDA c : c.id = p))]

(* One command per pin, later fields over earlier ones.                    *)
mergePinCommandsByID(cmds) ==
  [p \in {cmds[k].id : k \in DOMAIN cmds} |->
     FoldLeft(Merge, NoCommand(p), SelectSeq(cmds, LAMBDA c : c.id = p))]

(* The merged commands are sent in any order: they come out of a map.      *)
Batches(cmds) ==
  {[k \in DOMAIN o |-> [kind |-> "pin", cmd |-> mergePinCommandsByID(cmds)[o[k]]]] :
     o \in Orders(mergePinCommandsByID(cmds))}

(* A command changes the fields it has.                                    *)
SetPin(hw, c) == [hw EXCEPT ![c.id] = Merge(@, c)]
Perform(w) ==
  \/ w.kind = "pin" /\ pins' = SetPin(pins, w.cmd) /\ UNCHANGED sysfs
  \/ w.kind = "file" /\ sysfs' = [x \in DOMAIN sysfs \cup {w.path} |->
                                    IF x = w.path THEN w.value ELSE sysfs[x]]
     /\ UNCHANGED pins

(* ------------------------- the manager's configs ------------------------ *)

Has(c, type) == \E t \in c.triggers : t.type = type
HasFrom(c, type, src) == [type |-> type, src |-> src] \in c.triggers
Triggered(cfg, type) == SelectSeq(cfg.conditions, LAMBDA c : Has(c, type))
TriggeredBySources(cfg, type) ==
  LET bySource == [k \in DOMAIN cfg.sources |->
        SelectSeq(cfg.conditions, LAMBDA c : HasFrom(c, type, cfg.sources[k].name))]
  IN FoldLeft(LAMBDA acc, c : IF \E k \in DOMAIN acc : acc[k].name = c.name THEN acc
                              ELSE Append(acc, c), <<>>, Concat(bySource))

(* Each state of a condition is a batch of its own: the order is kept.     *)
applyDesiredStatesInOrder(cfg, c) ==
  [k \in DOMAIN c.states |-> <<Write(cfg, c.states[k])>>]

(* The commands cached for a condition: files first, then the pins, merged.*)
CachedBatches(cfg, c) ==
  LET files == SelectSeq(c.states, LAMBDA d : d.kind # "dpll")
      dplls == SelectSeq(c.states, LAMBDA d : d.kind = "dpll")
      one(b) == <<[k \in DOMAIN files |-> Write(cfg, files[k])], b>>
  IN {one(b) : b \in Batches([k \in DOMAIN dplls |->
                               createPinCommandForDPLLDesiredState(cfg, dplls[k])])}

(* What UpdateHardwareConfig makes of a config; None is an error.          *)
Prepared(cfg) ==
  LET full == ResolveClockChain(cfg)
  IN IF full = None THEN None
     ELSE IF \E k \in DOMAIN full.conditions : full.conditions[k].triggers # {} /\
               \E j \in DOMAIN full.conditions[k].states :
                 ~Resolves(full, full.conditions[k].states[j]) THEN None
     ELSE populatePhaseAdjustments(full)

(* The command lists of some subsystems; those without a definition have   *)
(* none.                                                                   *)
SubsystemLists(s) ==
  IF s.def = None THEN {<<>>} ELSE {resolveSubsystemStructure(s, o) : o \in OrdersOf(s)}
StructureLists(subs) ==
  FoldLeft(LAMBDA acc, s : {x \o y : x \in acc, y \in SubsystemLists(s)}, {<<>>}, subs)

(* translateConnectorCommands: files that set the connectors in use, and   *)
(* then those that turn the others off.                                    *)
Connectors(f) == {f[l].conn : l \in DOMAIN f} \ {None}
ConnectorWrite(s, conn, how) ==
  [kind |-> "file", path |-> <<s.ports[1], conn>>, value |-> how]
translateConnectorCommands(s) ==
  IF s.def = None \/ s.ports = <<>> THEN {<<>>}
  ELSE LET used == Connectors(s.in) \cup Connectors(s.out)
           writes(cs, how) == {[k \in DOMAIN o |-> ConnectorWrite(s, o[k], how)] : o \in SetToSeqs(cs)}
       IN {x \o y \o z : x \in writes(Connectors(s.in) \cap Vendor[s.def].conns, "in"),
                         y \in writes(Connectors(s.out) \cap Vendor[s.def].conns, "out"),
                         z \in writes(Vendor[s.def].conns \ used, "off")}
ConnectorLists(subs) ==
  FoldLeft(LAMBDA acc, s : {x \o y : x \in acc, y \in translateConnectorCommands(s)},
           {<<>>}, subs)

Idle(who) == job[who] = <<>>
Start(who, groups) == job' = [job EXCEPT ![who] = groups]

(* Configs that went are reset to the vendor's defaults, then the new list *)
(* is resolved and kept, or the old one stays.                             *)
Removed(list) == SelectSeq(held, LAMBDA h : \A k \in DOMAIN list : list[k].name # h.name)
(* Each subsystem is reset on its own: a failure is logged.                *)
ResetJobs(subs) ==
  FoldLeft(LAMBDA acc, s : {Append(x, <<b, c>>) : x \in acc,
               b \in UNION {Batches(l) : l \in SubsystemLists(s)},
               c \in translateConnectorCommands(s)}, {<<>>}, subs)
UpdateHardwareConfig ==
  /\ Idle("reconciler")
  /\ \E list \in HwConfigSets :
       \E new \in {[k \in DOMAIN list |-> Prepared(list[k])]} :
       \E reset \in ResetJobs(Concat([k \in DOMAIN Removed(list) |-> Removed(list)[k].subs])) :
         /\ Start("reconciler", reset)
         /\ held' = (IF \E k \in DOMAIN new : new[k] = None THEN held ELSE new)
         /\ held' # held
  /\ UNCHANGED <<pins, sysfs, disturbed, applied, pinFaults, skipped>>

(* ----------------------------- the parties ----------------------------- *)

(* The apply of a profile: structure, default conditions, init conditions. *)
BehaviorOf(cfg) == TriggeredBySources(cfg, "default") \o TriggeredBySources(cfg, "init")
ApplyHardwareConfigs ==
  /\ Idle("apply") /\ Idle("ptp4l") /\ held # <<>>
  /\ \E cmds \in StructureLists(held[1].subs) : \E b \in Batches(cmds) :
     \E files \in ConnectorLists(held[1].subs) :
       Start("apply", << <<files, b>> >> \o [k \in DOMAIN BehaviorOf(held[1]) |->
                        applyDesiredStatesInOrder(held[1], BehaviorOf(held[1])[k])])
  /\ disturbed' = FALSE /\ applied' = held[1] /\ skipped' = FALSE
  /\ UNCHANGED <<pins, sysfs, held, pinFaults>>

(* ptp4l's log says that the upstream port is locked or lost.              *)
ApplyCondition(type) ==
  /\ Idle("apply") /\ Idle("ptp4l") /\ held # <<>> /\ applied # None
  /\ \E c \in Range(Triggered(held[1], type)) : \E bs \in CachedBatches(held[1], c) :
       Start("ptp4l", <<bs>>)
  /\ UNCHANGED <<pins, sysfs, held, disturbed, applied, pinFaults, skipped>>

(* A DPLL device reports that it locked.                                   *)
ProcessDPLLDeviceNotifications ==
  /\ Idle("dpll") /\ held # <<>> /\ applied # None
  /\ \E src \in Range(held[1].sources) :
       /\ src.type = "dpll"
       /\ \E cs \in {SelectSeq(held[1].conditions, LAMBDA c : HasFrom(c, "locked", src.name))} :
            /\ cs # <<>>
            /\ Start("dpll", [k \in DOMAIN cs |-> applyDesiredStatesInOrder(held[1], cs[k])])
  /\ UNCHANGED <<pins, sysfs, held, disturbed, applied, pinFaults, skipped>>

(* The rest of a job without its first write: a batch that is empty is     *)
(* over, and so is a condition.                                            *)
Trim(groups) ==
  LET batches == SelectSeq(Head(groups), LAMBDA b : b # <<>>)
  IN IF batches = <<>> THEN Tail(groups) ELSE <<batches>> \o Tail(groups)
Rest(groups) == Trim(<<<<Tail(groups[1][1])>> \o Tail(groups[1])>> \o Tail(groups))
CutBatch(groups) == Trim(<<Tail(groups[1])>> \o Tail(groups))
CurrentWrite(who) == job[who][1][1][1]

WriteNext(who) ==
  /\ ~Idle(who) /\ job[who][1] # <<>> /\ job[who][1][1] # <<>>
  /\ Perform(CurrentWrite(who))
  /\ Start(who, Rest(job[who]))
  /\ disturbed' = (disturbed \/ who # "apply")
  /\ UNCHANGED <<held, applied, pinFaults, skipped>>

(* An empty batch or condition is passed over.                             *)
SkipEmpty(who) ==
  /\ ~Idle(who) /\ (job[who][1] = <<>> \/ job[who][1][1] = <<>>)
  /\ Start(who, Trim(job[who]))
  /\ UNCHANGED <<pins, sysfs, held, disturbed, applied, pinFaults, skipped>>

(* BatchPinSet: the pin was set but cannot be read back; the rest of the   *)
(* batch is not sent and no error returned.                                *)
ReadBackFails(who) ==
  /\ ~Idle(who) /\ pinFaults < MaxPinFaults /\ job[who][1] # <<>> /\ job[who][1][1] # <<>>
  /\ CurrentWrite(who).kind = "pin"
  /\ Perform(CurrentWrite(who))
  /\ Start(who, CutBatch(job[who]))
  /\ disturbed' = (disturbed \/ who # "apply") /\ pinFaults' = pinFaults + 1
  /\ skipped' = (skipped \/ Len(job[who][1][1]) > 1)
  /\ UNCHANGED <<held, applied>>

(* A command fails: an apply is over and reports it, a notification or a   *)
(* reset goes on with the next condition or subsystem.                     *)
WriteFails(who) ==
  /\ ~Idle(who) /\ pinFaults < MaxPinFaults /\ job[who][1] # <<>> /\ job[who][1][1] # <<>>
  /\ Start(who, IF who \in {"dpll", "reconciler"} THEN Tail(job[who]) ELSE <<>>)
  /\ applied' = (IF who = "apply" THEN None ELSE applied)
  /\ pinFaults' = pinFaults + 1
  /\ UNCHANGED <<pins, sysfs, held, disturbed, skipped>>

PinInit ==
  /\ pins = [p \in Pins |-> [NoCommand(p) EXCEPT !.ctl = [k \in DOMAIN Parents(p) |->
                               Ctl("reset", "reset")]]]
  /\ sysfs = << >> /\ held = <<>> /\ job = [w \in Parties |-> <<>>]
  /\ disturbed = FALSE /\ applied = None /\ pinFaults = 0 /\ skipped = FALSE

PinNext ==
  \/ UpdateHardwareConfig \/ ApplyHardwareConfigs \/ ProcessDPLLDeviceNotifications
  \/ \E type \in {"locked", "lost"} : ApplyCondition(type)
  \/ \E who \in Parties : WriteNext(who) \/ SkipEmpty(who) \/ ReadBackFails(who) \/ WriteFails(who)

(* ----------------------------- properties ------------------------------ *)

(* The value the commands of a config, one by one and in the order they    *)
(* are built, leave in a field.                                            *)
Unmerged(cfg) ==
  LET cs == BehaviorOf(cfg)
      of(c) == [k \in DOMAIN SelectSeq(c.states, LAMBDA d : d.kind = "dpll") |->
                  createPinCommandForDPLLDesiredState(cfg,
                    SelectSeq(c.states, LAMBDA d : d.kind = "dpll")[k])]
  IN (CHOOSE l \in StructureLists(cfg.subs) : TRUE) \o Concat([k \in DOMAIN cs |-> of(cs[k])])
LastWith(cmds, p, P(_)) == {k \in DOMAIN cmds : cmds[k].id = p /\ P(cmds[k]) /\
                              \A j \in DOMAIN cmds : cmds[j].id = p /\ P(cmds[j]) => j <= k}

(* After an apply that reported success, and until another party writes,   *)
(* every pin has what the commands of its config, sent one by one in the   *)
(* order they are built, would have left: merging them by pin, the order   *)
(* of Go's maps and the split into batches change nothing.  Not when a     *)
(* read-back failed, which drops the rest of a batch silently.             *)
PinsAsConfigured ==
  applied # None /\ Idle("apply") /\ ~disturbed /\ ~skipped =>
    \A cmds \in {Unmerged(applied)} : \A p \in Pins :
      /\ \A f \in {"freq", "esync", "phase"} :
           \A k \in LastWith(cmds, p, LAMBDA c : c[f] # None) : pins[p][f] = cmds[k][f]
      /\ \A n \in DOMAIN Parents(p) :
           /\ \A k \in LastWith(cmds, p, LAMBDA c : n \in DOMAIN c.ctl /\ c.ctl[n].state # None) :
                pins[p].ctl[n].state = cmds[k].ctl[n].state
           /\ \A k \in LastWith(cmds, p, LAMBDA c : n \in DOMAIN c.ctl /\ c.ctl[n].prio # None) :
                pins[p].ctl[n].prio = cmds[k].ctl[n].prio

(* The comment on PopulatePhaseAdjustmentsFromDelays: delays are summed    *)
(* and combined with the user's phaseAdjustment; so each is in once.       *)
DelaysCountedOnce ==
  \A h \in Range(held) : \A list \in HwConfigSets : \A k \in DOMAIN list :
    list[k].name = h.name /\ Prepared(list[k]) = h =>
      \A n \in DOMAIN h.subs : \A l \in DOMAIN h.subs[n].in :
        h.subs[n].in[l].phase = PhaseWanted(h.subs[n], l, list[k].subs[n].in)
=============================================================================
