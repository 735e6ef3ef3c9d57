----------------------------- MODULE ClockChain -----------------------------
(***************************************************************************)
(* How the HardwareConfigManager of linuxptp-daemon completes a            *)
(* HardwareConfig before it uses it: the clock ID of a subsystem, the      *)
(* structure and behaviour derived from the PTP profile and the vendor's   *)
(* templates, and the phase adjustments of the delay model                 *)
(* (pkg/hardwareconfig: clockchain_resolution.go, delay_compensation.go,   *)
(* vendor_loader.go, utils.go).                                            *)
(***************************************************************************)
EXTENDS Integers, Sequences, FiniteSets, SequencesExt, FiniteSetsExt

CONSTANTS
  None,       \* nil, an empty name, an error
  Nics,       \* interface -> [e825, direct, eui64, pin, leading]
  PinTable,   \* pin -> [clock, board, package, module, parents, over, gran, min, max]
  Vendor,     \* hardware definition -> [method, flags, pins, esync, conns, points,
              \*                         routes, delays, templates]
  ClockChainProfiles   \* PTP profiles: name -> sequence of [iface, upstream]

Pins == DOMAIN PinTable

(* ------------------------------ clock IDs ------------------------------ *)

(* Of a subsystem: the interface of its DPLL, else its first port.         *)
NetworkInterface(s) ==
  IF s.iface # None THEN s.iface ELSE IF s.ports # <<>> THEN s.ports[1] ELSE None

(* The method of the hardware definition, else by the kind of card.        *)
getClockIDResolutionMethod(iface, def) ==
  IF def # None /\ Vendor[def].method # None THEN Vendor[def].method
  ELSE IF Nics[iface].e825 THEN "devlinkPinChain" ELSE "direct"

(* The first parent of the NIC's pin that belongs to another module.       *)
ForeignParents(iface) ==
  IF Nics[iface].pin = None THEN <<>>
  ELSE SelectSeq(PinTable[Nics[iface].pin].over,
                 LAMBDA q : PinTable[q].module # PinTable[Nics[iface].pin].module)

(* Without one, any clock with a pin of the DPLL chip: the cache is a map. *)
ChipClocks == {PinTable[p].clock : p \in {q \in Pins : PinTable[q].module = "zl3073x"}}

(* The clock IDs the resolution may give; none is an error.  The serial    *)
(* number is taken as it is only if the definition says so.                *)
ClockIDs(iface, def) ==
  IF iface = None \/ iface \notin DOMAIN Nics THEN {}
  ELSE IF getClockIDResolutionMethod(iface, def) = "devlinkPinChain"
  THEN IF ForeignParents(iface) # <<>> THEN {PinTable[ForeignParents(iface)[1]].clock}
       ELSE ChipClocks
  ELSE IF def # None /\ Vendor[def].method = "direct" THEN {Nics[iface].direct}
  ELSE {Nics[iface].eui64}
getClockIDCached(s) ==
  IF ClockIDs(NetworkInterface(s), s.def) = {} THEN None
  ELSE CHOOSE c \in ClockIDs(NetworkInterface(s), s.def) : TRUE

(* A pin by its board label, else by its package label.                    *)
GetPin(clock, label) ==
  LET board   == {p \in Pins : PinTable[p].clock = clock /\ PinTable[p].board = label}
      package == {p \in Pins : PinTable[p].clock = clock /\ PinTable[p].package = label}
  IN IF clock = None THEN None
     ELSE IF board # {} THEN CHOOSE p \in board : TRUE
     ELSE IF package # {} THEN CHOOSE p \in package : TRUE ELSE None

(* ------------------------- structure of a subsystem -------------------- *)

extractUpstreamPorts(profile) ==
  LET up == SelectSeq(ClockChainProfiles[profile], LAMBDA sec : sec.upstream)
  IN [k \in DOMAIN up |-> up[k].iface]
extractInterfaces(profile) ==
  [k \in DOMAIN ClockChainProfiles[profile] |-> ClockChainProfiles[profile][k].iface]

(* The first interface of the device behind the port's PHC.                *)
findLeadingInterface(port) == Nics[port].leading

Template(def, type) ==
  IF def \in DOMAIN Vendor /\ type \in DOMAIN Vendor[def].templates
  THEN Vendor[def].templates[type] ELSE None

NoPin == [freq |-> None, esync |-> None, phase |-> None, conn |-> None]

(* The ports the structure is derived from: the upstream ports, for a      *)
(* grandmaster all of them.                                                *)
PortsFor(profile, type) ==
  IF type = "T-GM" THEN extractInterfaces(profile) ELSE extractUpstreamPorts(profile)

deriveSubsystemStructure(s, profile, type) ==
  IF \/ s.def = None \/ Template(s.def, type) = None
     \/ (type # "T-GM" \/ s.iface = None) /\ PortsFor(profile, type) = <<>>
     \/ s.iface = None /\ findLeadingInterface(PortsFor(profile, type)[1]) = None
     \/ /\ type # "T-GM" /\ s.in = << >>
        /\ Template(s.def, type).ptpInput = None
  THEN None
  ELSE [s EXCEPT
    !.iface = IF @ = None THEN findLeadingInterface(PortsFor(profile, type)[1]) ELSE @,
    !.in    = IF type = "T-GM" \/ @ # << >> THEN @
              ELSE Template(s.def, type).ptpInput :> [NoPin EXCEPT !.freq = 1],
    !.ports = IF type = "T-GM" \/ @ # <<>> THEN @ ELSE extractUpstreamPorts(profile)]

(* Every compensation point of the delay model gets a pin entry.           *)
injectDelayCompensationPins(s) ==
  LET points(input) == {pt.label : pt \in {q \in Vendor[s.def].points : q.input = input}}
      filled(f, labels) == [l \in DOMAIN f \cup labels |-> IF l \in DOMAIN f THEN f[l] ELSE NoPin]
  IN IF s.def = None THEN s
     ELSE [s EXCEPT !.in = filled(@, points(TRUE)), !.out = filled(@, points(FALSE))]

(* A subsystem whose definition sets DPLL flags is left as it is.          *)
ResolveSubsystem(s, profile, type) ==
  IF s.def # None /\ Vendor[s.def].flags THEN s
  ELSE IF s.iface = None \/ s.in = << >> \/ s.ports = <<>>
  THEN IF deriveSubsystemStructure(s, profile, type) = None THEN None
       ELSE injectDelayCompensationPins(deriveSubsystemStructure(s, profile, type))
  ELSE injectDelayCompensationPins(s)

(* ------------------------------ behaviour ------------------------------ *)

resolveTemplateString(x, sub, template) ==
  CASE x = "{subsystem}" -> sub.name
    [] x = "{ptpInputPin}" -> template.ptpInput
    [] OTHER -> x

ResolvedSource(src, sub, template) ==
  [src EXCEPT !.sub = resolveTemplateString(@, sub, template),
              !.rx  = IF src.type = "ptpTimeReceiver" /\ sub.ports # <<>> THEN sub.ports ELSE @]
ResolvedCondition(c, sub, template) ==
  [c EXCEPT !.states = [k \in DOMAIN @ |->
     [@[k] EXCEPT !.sub   = resolveTemplateString(@, sub, template),
                  !.label = resolveTemplateString(@, sub, template)]]]

(* A user's source goes over the template's of the same name, or type if   *)
(* it has no name, and keeps what it does not set; a user's condition      *)
(* replaces the template's.                                                *)
mergeSourceConfig(tpl, user) ==
  [tpl EXCEPT !.sub = IF user.sub # None THEN user.sub ELSE @,
              !.rx  = IF user.rx # <<>> THEN user.rx ELSE @]
MergeSource(list, user) ==
  LET same == {k \in DOMAIN list : IF user.name # None THEN list[k].name = user.name
                                   ELSE list[k].type = user.type}
  IN IF same = {} THEN Append(list, user)
     ELSE [list EXCEPT ![Min(same)] = mergeSourceConfig(@, user)]
MergeCondition(list, user) ==
  LET same == {k \in DOMAIN list : list[k].name = user.name}
  IN IF same = {} THEN Append(list, user) ELSE [list EXCEPT ![Min(same)] = user]

deriveBehavior(cfg) ==
  LET templates == FoldLeft(LAMBDA acc, s :
        IF s.def = None \/ Template(s.def, cfg.type) = None THEN acc
        ELSE LET t == Template(s.def, cfg.type) IN
             [sources    |-> acc.sources \o
                [k \in DOMAIN t.sources |-> ResolvedSource(t.sources[k], s, t)],
              conditions |-> acc.conditions \o
                [k \in DOMAIN t.conditions |-> ResolvedCondition(t.conditions[k], s, t)]],
        [sources |-> <<>>, conditions |-> <<>>], cfg.subs)
  IN [cfg EXCEPT !.sources    = FoldLeft(MergeSource, templates.sources, cfg.sources),
                 !.conditions = FoldLeft(MergeCondition, templates.conditions, cfg.conditions)]

(* A config without a clock type is complete as it is written.             *)
ResolveClockChain(cfg) ==
  IF cfg.type = None THEN cfg
  ELSE IF cfg.profile \notin DOMAIN ClockChainProfiles THEN None
  ELSE LET subs == [k \in DOMAIN cfg.subs |-> ResolveSubsystem(cfg.subs[k], cfg.profile, cfg.type)]
       IN IF \E k \in DOMAIN subs : subs[k] = None THEN None
          ELSE deriveBehavior([cfg EXCEPT !.subs = subs])

(* -------------------------- phase adjustments -------------------------- *)

(* The delay of a route is the sum over its connections; a connection that *)
(* is not in the model is an error and the route skipped.                  *)
Hops(route) == {<<route.path[k], route.path[k + 1]>> : k \in 1..(Len(route.path) - 1)}
calculateRouteDelay(def, route) ==
  FoldLeft(LAMBDA sum, k : sum + Vendor[def].delays[<<route.path[k], route.path[k + 1]>>],
           0, [k \in 1..(Len(route.path) - 1) |-> k])
RouteOK(def, route) == Len(route.path) >= 2 /\ Hops(route) \subseteq DOMAIN Vendor[def].delays

(* label -> delay, of the last good route to that compensation point.      *)
ResolvePhaseAdjustments(def) ==
  LET good(l) == {k \in DOMAIN Vendor[def].routes :
                    Vendor[def].routes[k].label = l /\ RouteOK(def, Vendor[def].routes[k])}
      labels  == {Vendor[def].routes[k].label : k \in DOMAIN Vendor[def].routes}
  IN [l \in {m \in labels : good(m) # {}} |->
        calculateRouteDelay(def, Vendor[def].routes[Max(good(l))])]

AddDelays(pinCfgs, adj) ==
  [l \in DOMAIN pinCfgs |->
     IF l \notin DOMAIN adj THEN pinCfgs[l]
     ELSE [pinCfgs[l] EXCEPT !.phase = adj[l] + (IF @ = None THEN 0 ELSE @)]]

(* The pins of every subsystem are adjusted.                               *)
PopulatePhaseAdjustmentsFromDelays(cfg, def) ==
  [cfg EXCEPT !.subs = [k \in DOMAIN @ |->
     [@[k] EXCEPT !.in  = AddDelays(@, ResolvePhaseAdjustments(def)),
                  !.out = AddDelays(@, ResolvePhaseAdjustments(def))]]]

(* Once for each subsystem with a delay model and an interface.            *)
populatePhaseAdjustments(cfg) ==
  FoldLeft(LAMBDA acc, s :
             IF s.def = None \/ NetworkInterface(s) = None THEN acc
             ELSE PopulatePhaseAdjustmentsFromDelays(acc, s.def), cfg, cfg.subs)

(* What a pin should get: the delay of its own definition and the user's.  *)
PhaseWanted(s, l, user) ==
  LET own == IF l \in DOMAIN user THEN user[l].phase ELSE None
  IN IF s.def = None \/ l \notin DOMAIN ResolvePhaseAdjustments(s.def) THEN own
     ELSE ResolvePhaseAdjustments(s.def)[l] + (IF own = None THEN 0 ELSE own)
=============================================================================
