---------------------------- MODULE OperatorSync ----------------------------
(***************************************************************************)
(* The controllers of the operator: PtpConfig and HardwareConfig and       *)
(* PtpOperatorConfig reconcilers under controllers/, with the object merge *)
(* of pkg/apply.  Each reconcile reads and writes the API server in steps; *)
(* the reconcilers interleave with each other and with users who edit      *)
(* resources and secrets.  An update fails when the object has changed     *)
(* since it was read.  Every failed reconcile is queued again.             *)
(***************************************************************************)
EXTENDS Recommend, FiniteSets

CONSTANTS
  Nodes,          \* records [name, labels]
  Resource,       \* versions of PtpConfig resources: key -> resource
  Worlds,         \* sets of keys a user may install
  Secrets, NoSecret,
  Related,        \* profile names a HardwareConfig may relate to
  Allows, Deny,   \* network policies of the manifest, Ntp the one for chronyd
  Ntp,
  MaxEdits, MaxErrors

(* A name is taken once in a namespace. *)
ASSUME OperatorAssumption ==
  \A cs \in Worlds :
     /\ IsFiniteSet(cs)
     /\ \A c \in cs : /\ IsFiniteSet(DOMAIN Resource[c].profiles)
                      /\ \A k \in DOMAIN Resource[c].profiles :
                            Resource[c].profiles[k].name \in Seq(STRING)
     /\ \A c, d \in cs : Resource[c].name = Resource[d].name => c = d

VARIABLES
  crs,        \* installed PtpConfig resources
  secrets,    \* secrets of the namespace
  spec,       \* what PtpOperatorConfig asks the DaemonSet to be: a number
  hw,         \* the HardwareConfig: [related, pairs, profile], the last two its status
  status,     \* resource name -> match list of its status
  cm,         \* ConfigMap of the profiles: set of [of, data], empty while it is missing
  ds,         \* DaemonSet: set of [spec, vols, mounts], empty while it is missing
  pols,       \* network policies
  pc,         \* PtpConfig reconciler: [at, list, ds, cur]
  oc,         \* PtpOperatorConfig reconciler: [at, spec, cur]
  hc,         \* HardwareConfig reconciler: [at, hw]
  queued,     \* requests: a subset of {"pc", "oc", "hc"}
  fresh,      \* reconcilers whose copy of the DaemonSet is its current version
  edits, errs

operatorVars == <<crs, secrets, spec, hw, status, cm, ds, pols, pc, oc, hc, queued, fresh,
                  edits, errs>>
api == <<crs, secrets, spec, hw, status, cm, ds, pols>>

(* The manifest brings one volume that belongs to no secret. *)
BaseVolumes == {"leap-volume"}
Rendered(n) == [spec |-> n, vols |-> BaseVolumes, mounts |-> BaseVolumes]
NoDs == Rendered(0)
PcIdle == [at |-> "idle", list |-> <<>>, ds |-> NoDs, cur |-> NoDs]
OcIdle == [at |-> "idle", spec |-> 0, cur |-> NoDs]
HcIdle == [at |-> "idle", hw |-> {}]

OperatorInit ==
  /\ crs \in Worlds /\ secrets \in SUBSET Secrets /\ spec = 1
  /\ \E r \in {CHOOSE x \in Related : TRUE} : hw = [related |-> r, pairs |-> {}, profile |-> r]
  /\ status = [n \in {Resource[c].name : c \in UNION Worlds} |-> {}]
  /\ cm = {} /\ ds = {} /\ pols = {}
  /\ pc = PcIdle /\ oc = OcIdle /\ hc = HcIdle
  /\ queued = {"pc", "oc", "hc"} /\ fresh = {} /\ edits = 0 /\ errs = 0

References(cs) ==
  UNION {{p.secret : p \in ToSet(Resource[c].profiles)} : c \in cs} \ {NoSecret}

UsesChronyd(cs) == \E c \in cs : \E p \in ToSet(Resource[c].profiles) : p.chronyd

Items(list) == [i \in DOMAIN list |-> Resource[list[i]]]

(* The lists the cache may return: in no certain order. *)
Lists(cs) == {l \in [1..Cardinality(cs) -> cs] : ToSet(l) = cs}

AllLists == UNION {Lists(cs) : cs \in Worlds}

(* What a reconcile computes from a list: the data of every node, or none  *)
(* when some node lacks a profile.                                         *)
NodeData ==
  {[list |-> l,
    data |-> IF \E n \in Nodes : Missing(Items(l), n) THEN {}
             ELSE {[n \in Nodes |-> getRecommendProfiles(Items(l), n)]}] :
   l \in AllLists}

Matches == [c \in UNION Worlds |-> MatchList(Resource[c], Nodes)]

-----------------------------------------------------------------------------
(* Users. *)
Edit == edits < MaxEdits /\ edits' = edits + 1 /\ UNCHANGED <<pc, oc, hc, fresh, errs>>

EditConfigs(w) ==
  /\ Edit /\ w # crs /\ crs' = w
  /\ queued' = queued \cup {"pc", "hc"}
  /\ UNCHANGED <<secrets, spec, hw, status, cm, ds, pols>>

(* Mutant: the deletion of a secret is of no interest. *)
EditSecret_CreateOnly(s) ==
  /\ Edit
  /\ secrets' = IF s \in secrets THEN secrets \ {s} ELSE secrets \cup {s}
  /\ queued' = IF s \in References(crs) \ secrets THEN queued \cup {"pc"} ELSE queued
  /\ UNCHANGED <<crs, spec, hw, status, cm, ds, pols>>

(* secretEventHandler: only a secret that is referenced is of interest. *)
EditSecret(s) ==
  /\ Edit
  /\ secrets' = IF s \in secrets THEN secrets \ {s} ELSE secrets \cup {s}
  /\ queued' = IF s \in References(crs) THEN queued \cup {"pc"} ELSE queued
  /\ UNCHANGED <<crs, spec, hw, status, cm, ds, pols>>

EditOperatorConfig ==
  /\ Edit /\ spec' = spec + 1
  /\ queued' = queued \cup {"oc"}
  /\ UNCHANGED <<crs, secrets, hw, status, cm, ds, pols>>

EditHardwareConfig(r) ==
  /\ Edit /\ r # hw.related /\ hw' = [hw EXCEPT !.related = r]
  /\ queued' = queued \cup {"pc", "hc"}
  /\ UNCHANGED <<crs, secrets, spec, status, cm, ds, pols>>

-----------------------------------------------------------------------------
(* The PtpConfig reconciler. *)
PcList ==
  /\ "pc" \in queued /\ pc.at = "idle"
  /\ \E list \in Lists(crs) :
       pc' = [PcIdle EXCEPT !.at = "status", !.list = list]
  /\ queued' = queued \ {"pc"}
  /\ UNCHANGED <<api, oc, hc, fresh, edits, errs>>

(* An error returned by a reconcile queues the request again. *)
PcError == pc' = PcIdle /\ queued' = queued \cup {"pc"}

PcFails ==
  /\ pc.at # "idle" /\ errs < MaxErrors /\ errs' = errs + 1
  /\ PcError
  /\ UNCHANGED <<api, oc, hc, fresh, edits>>

(* syncPtpConfig: the statuses; an update of a resource that has changed   *)
(* since is refused, which is only logged.                                 *)
PcStatus ==
  /\ pc.at = "status"
  /\ status' = [n \in DOMAIN status |->
       IF \E c \in ToSet(pc.list) \cap crs : Resource[c].name = n
       THEN Matches[CHOOSE c \in crs : Resource[c].name = n]
       ELSE status[n]]
  /\ queued' = IF status' # status THEN queued \cup {"pc", "hc"} ELSE queued
  /\ pc' = [pc EXCEPT !.at = "map"]
  /\ UNCHANGED <<crs, secrets, spec, hw, cm, ds, pols, oc, hc, fresh, edits, errs>>

(* syncPtpConfig: one node without its profiles is an error for all.       *)
PcMap ==
  /\ pc.at = "map"
  /\ \E e \in NodeData :
       /\ e.list = pc.list
       /\ IF cm = {} \/ e.data = {} THEN PcError /\ cm' = cm
          ELSE /\ \E data \in e.data : cm' = {[of |-> ToSet(pc.list), data |-> data]}
               /\ pc' = [pc EXCEPT !.at = "secrets"] /\ queued' = queued
  /\ UNCHANGED <<crs, secrets, spec, hw, status, ds, pols, oc, hc, fresh, edits, errs>>

(* Volumes and mounts of a secret are told by the suffix of their name. *)
isSecurityItem(x) == x \in Secrets

filterNonSecurity(items) == {x \in items : ~isSecurityItem(x)}

extractSecurity(items) == {x \in items : isSecurityItem(x)}

removeSecurityVolumesFromDaemonSet(d) ==
  [d EXCEPT !.vols = filterNonSecurity(@), !.mounts = filterNonSecurity(@)]

injectPtpSecurityVolume(d, found) ==
  [d EXCEPT !.vols = @ \cup found, !.mounts = @ \cup found]

(* syncLinuxptpDaemonSecrets: the DaemonSet as it is, with the volumes of   *)
(* the referenced secrets that exist in place of the old ones, ...         *)
PcSecrets ==
  /\ pc.at = "secrets"
  /\ IF ds = {} THEN PcError
     ELSE /\ \E d \in ds, found \in {References(ToSet(pc.list)) \cap secrets} :
               pc' = [pc EXCEPT !.at = "get", !.ds =
                 injectPtpSecurityVolume(removeSecurityVolumesFromDaemonSet(d), found)]
          /\ queued' = queued
  /\ UNCHANGED <<api, oc, hc, fresh, edits, errs>>

(* ... and ApplyObject, which reads the current one again.                 *)
PcGet ==
  /\ pc.at = "get"
  /\ \E d \in ds : pc' = [pc EXCEPT !.at = "update", !.cur = d]
  /\ fresh' = fresh \cup {"pc"}
  /\ UNCHANGED <<api, oc, hc, queued, edits, errs>>

mergeSecurityVolumes(current, updated, preserve) ==
  filterNonSecurity(updated.vols)
    \cup extractSecurity(IF preserve THEN current.vols ELSE updated.vols)

(* Mutant: the mounts of the object that is applied are always used. *)
mergeSecurityVolumeMounts_Own(current, updated, preserve) == updated.mounts

mergeSecurityVolumeMounts(current, updated, preserve) ==
  filterNonSecurity(updated.mounts)
    \cup extractSecurity(IF preserve THEN current.mounts ELSE updated.mounts)

(* MergeDaemonSetForUpdate: the rendered object of PtpOperatorConfig keeps *)
(* what belongs to the secrets, the one of PtpConfig brings its own.       *)
MergeDaemonSetForUpdate(current, updated, source) ==
  [updated EXCEPT
     !.vols = mergeSecurityVolumes(current, updated, source = "oc"),
     !.mounts = mergeSecurityVolumeMounts(current, updated, source = "oc")]

(* MergeMetadataForUpdate gives the object the version just read: the      *)
(* update is refused when that is no longer the current one.               *)
Write(self, current, updated) ==
  LET merged == MergeDaemonSetForUpdate(current, updated, self)
  IN  IF merged = current THEN UNCHANGED <<ds, fresh>> /\ queued' = queued
      ELSE /\ ds' = {merged} /\ fresh' = {}
           /\ queued' = queued \cup {"oc"}          \* Owns(DaemonSet)

PcUpdate ==
  /\ pc.at = "update"
  /\ IF "pc" \in fresh THEN pc' = PcIdle /\ Write("pc", pc.cur, pc.ds)
     ELSE PcError /\ UNCHANGED <<ds, fresh>>
  /\ UNCHANGED <<crs, secrets, spec, hw, status, cm, pols, oc, hc, edits, errs>>

-----------------------------------------------------------------------------
(* The PtpOperatorConfig reconciler: it runs again two minutes after a     *)
(* success.  NodePtpDevice resources and both ConfigMaps are created when  *)
(* missing; a new device is an event for the PtpConfig reconciler.         *)
OcStart ==
  /\ oc.at = "idle"
  /\ oc' = [OcIdle EXCEPT !.at = "policies", !.spec = spec]
  /\ cm' = IF cm = {} THEN {[of |-> {}, data |-> [n \in Nodes |-> <<>>]]} ELSE cm
  /\ queued' = (queued \ {"oc"}) \cup (IF cm = {} THEN {"pc"} ELSE {})
  /\ UNCHANGED <<crs, secrets, spec, hw, status, ds, pols, pc, hc, fresh, edits, errs>>

OcError == oc' = OcIdle /\ queued' = queued \cup {"oc"}

OcFails ==
  /\ oc.at # "idle" /\ errs < MaxErrors /\ errs' = errs + 1
  /\ OcError
  /\ UNCHANGED <<api, pc, hc, fresh, edits>>

Policies == Allows \cup {Deny} \cup (IF UsesChronyd(crs) THEN {Ntp} ELSE {})

(* applyNetworkPoliciesFromYaml: what allows before what denies. *)
OcPolicy(p) ==
  /\ oc.at = "policies" /\ p \in Policies \ pols
  /\ p = Deny => Policies \ {Deny} \subseteq pols
  /\ pols' = pols \cup {p}
  /\ UNCHANGED <<crs, secrets, spec, hw, status, cm, ds, pc, oc, hc, queued, fresh, edits, errs>>

(* A policy that is no longer wanted is removed. *)
OcStalePolicies ==
  /\ oc.at = "policies" /\ Policies \subseteq pols
  /\ pols' = Policies
  /\ oc' = [oc EXCEPT !.at = "get"]
  /\ UNCHANGED <<crs, secrets, spec, hw, status, cm, ds, pc, hc, queued, fresh, edits, errs>>

(* syncLinuxptpDaemon: the manifest is rendered and applied. *)
OcGet ==
  /\ oc.at = "get"
  /\ IF ds = {}
     THEN /\ ds' = {Rendered(oc.spec)} /\ oc' = OcIdle
          /\ queued' = queued \cup {"oc"} /\ fresh' = fresh
     ELSE /\ \E d \in ds : oc' = [oc EXCEPT !.at = "update", !.cur = d]
          /\ fresh' = fresh \cup {"oc"} /\ UNCHANGED <<ds, queued>>
  /\ UNCHANGED <<crs, secrets, spec, hw, status, cm, pols, pc, hc, edits, errs>>

OcUpdate ==
  /\ oc.at = "update"
  /\ IF "oc" \in fresh THEN oc' = OcIdle /\ Write("oc", oc.cur, Rendered(oc.spec))
     ELSE OcError /\ UNCHANGED <<ds, fresh>>
  /\ UNCHANGED <<crs, secrets, spec, hw, status, cm, pols, pc, hc, edits, errs>>

-----------------------------------------------------------------------------
(* The HardwareConfig reconciler. *)
HcGet ==
  /\ "hc" \in queued /\ hc.at = "idle"
  /\ hc' = [at |-> "status", hw |-> {hw}]
  /\ queued' = queued \ {"hc"}
  /\ UNCHANGED <<api, pc, oc, fresh, edits, errs>>

(* syncHardwareConfigStatus: the nodes of the match lists; the status is   *)
(* written when their number or one of the node names differs.             *)
MatchedNodes(related) ==
  UNION {{<<c, x[1]>> : x \in {y \in status[c] : relatedProfileMatches(y[2], related, c)}} :
         c \in {Resource[k].name : k \in crs}}

HcStatus ==
  /\ hc.at = "status" /\ hc' = HcIdle
  /\ \E old \in hc.hw : \E new \in {MatchedNodes(old.related)} :
       IF \/ Cardinality(new) # Cardinality(old.pairs)
          \/ ~({x[2] : x \in new} \subseteq {x[2] : x \in old.pairs})
       THEN IF hw = old
            THEN hw' = [old EXCEPT !.pairs = new, !.profile = old.related] /\ queued' = queued \cup {"pc"}
            ELSE hw' = hw /\ queued' = queued \cup {"hc"}
       ELSE UNCHANGED <<hw, queued>>
  /\ UNCHANGED <<crs, secrets, spec, status, cm, ds, pols, pc, oc, fresh, edits, errs>>

-----------------------------------------------------------------------------
Users ==
  \/ \E w \in Worlds : EditConfigs(w)
  \/ \E s \in Secrets : EditSecret(s)
  \/ EditOperatorConfig
  \/ \E r \in Related : EditHardwareConfig(r)

PcStep == PcList \/ PcStatus \/ PcMap \/ PcSecrets \/ PcGet \/ PcUpdate
OcStep == OcStart \/ (\E p \in Allows \cup {Deny, Ntp} : OcPolicy(p)) \/ OcStalePolicies
            \/ OcGet \/ OcUpdate
HcStep == HcGet \/ HcStatus

OperatorNext == Users \/ PcStep \/ PcFails \/ OcStep \/ OcFails \/ HcStep

(* The work queue serves every request, and PtpOperatorConfig is resynced. *)
OperatorFairness == WF_operatorVars(PcStep) /\ WF_operatorVars(OcStep) /\ WF_operatorVars(HcStep)

OperatorSpec == OperatorInit /\ [][OperatorNext]_operatorVars /\ OperatorFairness

-----------------------------------------------------------------------------
(* A reference that two resources can answer goes to the first of the list. *)
Ambiguous ==
  {cs \in Worlds : \E c \in cs : \E p \in ToSet(Resource[c].profiles) : \E r \in p.refs :
     Cardinality({d \in cs : r \in ProfileNames(Resource[d])}) > 1}

(* What a node is given does not depend on the order in which the cache    *)
(* lists the resources (the sort of getRecommendProfiles), unless a bare   *)
(* reference names a profile of two resources: a node whose data changes   *)
(* restarts all its processes.                                             *)
NodeDataDetermined ==
  \A m \in cm : m.of \notin Ambiguous =>
    \A e \in NodeData : ToSet(e.list) = m.of => e.data = {m.data}

(* A mounted secret is unmounted only after the PtpConfig reconciler has   *)
(* found it missing or unreferenced: the other reconciler keeps it, also   *)
(* when it has read the DaemonSet before the mount                         *)
(* (MergeDaemonSetForUpdate, the version check of Write).                  *)
UnmountedByOwner ==
  [][\A d \in ds, e \in ds' : 
       \A s \in (d.vols \ e.vols) \cup (d.mounts \ e.mounts) :
         pc # pc' /\ s \notin pc.ds.vols]_operatorVars

(* Once users stop, the nodes get the profiles recommended by the current  *)
(* resources, and the DaemonSet is the one asked for with the volumes of   *)
(* exactly the secrets that exist and are referenced - whatever the order  *)
(* of the two reconcilers, their conflicts and errors - unless a           *)
(* recommendation names a profile that is in no resource, which keeps      *)
(* every node and every secret as it was.                                  *)
Blocked == {cs \in Worlds : \E e \in NodeData : ToSet(e.list) = cs /\ e.data = {}}

Converges ==
  <>[](/\ crs \notin Blocked => /\ \A m \in cm : m.of = crs
                      /\ \A d \in ds : d.vols = BaseVolumes \cup (References(crs) \cap secrets)
       /\ cm # {} /\ \E d \in ds : d.spec = spec
       /\ pols = Policies)

(* The status of a HardwareConfig ends up with "the PTP profile that was   *)
(* recommended for this node" (api/v2alpha1/hardwareconfig_types.go).      *)
HardwareStatusCurrent ==
  <>[](/\ hw.pairs = MatchedNodes(hw.related)
       /\ hw.pairs # {} => hw.profile = hw.related)
=============================================================================
