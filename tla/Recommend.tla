----------------------------- MODULE Recommend -----------------------------
(***************************************************************************)
(* What a node is given of the PtpConfig resources: controllers/           *)
(* recommend.go, the per-resource match of ptpconfig_controller.go and the *)
(* relations profile_status.go reports.  Pure operators.                   *)
(*                                                                         *)
(* A name is the sequence of its parts between underscores, so that        *)
(* qualification appends a part and strings.SplitN(name, "_", 2) is        *)
(* <<Head(name), Tail(name)>>.  A resource is                              *)
(*   [name, profiles : Seq([name, refs, phc2sys, secret, chronyd]),        *)
(*    recommend : set of [profile, priority, match]]                       *)
(* with refs the values of controllingProfile and haProfiles, and match    *)
(* the node names and labels of its rules.  A priority is required by the  *)
(* resource definition, so the nil priority of the sort does not occur.    *)
(***************************************************************************)
EXTENDS Integers, Sequences, FiniteSets, SequencesExt

CONSTANT NameOrder    \* every qualified name, in lexical order

Before(m, n) ==
  (CHOOSE i \in DOMAIN NameOrder : NameOrder[i] = m)
    < (CHOOSE i \in DOMAIN NameOrder : NameOrder[i] = n)

qualifyProfileName(cr, name) == <<cr>> \o name

ProfileNames(cfg) == {cfg.profiles[i].name : i \in DOMAIN cfg.profiles}

profileExistsInCR(cr, name, list) ==
  \E i \in DOMAIN list : list[i].name = cr /\ name \in ProfileNames(list[i])

(* The first resource of the list with a profile of that name. *)
Owners(name, list) == {i \in DOMAIN list : name \in ProfileNames(list[i])}

owningConfigName(name, list) == list[CHOOSE i \in Owners(name, list) :
                                      \A j \in Owners(name, list) : i <= j].name

AlreadyQualified(ref, list) ==
  Len(ref) >= 2 /\ profileExistsInCR(Head(ref), Tail(ref), list)

profileReferenceExists(ref, list) == AlreadyQualified(ref, list) \/ Owners(ref, list) # {}

resolveProfileReference(ref, list) ==
  IF AlreadyQualified(ref, list) \/ Owners(ref, list) = {} THEN ref
  ELSE qualifyProfileName(owningConfigName(ref, list), ref)

(* A rule without match is ignored: no node name or label is in it. *)
nodeMatches(node, r) == r.match \cap ({node.name} \cup node.labels) # {}

(* The names of the matching recommendations with the lowest number. *)
TopNames(recs, node) ==
  LET ms == {r \in recs : nodeMatches(node, r)}
  IN  {r.profile : r \in {x \in ms : \A y \in ms : x.priority <= y.priority}}

getRecommendProfilesNames(list, node) ==
  TopNames(UNION {list[i].recommend : i \in DOMAIN list}, node)

(* What the node is given of one profile. *)
Given(cfg, p, list) ==
  [name |-> qualifyProfileName(cfg.name, p.name), phc2sys |-> p.phc2sys,
   refs |-> {resolveProfileReference(r, list) : r \in p.refs}]

(* The profiles the node is given, as <<resource, profile>> of the list.    *)
Chosen(list, node) ==
  {x \in UNION {{i} \X DOMAIN list[i].profiles : i \in DOMAIN list} :
     list[x[1]].profiles[x[2]].name \in getRecommendProfilesNames(list, node)}

(* Some recommended name belongs to no resource: an error for the node. *)
Missing(list, node) ==
  \E n \in getRecommendProfilesNames(list, node) : Owners(n, list) = {}

GivenName(list, x) == qualifyProfileName(list[x[1]].name, list[x[1]].profiles[x[2]].name)
ListedBefore(x, y) == x[1] < y[1] \/ (x[1] = y[1] /\ x[2] < y[2])

(* Mutant: the profiles stay in the order of the list. *)
SortsBefore_ListOrder(list, x, y) == ListedBefore(x, y)
(* The sort is stable: profiles of one name stay in the order of the list. *)
SortsBefore(list, x, y) ==
  \/ Before(GivenName(list, x), GivenName(list, y))
  \/ GivenName(list, x) = GivenName(list, y) /\ ListedBefore(x, y)

Place(list, node, x) == Cardinality({y \in Chosen(list, node) : SortsBefore(list, y, x)})

getRecommendProfiles(list, node) ==
  [n \in 1..Cardinality(Chosen(list, node)) |->
     CHOOSE p \in {Given(list[x[1]], list[x[1]].profiles[x[2]], list) :
                     x \in {y \in Chosen(list, node) : Place(list, node, y) = n - 1}} : TRUE]

(* getRecommendProfilesNamesForConfig: the same over one resource; what a  *)
(* status reports as its match list.                                       *)
MatchList(cfg, nodes) ==
  {<<node.name, qualifyProfileName(cfg.name, p)>> :
     node \in nodes, p \in ProfileNames(cfg)}
  \cap UNION {{<<node.name, qualifyProfileName(cfg.name, p)>> :
                 p \in TopNames(cfg.recommend, node)} : node \in nodes}

-----------------------------------------------------------------------------
relatedProfileMatches(listed, related, cr) ==
  listed = related \/ listed = qualifyProfileName(cr, related)
                   \/ related = qualifyProfileName(cr, listed)

profileReferencesValid(cfg, list) ==
  \A i \in DOMAIN cfg.profiles : \A r \in cfg.profiles[i].refs : profileReferenceExists(r, list)

(* detectWarnings: the nodes on which two profiles run phc2sys, as far as  *)
(* the match lists tell.                                                   *)
Phc2sysOn(list, nodes) ==
  UNION {{x \in MatchList(list[i], nodes) :
            \E k \in DOMAIN list[i].profiles :
               /\ list[i].profiles[k].phc2sys
               /\ relatedProfileMatches(x[2], list[i].profiles[k].name, list[i].name)} :
         i \in DOMAIN list}

detectWarnings(cfg, list, nodes) ==
  {x \in Phc2sysOn(list, nodes) :
     \E y, z \in Phc2sysOn(list, nodes) :
        y # z /\ y[1] = x[1] /\ z[1] = x[1] /\ Head(y[2]) = cfg.name}
=============================================================================
