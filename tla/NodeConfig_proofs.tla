------------------------- MODULE NodeConfig_proofs -------------------------
(***************************************************************************)
(* Theorems about how a node configuration becomes running processes, for  *)
(* every set of contents and HardwareConfigs, every set of writers and     *)
(* every capacity of UpdateCh.                                             *)
(***************************************************************************)
EXTENDS NodeConfig, Data_proofs

-----------------------------------------------------------------------------
(* The sort of the profiles.                                               *)

(* Profiles with names of their own.                                       *)
AreProfiles(s) ==
  /\ IsSeq(s)
  /\ \A k \in 1..Len(s) :
       /\ DOMAIN s[k] = {"conf", "up", "controlled"}
       /\ s[k].conf.name \in Nat /\ s[k].conf.phc2sys \in BOOLEAN
  /\ \A j, k \in 1..Len(s) : s[j].conf.name = s[k].conf.name => j = k

SameConf(s, t) == Len(s) = Len(t) /\ \A k \in 1..Len(s) : s[k].conf = t[k].conf
Ordered(s) == \A i, j \in 1..Len(s) : i < j => ProfileBefore(s[i], s[j])

LEMMA StrictOrder ==
  ASSUME NEW s, AreProfiles(s)
  PROVE  \A i, j, k \in 1..Len(s) :
           /\ ~ProfileBefore(s[i], s[i])
           /\ ProfileBefore(s[i], s[j]) => ~ProfileBefore(s[j], s[i])
           /\ ProfileBefore(s[i], s[j]) /\ ProfileBefore(s[j], s[k]) => ProfileBefore(s[i], s[k])
           /\ i # j => ProfileBefore(s[i], s[j]) \/ ProfileBefore(s[j], s[i])
BY DEF AreProfiles, ProfileBefore

(* The rank of a profile is a place of its own, and Sorted puts it there.  *)
LEMMA RankPlaces ==
  ASSUME NEW s, AreProfiles(s)
  PROVE  LET D == 1..Len(s)
         IN  /\ \A i \in D : Rank(s, i) \in D
             /\ \A i, j \in D : ProfileBefore(s[i], s[j]) => Rank(s, i) < Rank(s, j)
             /\ \A i, j \in D : Rank(s, i) = Rank(s, j) => i = j
             /\ \A r \in D : \E i \in D : Rank(s, i) = r
<1> DEFINE D == 1..Len(s)
           Lower(i) == {j \in D : ProfileBefore(s[j], s[i])}
           rank == [i \in D |-> Rank(s, i)]
<1>0. Len(s) \in Nat /\ DOMAIN s = D
  BY SeqFacts DEF AreProfiles
<1>1. IsFiniteSet(D) /\ Cardinality(D) = Len(s)
  <2>1. Cardinality(1..Len(s)) = IF 1 > Len(s) THEN 0 ELSE Len(s) - 1 + 1
    BY <1>0, FS_Interval
  <2> QED BY <1>0, <2>1, FS_Interval
<1>2. ASSUME NEW i \in D
      PROVE  IsFiniteSet(Lower(i)) /\ Cardinality(Lower(i)) \in Nat /\ Cardinality(Lower(i)) < Len(s)
  <2>1. i \notin Lower(i) /\ Lower(i) \in SUBSET D
    BY StrictOrder
  <2>2. IsFiniteSet(Lower(i)) /\ Cardinality(Lower(i)) <= Cardinality(D) /\ Cardinality(Lower(i)) # Cardinality(D)
    BY <1>1, <2>1, FS_Subset
  <2>3. Cardinality(Lower(i)) \in Nat
    BY <2>2, FS_CardinalityType
  <2> QED BY <1>0, <1>1, <2>2, <2>3
<1>3. \A i \in D : Rank(s, i) = 1 + Cardinality(Lower(i))
  BY <1>0 DEF Rank
<1>4. ASSUME NEW i \in D, NEW j \in D, ProfileBefore(s[i], s[j])
      PROVE  Rank(s, i) < Rank(s, j)
  <2>1. i \in Lower(j) /\ i \notin Lower(i) /\ Lower(i) \subseteq Lower(j)
    BY <1>4, StrictOrder
  <2>2. Cardinality(Lower(i)) <= Cardinality(Lower(j)) /\ Cardinality(Lower(i)) # Cardinality(Lower(j))
    BY <1>2, <2>1, FS_Subset
  <2> HIDE DEF Lower
  <2> QED BY <1>2, <1>3, <2>2
<1>5. \A i \in D : Rank(s, i) \in D
  <2> HIDE DEF Lower
  <2> QED BY <1>0, <1>2, <1>3
<1>6. rank \in [D -> D] /\ \A i, j \in D : i # j => rank[i] # rank[j]
  BY <1>0, <1>4, <1>5, StrictOrder
<1> HIDE DEF rank
<1>7. rank \in Injection(D, D)
  BY <1>6 DEF Injection, IsInjective
<1>8. rank \in Surjection(D, D)
  BY <1>1, <1>7, FS_Injection
<1>9. \A r \in D : \E i \in D : rank[i] = r
  BY <1>8 DEF Surjection
<1> QED BY <1>4, <1>5, <1>6, <1>9 DEF rank

LEMMA SortedOrders ==
  ASSUME NEW s, AreProfiles(s)
  PROVE  LET t == Sorted(s)
         IN  /\ IsSeq(t) /\ Len(t) = Len(s) /\ AreProfiles(t) /\ Ordered(t)
             /\ NamesOf(t) = NamesOf(s)
<1> DEFINE D == 1..Len(s)
           at == [r \in D |-> CHOOSE k \in D : Rank(s, k) = r]
           t == Sorted(s)
<1>0. Len(s) \in Nat /\ DOMAIN s = D
  BY SeqFacts DEF AreProfiles
<1>1. \A r \in D : at[r] \in D /\ Rank(s, at[r]) = r
  BY RankPlaces
<1>2. t = [r \in D |-> s[at[r]]]
  BY <1>0 DEF Sorted
<1> HIDE DEF at, t
<1>3. IsSeq(t) /\ Len(t) = Len(s)
  BY <1>0, <1>2, Tabulated
<1>4. \A i, j \in D : i # j => at[i] # at[j]
  BY <1>1
<1>5. AreProfiles(t)
  BY <1>1, <1>2, <1>3, <1>4 DEF AreProfiles
<1>6. Ordered(t)
  <2> SUFFICES ASSUME NEW i \in D, NEW j \in D, i < j PROVE ProfileBefore(s[at[i]], s[at[j]])
    BY <1>2, <1>3 DEF Ordered
  <2>1. at[i] \in D /\ at[j] \in D /\ ~(Rank(s, at[j]) < Rank(s, at[i]))
    BY <1>0, <1>1
  <2>2. ~ProfileBefore(s[at[j]], s[at[i]])
    BY <2>1, RankPlaces
  <2> QED BY <1>0, <1>4, <2>1, <2>2, StrictOrder
<1>7. \A k \in D : \E r \in D : at[r] = k
  <2> TAKE k \in D
  <2>1. Rank(s, k) \in D
    BY RankPlaces
  <2>2. at[Rank(s, k)] = k
    <3>1. \A j \in D : Rank(s, j) = Rank(s, k) => j = k
      BY RankPlaces
    <3> QED BY <1>1, <2>1, <3>1
  <2> QED BY <2>1, <2>2
<1>8. NamesOf(t) = NamesOf(s)
  BY <1>0, <1>1, <1>2, <1>7 DEF NamesOf
<1> QED BY <1>3, <1>5, <1>6, <1>8 DEF t

(* A list in order stays as it is; of two lists with the same contents it  *)
(* makes lists with the same contents.                                     *)
LEMMA OrderedStays ==
  ASSUME NEW s, AreProfiles(s), Ordered(s)
  PROVE  SameConf(Sorted(s), s)
<1> DEFINE D == 1..Len(s)
<1>0. Len(s) \in Nat /\ DOMAIN s = D
  BY SeqFacts DEF AreProfiles
<1>1. ASSUME NEW k \in D PROVE Rank(s, k) = k
  <2>1. {j \in D : ProfileBefore(s[j], s[k])} = 1..(k - 1)
    BY <1>0, StrictOrder DEF Ordered
  <2>2. Cardinality(1..(k - 1)) = IF 1 > k - 1 THEN 0 ELSE k - 1 - 1 + 1
    BY <1>0, FS_Interval
  <2>3. Cardinality(1..(k - 1)) = k - 1
    BY <1>0, <2>2
  <2>4. Rank(s, k) = 1 + Cardinality({j \in D : ProfileBefore(s[j], s[k])})
    BY <1>0 DEF Rank
  <2>5. k \in Nat
    BY <1>0
  <2>6. Rank(s, k) = 1 + Cardinality(1..(k - 1))
    BY <2>1, <2>4, Zenon
  <2> QED BY <2>3, <2>5, <2>6
<1>2. \A r \in D : (CHOOSE k \in D : Rank(s, k) = r) = r
  BY <1>1
<1>3. Sorted(s) = [r \in D |-> s[CHOOSE k \in D : Rank(s, k) = r]]
  BY <1>0 DEF Sorted
<1>4. \A r \in D : Sorted(s)[r] = s[r]
  BY <1>2, <1>3
<1>5. Len(Sorted(s)) = Len(s)
  BY SortedOrders
<1> QED BY <1>4, <1>5 DEF SameConf

LEMMA SortedSame ==
  ASSUME NEW s, AreProfiles(s), NEW t, AreProfiles(t), SameConf(s, t)
  PROVE  SameConf(Sorted(s), Sorted(t))
<1> DEFINE D == 1..Len(s)
<1>0. Len(s) \in Nat /\ DOMAIN s = D /\ DOMAIN t = D /\ Len(t) = Len(s)
  BY SeqFacts DEF AreProfiles, SameConf
<1>1. \A k \in D : {j \in D : ProfileBefore(s[j], s[k])} = {j \in D : ProfileBefore(t[j], t[k])}
  BY <1>0 DEF SameConf, ProfileBefore
<1>2. \A k \in D : Rank(s, k) = Rank(t, k)
  BY <1>0, <1>1 DEF Rank
<1>3. \A r \in D : \A i, j \in D : Rank(s, i) = r /\ Rank(t, j) = r => i = j
  BY <1>2, RankPlaces
<1>4. ASSUME NEW r \in D PROVE Sorted(s)[r].conf = Sorted(t)[r].conf
  <2>1. PICK i \in D : i = CHOOSE k \in D : Rank(s, k) = r
    BY RankPlaces
  <2>2. PICK j \in D : j = CHOOSE k \in D : Rank(t, k) = r
    BY <1>0, RankPlaces
  <2>3. Rank(s, i) = r
    BY <2>1, RankPlaces
  <2>4. Rank(t, j) = r
    BY <1>0, <2>2, RankPlaces
  <2>5. Sorted(s)[r] = s[i]
    BY <1>0, <2>1 DEF Sorted
  <2>6. Sorted(t)[r] = t[j]
    BY <1>0, <2>2 DEF Sorted
  <2> QED BY <1>0, <1>3, <2>3, <2>4, <2>5, <2>6 DEF SameConf
<1>5. Len(Sorted(s)) = Len(s) /\ Len(Sorted(t)) = Len(s)
  BY <1>0, SortedOrders
<1> QED BY <1>4, <1>5 DEF SameConf

(* A list that differs in its settings only.                               *)
LEMMA SameKept ==
  ASSUME NEW s, AreProfiles(s), NEW t, IsSeq(t), SameConf(t, s),
         \A k \in 1..Len(t) : DOMAIN t[k] = {"conf", "up", "controlled"}
  PROVE  /\ AreProfiles(t) /\ NamesOf(t) = NamesOf(s)
         /\ Ordered(s) => Ordered(t)
         /\ \A u : SameConf(s, u) => SameConf(t, u)
<1>0. Len(s) \in Nat /\ Len(t) = Len(s) /\ DOMAIN s = 1..Len(s) /\ DOMAIN t = 1..Len(s)
  BY SeqFacts DEF AreProfiles, SameConf
<1>1. \A k \in 1..Len(s) : t[k].conf = s[k].conf
  BY <1>0 DEF SameConf
<1>2. AreProfiles(t)
  BY <1>0, <1>1 DEF AreProfiles
<1>3. NamesOf(t) = NamesOf(s)
  BY <1>0, <1>1 DEF NamesOf
<1>4. Ordered(s) => Ordered(t)
  BY <1>0, <1>1 DEF Ordered, ProfileBefore
<1>5. \A u : SameConf(s, u) => SameConf(t, u)
  BY <1>0, <1>1 DEF SameConf
<1> QED BY <1>2, <1>3, <1>4, <1>5

LEMMA LoadedProfiles ==
  ASSUME NEW content \in Contents
  PROVE  AreProfiles(Loaded(content)) /\ Len(Loaded(content)) = Len(content)
<1> DEFINE s == Loaded(content)
<1>0. Len(content) \in Nat /\ DOMAIN content = 1..Len(content)
  BY NodeConfigAssumption
<1>1. s = [k \in 1..Len(content) |-> [conf |-> content[k], up |-> content[k].up, controlled |-> None]]
  BY <1>0 DEF Loaded
<1>2. DOMAIN s = 1..Len(content) /\ \A k \in 1..Len(content) : DOMAIN s[k] = {"conf", "up", "controlled"} /\ s[k].conf = content[k]
  BY <1>1
<1>3. s = [k \in 1..Len(content) |-> s[k]]
  BY <1>1
<1> HIDE DEF s
<1>4. IsSeq(s) /\ Len(s) = Len(content)
  BY <1>0, <1>2, <1>3, Tabulated
<1>5. \A k \in 1..Len(content) : content[k].name \in Nat /\ content[k].phc2sys \in BOOLEAN
  BY <1>0, NodeConfigAssumption
<1>6. \A j, k \in 1..Len(content) : content[j].name = content[k].name => j = k
  BY <1>0, NodeConfigAssumption
<1>7. AreProfiles(s)
  BY <1>2, <1>4, <1>5, <1>6 DEF AreProfiles
<1> QED BY <1>4, <1>7 DEF s

LEMMA NoProfiles ==
  IsSeq(<<>>) /\ Len(<<>>) = 0 /\ AreProfiles(<<>>) /\ Ordered(<<>>) /\ NamesOf(<<>>) = {}
<1>1. IsSeq(<<>>) /\ Len(<<>>) = 0
  BY DEF IsSeq
<1> QED BY <1>1 DEF AreProfiles, Ordered, NamesOf

(* What ApplyTopology and ApplyProfile do to NodeProfiles.                 *)
Relabels(t, s, related) ==
  t = [k \in DOMAIN s |-> IF s[k].conf.name \in DOMAIN related
                          THEN [s[k] EXCEPT !.controlled = related[s[k].conf.name]]
                          ELSE s[k]]
LEMMA Relabelled ==
  ASSUME NEW s, AreProfiles(s), NEW related, NEW t, Relabels(t, s, related)
  PROVE  /\ IsSeq(t) /\ SameConf(t, s)
         /\ \A k \in 1..Len(t) : DOMAIN t[k] = {"conf", "up", "controlled"}
<1>0. Len(s) \in Nat /\ DOMAIN s = 1..Len(s)
  BY SeqFacts DEF AreProfiles
<1>1. DOMAIN t = 1..Len(s) /\ t = [k \in 1..Len(s) |-> t[k]]
  BY <1>0 DEF Relabels
<1>2. \A k \in 1..Len(s) : DOMAIN t[k] = {"conf", "up", "controlled"} /\ t[k].conf = s[k].conf
  BY <1>0 DEF AreProfiles, Relabels
<1>3. IsSeq(t) /\ Len(t) = Len(s)
  BY <1>0, <1>1, Tabulated
<1>4. SameConf(t, s) /\ \A k \in 1..Len(t) : DOMAIN t[k] = {"conf", "up", "controlled"}
  BY <1>2, <1>3 DEF SameConf
<1> QED BY <1>3, <1>4

LEMMA HardwareSet ==
  ASSUME NEW s, AreProfiles(s), NEW i \in 1..Len(s), NEW hs, NEW t,
         t = [s EXCEPT ![i] = initHardware(s[i], hs)]
  PROVE  /\ IsSeq(t) /\ SameConf(t, s)
         /\ \A k \in 1..Len(t) : DOMAIN t[k] = {"conf", "up", "controlled"}
<1> DEFINE p == initHardware(s[i], hs)
<1>0. Len(s) \in Nat /\ DOMAIN s = 1..Len(s)
  BY SeqFacts DEF AreProfiles
<1>1. DOMAIN p = {"conf", "up", "controlled"} /\ p.conf = s[i].conf
  BY DEF AreProfiles, initHardware, populatePtpSettingsFromHardware
<1>2. DOMAIN t = 1..Len(s) /\ t = [k \in 1..Len(s) |-> t[k]]
  BY <1>0
<1>3. \A k \in 1..Len(s) : DOMAIN t[k] = {"conf", "up", "controlled"} /\ t[k].conf = s[k].conf
  BY <1>0, <1>1 DEF AreProfiles
<1>4. IsSeq(t) /\ Len(t) = Len(s)
  BY <1>0, <1>2, Tabulated
<1>5. SameConf(t, s) /\ \A k \in 1..Len(t) : DOMAIN t[k] = {"conf", "up", "controlled"}
  BY <1>3, <1>4 DEF SameConf
<1> QED BY <1>4, <1>5

(* The topology numbers the profiles by their places.                      *)
LEMMA NumberedByPlace ==
  ASSUME NEW s, AreProfiles(s), NEW k \in 1..Len(s)
  PROVE  RunID(NewProfileTopology(s), s[k].conf.name) = k
<1>0. DOMAIN s = 1..Len(s) /\ Len(s) \in Nat
  BY SeqFacts DEF AreProfiles
<1> DEFINE n == s[k].conf.name
           LastOf(i) == s[i].conf.name = n /\ \A j \in DOMAIN s : s[j].conf.name = n => j <= i
           topo == NewProfileTopology(s)
<1>1. \A i \in DOMAIN s : LastOf(i) <=> i = k
  BY <1>0 DEF AreProfiles
<1>2. (CHOOSE i \in DOMAIN s : LastOf(i)) = k
  BY <1>0, <1>1
<1>3. n \in NamesOf(s)
  BY <1>0 DEF NamesOf
<1>4. n \in DOMAIN topo.runID /\ topo.runID[n] = CHOOSE i \in DOMAIN s : LastOf(i)
  BY <1>3 DEF NewProfileTopology
<1> QED BY <1>2, <1>4 DEF RunID

-----------------------------------------------------------------------------
(* The inductive invariant.                                                *)

WriterTypes ==
  /\ file \in Contents \cup {Bad} /\ remembered \in Contents \cup {None}
  /\ updateCh \in Nat /\ blocked \in Nat
  /\ upd \in [Writers -> [pc : {"idle", "compare", "profiles", "send"},
                          json : Contents \cup {Bad, <<>>}, auth : BOOLEAN]]
  /\ \A w \in Writers : upd[w].pc = "idle" => ~upd[w].auth
  /\ \A w \in Writers : upd[w].pc # "idle" => upd[w].json \in Contents \cup {Bad}
  /\ \A w \in Writers : upd[w].pc \in {"profiles", "send"} => upd[w].json \in Contents
ApplyTypes ==
  /\ DOMAIN apply = {"pc", "i", "n", "topo", "built"}
  /\ apply.pc \in {"idle", "topology", "profiles"} /\ apply.i \in Nat /\ apply.n \in Nat
  /\ apply.pc = "profiles" => apply.i >= 1
  /\ IsSeq(apply.built)
  /\ AreProfiles(profiles)
NodeTypes == WriterTypes /\ ApplyTypes

(* Another apply will come, or has been asked for.                         *)
Pending == updateCh > 0 \/ blocked > 0 \/ \E w \in Writers : upd[w].pc = "send"

(* What is remembered is what NodeProfiles holds, as it was loaded or      *)
(* sorted, unless the one writer between the assignments still has it.     *)
Holds(ps, content) == SameConf(ps, Loaded(content)) \/ SameConf(ps, Sorted(Loaded(content)))
ConfInv ==
  ~raced =>
    /\ \A v, w \in Writers : upd[v].pc = "profiles" /\ upd[w].pc = "profiles" => v = w
    /\ \A w \in Writers : upd[w].pc = "profiles" => upd[w].json = remembered
    /\ (\A w \in Writers : upd[w].pc # "profiles") =>
         IF remembered = None THEN profiles = <<>> ELSE Holds(profiles, remembered)

(* An apply after which none is pending works on NodeProfiles in their     *)
(* order, and has built the processes of the first ones.                   *)
ProcessOf(r, ps, k) == r.name = ps[k].conf.name /\ r.conf = ps[k].conf /\ r.run = k
Processes(ps) ==
  {[name |-> ps[k].conf.name, conf |-> ps[k].conf, run |-> k] : k \in 1..Len(ps)}
Built ==
  /\ apply.n = Len(profiles) /\ apply.i \in 1..(apply.n + 1) /\ Len(apply.built) = apply.i - 1
  /\ \A k \in 1..Len(profiles) : RunID(apply.topo, profiles[k].conf.name) = k
  /\ \A k \in 1..Len(apply.built) : ProcessOf(apply.built[k], profiles, k)
RunInv ==
  /\ apply.pc # "idle" \/ failed => running = {}
  /\ apply.pc # "idle" => ~failed
  /\ apply.pc # "profiles" => apply.built = <<>>
  /\ ~Pending =>
       /\ Ordered(profiles)
       /\ apply.pc = "profiles" => Built
       /\ apply.pc = "idle" /\ ~failed => Started = Processes(profiles)

(* The last change that the watcher reported is still on its way, or all   *)
(* is built with it or a later one.                                        *)
SecTypes == secret \in Nat /\ noticed \in Nat /\ noticed <= secret
SecInv ==
  \/ flagLost \/ updateCh > 0 \/ OnItsWay
  \/ /\ \A r \in running : r.sec >= noticed
     /\ \A k \in 1..Len(apply.built) : apply.built[k].sec >= noticed

(* The manager holds what the reconciler remembers, but for the update in  *)
(* progress.  What is running or built knows its HardwareConfigs, or a     *)
(* restart is due because of a profile that is there.                      *)
OneSpec(hs) == \A g, h \in hs : g.name = h.name => g = h
Fresh(r) ==
  \/ HwOf(hwConfigs, r.name) = {} \/ r.hw = HwOf(hwConfigs, r.name)
  \/ /\ hw.pc = "restart"
     /\ \E h \in Diff(hw.old, hw.new) : h.spec.profile \in NamesOf(profiles)
Current(r) ==
  /\ r.name \in NamesOf(profiles) /\ ptpConfig = NamesOf(profiles)
  /\ Fresh(r)
AllCurrent ==
  /\ apply.pc # "idle" => profiles = <<>> \/ ptpConfig = NamesOf(profiles)
  /\ \A r \in running : Current(r)
  /\ \A k \in 1..Len(apply.built) : Current(apply.built[k])
HwInv ==
  /\ DOMAIN hw = {"pc", "new", "old"} /\ hw.pc \in {"idle", "update", "restart"}
  /\ OneSpec(crs) /\ OneSpec(lastApplied) /\ OneSpec(hwConfigs)
  /\ hw.pc # "update" => hwConfigs = lastApplied
  /\ hw.pc = "restart" => hw.new = hwConfigs
  /\ hw.pc = "update" => hw.old = hwConfigs /\ hw.new = lastApplied
  /\ ~Pending => AllCurrent

NodeInv == NodeTypes /\ ConfInv /\ RunInv /\ SecTypes /\ SecInv /\ HwInv

LEMMA NodeInit == Init => NodeInv
<1> SUFFICES ASSUME Init PROVE NodeInv
  OBVIOUS
<1>1. NodeTypes
  BY NoProfiles, NodeConfigAssumption DEF Init, NodeTypes, WriterTypes, ApplyTypes, NoUpd, NoApply
<1>2. ConfInv
  BY DEF Init, ConfInv, NoUpd
<1>3. RunInv
  BY NoProfiles DEF Init, RunInv, NoApply, Started, Processes
<1>4. SecTypes /\ SecInv
  BY NoProfiles DEF Init, SecTypes, SecInv, NoApply
<1>5. HwInv
  BY NoProfiles DEF Init, HwInv, AllCurrent, NoApply, NoHw, OneSpec
<1> QED BY <1>1, <1>2, <1>3, <1>4, <1>5 DEF NodeInv

(* A restart of the pod begins again with the files that are there.        *)
LEMMA NodeRestarts ==
  ASSUME NodeInv, Restarted
  PROVE  NodeInv'
<1>1. NodeTypes'
  BY NoProfiles, NodeConfigAssumption DEF NodeInv, Restarted, NodeTypes, WriterTypes, ApplyTypes, NoUpd, NoApply
<1>2. ConfInv'
  BY DEF Restarted, ConfInv, NoUpd
<1>3. RunInv'
  BY NoProfiles DEF Restarted, RunInv, NoApply, Started, Processes
<1>4. SecTypes' /\ SecInv'
  BY NoProfiles DEF NodeInv, Restarted, SecTypes, SecInv, NoApply
<1>5. HwInv'
  BY NoProfiles DEF NodeInv, Restarted, HwInv, AllCurrent, NoApply, NoHw, OneSpec
<1> QED BY <1>1, <1>2, <1>3, <1>4, <1>5 DEF NodeInv

(* What an apply makes of NodeProfiles.                                    *)
LEMMA TopologyShape ==
  ASSUME NodeTypes, ApplyTopology, apply'.pc = "profiles"
  PROVE  /\ IsSeq(profiles') /\ SameConf(profiles', profiles)
         /\ \A k \in 1..Len(profiles') : DOMAIN profiles'[k] = {"conf", "up", "controlled"}
         /\ apply' = [apply EXCEPT !.pc = "profiles", !.i = 1, !.n = Len(profiles),
                                   !.topo = NewProfileTopology(profiles)]
         /\ UNCHANGED failed
<1>1. PICK topo : topo = NewProfileTopology(profiles)
  OBVIOUS
<1>2. /\ profiles' = [k \in DOMAIN profiles |->
           IF profiles[k].conf.name \in DOMAIN topo.related
           THEN [profiles[k] EXCEPT !.controlled = topo.related[profiles[k].conf.name]]
           ELSE profiles[k]]
      /\ apply' = [apply EXCEPT !.pc = "profiles", !.i = 1, !.n = Len(profiles), !.topo = topo]
      /\ UNCHANGED failed
  BY <1>1 DEF ApplyTopology, Fail, NoApply
<1>3. PICK s : s = profiles
  OBVIOUS
<1>4. PICK t : t = profiles'
  OBVIOUS
<1>5. AreProfiles(s)
  BY <1>3 DEF NodeTypes, ApplyTypes
<1>5a. PICK related : related = topo.related
  OBVIOUS
<1>6. Relabels(t, s, related)
  BY <1>2, <1>3, <1>4, <1>5a DEF Relabels
<1>7. /\ IsSeq(t) /\ SameConf(t, s)
      /\ \A k \in 1..Len(t) : DOMAIN t[k] = {"conf", "up", "controlled"}
  BY <1>5, <1>6, Relabelled
<1> QED BY <1>1, <1>2, <1>3, <1>4, <1>7

LEMMA ProfileShape ==
  ASSUME NodeTypes, ApplyProfile
  PROVE  /\ IsSeq(profiles') /\ SameConf(profiles', profiles)
         /\ \A k \in 1..Len(profiles') : DOMAIN profiles'[k] = {"conf", "up", "controlled"}
         /\ apply.i \in 1..Len(profiles)
         /\ \/ /\ apply' = NoApply /\ failed' = TRUE
            \/ \E p : /\ p.conf = profiles[apply.i].conf
                      /\ apply' = [apply EXCEPT !.i = @ + 1,
                           !.built = Append(@, createProcesses(p, apply.topo, hwConfigs, secret))]
                      /\ UNCHANGED failed
<1>1. PICK p : p = initHardware(profiles[apply.i], hwConfigs)
  OBVIOUS
<1>2. PICK s : s = profiles
  OBVIOUS
<1>3. PICK t : t = profiles'
  OBVIOUS
<1>4. PICK i : i = apply.i
  OBVIOUS
<1>5. PICK hs : hs = hwConfigs
  OBVIOUS
<1>6. AreProfiles(s) /\ Len(s) \in Nat
  BY <1>2, SeqFacts DEF NodeTypes, ApplyTypes, AreProfiles
<1>7. i \in 1..Len(s)
  BY <1>2, <1>4, <1>6 DEF NodeTypes, ApplyTypes, ApplyProfile
<1>8. t = [s EXCEPT ![i] = initHardware(s[i], hs)]
  BY <1>2, <1>3, <1>4, <1>5 DEF ApplyProfile
<1>9. /\ IsSeq(t) /\ SameConf(t, s)
      /\ \A k \in 1..Len(t) : DOMAIN t[k] = {"conf", "up", "controlled"}
  BY <1>6, <1>7, <1>8, HardwareSet
<1>10. p.conf = profiles[apply.i].conf
  BY <1>1, <1>2, <1>4, <1>6, <1>7 DEF AreProfiles, initHardware, populatePtpSettingsFromHardware
<1>11. \/ apply' = NoApply /\ failed' = TRUE
       \/ /\ apply' = [apply EXCEPT !.i = @ + 1,
               !.built = Append(@, createProcesses(p, apply.topo, hwConfigs, secret))]
          /\ UNCHANGED failed
  BY <1>1 DEF ApplyProfile, Fail
<1> QED BY <1>2, <1>3, <1>4, <1>7, <1>9, <1>10, <1>11

LEMMA ProfilesKept ==
  ASSUME AreProfiles(profiles), IsSeq(profiles'), SameConf(profiles', profiles),
         \A k \in 1..Len(profiles') : DOMAIN profiles'[k] = {"conf", "up", "controlled"}
  PROVE  /\ AreProfiles(profiles') /\ NamesOf(profiles') = NamesOf(profiles)
         /\ Ordered(profiles) => Ordered(profiles')
         /\ \A u : SameConf(profiles, u) => SameConf(profiles', u)
         /\ Len(profiles') = Len(profiles) /\ Len(profiles) \in Nat
         /\ \A k \in 1..Len(profiles) : profiles'[k].conf = profiles[k].conf
<1>1. PICK s : s = profiles
  OBVIOUS
<1>2. PICK t : t = profiles'
  OBVIOUS
<1>3. /\ AreProfiles(s) /\ IsSeq(t) /\ SameConf(t, s)
      /\ \A k \in 1..Len(t) : DOMAIN t[k] = {"conf", "up", "controlled"}
  BY <1>1, <1>2
<1>4. /\ AreProfiles(t) /\ NamesOf(t) = NamesOf(s)
      /\ Ordered(s) => Ordered(t)
      /\ \A u : SameConf(s, u) => SameConf(t, u)
  BY <1>3, SameKept
<1>5. Len(t) = Len(s) /\ Len(s) \in Nat /\ \A k \in 1..Len(s) : t[k].conf = s[k].conf
  BY <1>3, SeqFacts DEF AreProfiles, SameConf
<1> QED BY <1>1, <1>2, <1>4, <1>5

LEMMA ApplyTypesNext ==
  ASSUME NodeTypes, [Next]_vars
  PROVE  ApplyTypes' \/ Restarted
<1>0. ApplyTypes /\ WriterTypes
  BY DEF NodeTypes
<1>1. CASE ApplyStart
  <2>1. AreProfiles(profiles')
    BY <1>0, <1>1, SortedOrders DEF ApplyStart, ApplyTypes
  <2> QED BY <1>1, <2>1, NoProfiles DEF ApplyStart, NoApply, ApplyTypes
<1>2. CASE ApplyTopology
  <2>1. CASE apply'.pc = "profiles"
    <3>1. AreProfiles(profiles')
      BY <1>0, <1>2, <2>1, TopologyShape, ProfilesKept DEF ApplyTypes
    <3>2. Len(profiles) \in Nat
      BY <1>0, SeqFacts DEF AreProfiles, ApplyTypes
    <3>3. apply' = [apply EXCEPT !.pc = "profiles", !.i = 1, !.n = Len(profiles),
                                   !.topo = NewProfileTopology(profiles)]
      BY <1>2, <2>1, TopologyShape
    <3> QED BY <1>0, <3>1, <3>2, <3>3 DEF ApplyTypes
  <2>2. CASE apply'.pc # "profiles"
    <3>1. apply' = NoApply /\ profiles' = profiles
      BY <1>0, <1>2, <2>2 DEF ApplyTopology, Fail, ApplyTypes
    <3> QED BY <1>0, <3>1, NoProfiles DEF NoApply, ApplyTypes
  <2> QED BY <2>1, <2>2
<1>3. CASE ApplyProfile
  <2>1. AreProfiles(profiles')
    BY <1>0, <1>3, ProfileShape, ProfilesKept DEF ApplyTypes
  <2>2. CASE apply' = NoApply
    BY <2>1, <2>2, NoProfiles DEF NoApply, ApplyTypes
  <2>3. CASE apply' # NoApply
    <3>1. PICK p : apply' = [apply EXCEPT !.i = @ + 1,
                       !.built = Append(@, createProcesses(p, apply.topo, hwConfigs, secret))]
      BY <1>3, <2>3, ProfileShape
    <3>2. PICK b : b = apply.built
      OBVIOUS
    <3>3. PICK x : x = createProcesses(p, apply.topo, hwConfigs, secret)
      OBVIOUS
    <3>4. IsSeq(Append(b, x))
      BY <1>0, <3>2, Appended DEF ApplyTypes
    <3>5. apply' = [apply EXCEPT !.i = @ + 1, !.built = Append(b, x)]
      BY <3>1, <3>2, <3>3
    <3>6. apply'.built = Append(b, x) /\ apply'.i = apply.i + 1 /\ apply'.pc = apply.pc
          /\ apply'.n = apply.n /\ DOMAIN apply' = {"pc", "i", "n", "topo", "built"}
      BY <1>0, <3>5 DEF ApplyTypes
    <3> QED BY <1>0, <2>1, <3>4, <3>6 DEF ApplyTypes
  <2> QED BY <2>2, <2>3
<1>4. CASE ApplyEnd
  BY <1>0, <1>4, NoProfiles DEF ApplyEnd, NoApply, confVars, ApplyTypes
<1>5. CASE ApplyPanics \/ PodRestarts
  BY <1>5 DEF ApplyPanics, PodRestarts
<1>6. ASSUME NEW w \in Writers, AssignProfiles(w) PROVE ApplyTypes'
  <2>1. AreProfiles(profiles')
    BY <1>0, <1>6, LoadedProfiles DEF AssignProfiles, WriterTypes
  <2> QED BY <1>0, <1>6, <2>1 DEF AssignProfiles, runVars, ApplyTypes
<1>7. CASE UNCHANGED <<apply, profiles>>
  BY <1>0, <1>7 DEF ApplyTypes
<1>8. CASE SendBlocked \/ SecretEvent \/ Hardware \/ EditFile \/ EditSecret \/ EditHardwareConfig
  BY <1>7, <1>8 DEF SendBlocked, SecretEvent, Hardware, HwList, HwUpdate, HwRestart, EditFile,
     EditSecret, EditHardwareConfig, runVars, confVars
<1>9. ASSUME NEW w \in Writers, ReadFile(w) \/ Compare(w) \/ Send(w) PROVE ApplyTypes' \/ Restarted
  BY <1>7, <1>9 DEF ReadFile, Compare, Send, runVars
<1> QED BY <1>1, <1>2, <1>3, <1>4, <1>5, <1>6, <1>7, <1>8, <1>9
        DEF Next, Daemon, World, Update, vars, runVars, confVars

LEMMA WriterTypesNext ==
  ASSUME NodeTypes, [Next]_vars
  PROVE  WriterTypes' \/ Restarted
<1>0. WriterTypes
  BY DEF NodeTypes
<1> USE <1>0 DEF WriterTypes
<1>1. CASE Daemon
  <2>1. CASE ApplyStart
    <3>1. updateCh' \in Nat
      BY <2>1 DEF ApplyStart
    <3> QED BY <2>1, <3>1 DEF ApplyStart, fileVars, secVars
  <2>2. CASE ApplyTopology
    BY <2>2 DEF ApplyTopology, Fail, fileVars, secVars
  <2>3. CASE ApplyProfile
    BY <2>3 DEF ApplyProfile, Fail, fileVars, secVars
  <2>4. CASE ApplyEnd
    BY <2>4 DEF ApplyEnd, fileVars, secVars, confVars
  <2>5. CASE ApplyPanics
    BY <2>5 DEF ApplyPanics
  <2> QED BY <1>1, <2>1, <2>2, <2>3, <2>4, <2>5 DEF Daemon
<1>2. CASE SendBlocked
  BY <1>2 DEF SendBlocked, fileVars, secVars, runVars
<1>3. CASE SecretEvent
  BY <1>3 DEF SecretEvent, fileVars, confVars, runVars
<1>4. CASE Hardware
  <2>1. CASE HwList
    BY <2>1 DEF HwList, fileVars, confVars, secVars, runVars
  <2>2. CASE HwUpdate
    BY <2>2 DEF HwUpdate, fileVars, confVars, secVars, runVars
  <2>3. CASE HwRestart
    <3>1. updateCh' \in Nat /\ blocked' \in Nat
      BY <2>3 DEF HwRestart
    <3> QED BY <2>3, <3>1 DEF HwRestart, fileVars, secVars, runVars
  <2> QED BY <1>4, <2>1, <2>2, <2>3 DEF Hardware
<1>5. CASE World
  BY <1>5 DEF World, EditFile, EditSecret, EditHardwareConfig, PodRestarts, confVars, secVars,
     runVars
<1>6. ASSUME NEW w \in Writers, ReadFile(w) PROVE WriterTypes'
  <2>1. PICK a \in BOOLEAN : upd' = [upd EXCEPT ![w] = [pc |-> "compare", json |-> file, auth |-> a]]
    BY <1>6 DEF ReadFile
  <2>2. UNCHANGED <<file, remembered, updateCh, blocked>>
    BY <1>6 DEF ReadFile
  <2> QED BY <2>1, <2>2
<1>7. ASSUME NEW w \in Writers, Compare(w) PROVE WriterTypes'
  <2>0. UNCHANGED <<file, updateCh, blocked>> /\ upd[w].pc = "compare"
    BY <1>7 DEF Compare, fileVars
  <2>1. CASE (Return(w, TRUE) \/ Return(w, FALSE)) /\ UNCHANGED remembered
    <3>1. upd' = [upd EXCEPT ![w] = [pc |-> "idle", json |-> <<>>, auth |-> FALSE]]
      BY <2>1 DEF Return, NoUpd
    <3> QED BY <2>0, <2>1, <3>1
  <2>2. CASE /\ upd[w].json # Bad /\ remembered' = upd[w].json
             /\ upd' = [upd EXCEPT ![w].pc = "profiles"]
    <3>1. upd[w].json \in Contents
      BY <2>0, <2>2
    <3> QED BY <2>0, <2>2, <3>1
  <2> QED BY <1>7, <2>1, <2>2 DEF Compare
<1>8. ASSUME NEW w \in Writers, AssignProfiles(w) PROVE WriterTypes'
  BY <1>8 DEF AssignProfiles, fileVars, secVars, runVars
<1>9. ASSUME NEW w \in Writers, Send(w) PROVE WriterTypes'
  BY <1>9 DEF Send, Return, NoUpd, fileVars, secVars, runVars
<1>10. CASE UNCHANGED vars
  BY <1>10 DEF vars, fileVars, secVars, runVars, confVars
<1> QED BY <1>1, <1>2, <1>3, <1>4, <1>5, <1>6, <1>7, <1>8, <1>9, <1>10 DEF Next, Update

-----------------------------------------------------------------------------
(* NodeProfiles and what is remembered of them.                            *)
LEMMA EmptyList ==
  ASSUME NEW s, IsSeq(s), Len(s) = 0
  PROVE  s = <<>>
<1>1. PICK S : s \in Seq(S)
  BY DEF IsSeq
<1> QED BY <1>1

LEMMA SameOnward ==
  ASSUME NEW s, NEW t, NEW u, SameConf(s, t), SameConf(t, u)
  PROVE  SameConf(s, u)
BY DEF SameConf

LEMMA HoldsSorted ==
  ASSUME NEW s, AreProfiles(s), NEW content \in Contents, Holds(s, content)
  PROVE  Holds(Sorted(s), content)
<1> DEFINE l == Loaded(content)
<1>1. AreProfiles(l)
  BY LoadedProfiles
<1>2. AreProfiles(Sorted(l)) /\ Ordered(Sorted(l))
  BY <1>1, SortedOrders
<1> HIDE DEF l
<1>3. CASE SameConf(s, l)
  <2>1. SameConf(Sorted(s), Sorted(l))
    BY <1>1, <1>3, SortedSame
  <2> QED BY <2>1 DEF Holds, l
<1>4. CASE SameConf(s, Sorted(l))
  <2>1. SameConf(Sorted(s), Sorted(Sorted(l)))
    BY <1>2, <1>4, SortedSame
  <2>2. SameConf(Sorted(Sorted(l)), Sorted(l))
    BY <1>2, OrderedStays
  <2>3. SameConf(Sorted(s), Sorted(l))
    BY <2>1, <2>2, SameOnward
  <2> QED BY <2>3 DEF Holds, l
<1> QED BY <1>3, <1>4 DEF Holds, l

LEMMA ConfKept ==
  ASSUME NodeInv, UNCHANGED <<remembered, upd, raced>>,
         profiles = <<>> => profiles' = <<>>,
         \A content \in Contents : Holds(profiles, content) => Holds(profiles', content)
  PROVE  ConfInv'
BY DEF NodeInv, NodeTypes, WriterTypes, ConfInv

LEMMA ConfNext ==
  ASSUME NodeInv, [Next]_vars
  PROVE  ConfInv' \/ Restarted
<1>0. NodeTypes /\ WriterTypes /\ ApplyTypes /\ ConfInv /\ AreProfiles(profiles)
  BY DEF NodeInv, NodeTypes, ApplyTypes
<1>1. CASE ApplyStart
  <2>1. PICK s : s = profiles
    OBVIOUS
  <2>2. profiles' = Sorted(s) /\ AreProfiles(s)
    BY <1>0, <1>1, <2>1 DEF ApplyStart
  <2>3. s = <<>> => Sorted(s) = <<>>
    BY <2>2, SortedOrders, NoProfiles, EmptyList
  <2>4. \A content \in Contents : Holds(s, content) => Holds(Sorted(s), content)
    BY <2>2, HoldsSorted
  <2>5. UNCHANGED <<remembered, upd, raced>>
    BY <1>1 DEF ApplyStart
  <2> QED BY <2>1, <2>2, <2>3, <2>4, <2>5, ConfKept
<1>2. ASSUME IsSeq(profiles'), SameConf(profiles', profiles),
             \A k \in 1..Len(profiles') : DOMAIN profiles'[k] = {"conf", "up", "controlled"},
             UNCHANGED <<remembered, upd, raced>>
      PROVE  ConfInv'
  <2>1. \A u : SameConf(profiles, u) => SameConf(profiles', u)
    BY <1>0, <1>2, ProfilesKept
  <2>2. \A content \in Contents : Holds(profiles, content) => Holds(profiles', content)
    BY <2>1 DEF Holds
  <2>3. profiles = <<>> => profiles' = <<>>
    <3>1. Len(profiles') = Len(profiles)
      BY <1>2 DEF SameConf
    <3>2. PICK t : t = profiles'
      OBVIOUS
    <3>3. Len(t) = 0 => t = <<>>
      BY <1>2, <3>2, EmptyList
    <3> QED BY <3>1, <3>2, <3>3, NoProfiles
  <2> QED BY <1>2, <2>2, <2>3, ConfKept
<1>3. CASE ApplyTopology
  <2>0. UNCHANGED <<remembered, upd, raced>>
    BY <1>3 DEF ApplyTopology
  <2>1. CASE apply'.pc = "profiles"
    BY <1>0, <1>2, <1>3, <2>0, <2>1, TopologyShape
  <2>2. CASE apply'.pc # "profiles"
    <3>1. profiles' = profiles
      BY <1>0, <1>3, <2>2 DEF ApplyTopology, Fail, ApplyTypes
    <3> QED BY <2>0, <3>1, ConfKept
  <2> QED BY <2>1, <2>2
<1>4. CASE ApplyProfile
  <2>0. UNCHANGED <<remembered, upd, raced>>
    BY <1>4 DEF ApplyProfile
  <2> QED BY <1>0, <1>2, <1>4, <2>0, ProfileShape
<1>5. CASE UNCHANGED <<profiles, remembered, upd, raced>>
  BY <1>5, ConfKept
<1>6. CASE ApplyEnd \/ SendBlocked \/ SecretEvent \/ Hardware \/ EditFile \/ EditSecret
           \/ EditHardwareConfig \/ UNCHANGED vars
  BY <1>5, <1>6 DEF ApplyEnd, SendBlocked, SecretEvent, Hardware, HwList, HwUpdate, HwRestart,
     EditFile, EditSecret, EditHardwareConfig, vars, confVars
<1>7. CASE ApplyPanics \/ PodRestarts
  BY <1>7 DEF ApplyPanics, PodRestarts
<1>8. ASSUME NEW w \in Writers, upd[w].pc # "profiles", upd'[w].pc # "profiles",
             \A v \in Writers : v # w => upd'[v] = upd[v],
             UNCHANGED <<profiles, remembered, raced>>
      PROVE  ConfInv'
  BY <1>0, <1>8 DEF ConfInv
<1>9. ASSUME NEW w \in Writers, ReadFile(w) PROVE ConfInv'
  <2>1. upd'[w].pc = "compare" /\ \A v \in Writers : v # w => upd'[v] = upd[v]
    BY <1>0, <1>9 DEF ReadFile, WriterTypes
  <2> QED BY <1>8, <1>9, <2>1 DEF ReadFile
<1>10. ASSUME NEW w \in Writers, Send(w) PROVE ConfInv'
  <2>1. upd'[w].pc = "idle" /\ \A v \in Writers : v # w => upd'[v] = upd[v]
    BY <1>0, <1>10 DEF Send, Return, NoUpd, WriterTypes
  <2> QED BY <1>8, <1>10, <2>1 DEF Send
<1>11. ASSUME NEW w \in Writers, Compare(w) PROVE ConfInv'
  <2>0. UNCHANGED profiles /\ upd[w].pc = "compare"
    BY <1>11 DEF Compare
  <2>1. CASE (Return(w, TRUE) \/ Return(w, FALSE)) /\ UNCHANGED <<remembered, raced>>
    <3>1. upd'[w].pc = "idle" /\ \A v \in Writers : v # w => upd'[v] = upd[v]
      BY <1>0, <2>1 DEF Return, NoUpd, WriterTypes
    <3> QED BY <1>8, <2>0, <2>1, <3>1
  <2>2. CASE /\ remembered' = upd[w].json
             /\ raced' = (raced \/ \E v \in Writers \ {w} : upd[v].pc = "profiles")
             /\ upd' = [upd EXCEPT ![w].pc = "profiles"]
    <3>1. ASSUME ~raced'
          PROVE  ~raced /\ \A v \in Writers \ {w} : upd[v].pc # "profiles"
      BY <2>2, <3>1
    <3>2. \A v \in Writers : v # w => upd'[v] = upd[v]
      BY <2>2 DEF WriterTypes
    <3>3. upd'[w].pc = "profiles" /\ upd'[w].json = upd[w].json
      BY <1>0, <2>2 DEF WriterTypes
    <3> QED BY <2>2, <3>1, <3>2, <3>3 DEF ConfInv
  <2> QED BY <1>11, <2>1, <2>2 DEF Compare
<1>12. ASSUME NEW w \in Writers, AssignProfiles(w) PROVE ConfInv'
  <2>1. upd[w].pc = "profiles" /\ profiles' = Loaded(upd[w].json) /\ UNCHANGED <<remembered, raced>>
    BY <1>12 DEF AssignProfiles
  <2>2. \A v \in Writers : v # w => upd'[v] = upd[v]
    BY <1>0, <1>12 DEF AssignProfiles, WriterTypes
  <2>3. upd'[w].pc = "send"
    BY <1>0, <1>12 DEF AssignProfiles, WriterTypes
  <2>4. ASSUME ~raced
        PROVE  /\ upd[w].json = remembered /\ remembered \in Contents
               /\ \A v \in Writers : v # w => upd[v].pc # "profiles"
    BY <1>0, <2>1, <2>4 DEF ConfInv, WriterTypes
  <2>5. ASSUME ~raced PROVE Holds(profiles', remembered) /\ remembered # None
    <3>1. profiles' = Loaded(remembered) /\ remembered \in Contents
      BY <2>1, <2>4, <2>5
    <3> QED BY <3>1, NodeConfigAssumption DEF Holds, SameConf
  <2> QED BY <2>1, <2>2, <2>3, <2>4, <2>5 DEF ConfInv
<1> QED BY <1>1, <1>3, <1>4, <1>6, <1>7, <1>9, <1>10, <1>11, <1>12 DEF Next, Daemon, World, Update

-----------------------------------------------------------------------------
(* A signal stays until an apply takes it.                                 *)
LEMMA PendingStays ==
  ASSUME NodeTypes, [Next]_vars, Pending
  PROVE  Pending' \/ ApplyStart \/ Restarted
<1>0. WriterTypes
  BY DEF NodeTypes
<1>1. CASE UNCHANGED <<updateCh, blocked, upd>>
  BY <1>1 DEF Pending
<1>2. CASE ApplyTopology \/ ApplyProfile \/ ApplyEnd \/ SecretEvent \/ HwList \/ HwUpdate
           \/ EditFile \/ EditSecret \/ EditHardwareConfig \/ UNCHANGED vars
  BY <1>1, <1>2 DEF ApplyTopology, ApplyProfile, ApplyEnd, SecretEvent, HwList, HwUpdate, EditFile,
     EditSecret, EditHardwareConfig, confVars, vars
<1>3. CASE SendBlocked
  BY <1>0, <1>3 DEF SendBlocked, Pending, WriterTypes
<1>4. CASE HwRestart
  BY <1>0, <1>4, NodeConfigAssumption DEF HwRestart, Pending, WriterTypes
<1>5. CASE ApplyPanics \/ PodRestarts
  BY <1>5 DEF ApplyPanics, PodRestarts
<1>6. ASSUME NEW w \in Writers, ReadFile(w) \/ Compare(w) PROVE Pending'
  <2>1. UNCHANGED <<updateCh, blocked>> /\ upd[w].pc # "send"
    BY <1>6 DEF ReadFile, Compare
  <2>2. \A v \in Writers : v # w => upd'[v] = upd[v]
    BY <1>0, <1>6 DEF ReadFile, Compare, Return, WriterTypes
  <2> QED BY <2>1, <2>2 DEF Pending
<1>7. ASSUME NEW w \in Writers, AssignProfiles(w) PROVE Pending'
  BY <1>0, <1>7 DEF AssignProfiles, Pending, WriterTypes
<1>8. ASSUME NEW w \in Writers, Send(w) PROVE Pending'
  BY <1>0, <1>8 DEF Send, Pending, WriterTypes
<1> QED BY <1>2, <1>3, <1>4, <1>5, <1>6, <1>7, <1>8
        DEF Next, Daemon, Hardware, World, Update

LEMMA AssignPends ==
  ASSUME NodeTypes, NEW w \in Writers, AssignProfiles(w)
  PROVE  Pending'
BY DEF AssignProfiles, Pending, NodeTypes, WriterTypes

(* What is running follows NodeProfiles.                                   *)
LEMMA RunNext ==
  ASSUME NodeInv, [Next]_vars
  PROVE  RunInv' \/ Restarted
<1>0. NodeTypes /\ ApplyTypes /\ RunInv /\ AreProfiles(profiles)
  BY DEF NodeInv, NodeTypes, ApplyTypes
<1>1. CASE ApplyStart
  <2>1. PICK s : s = profiles
    OBVIOUS
  <2>2. profiles' = Sorted(s) /\ AreProfiles(s)
    BY <1>0, <1>1, <2>1 DEF ApplyStart
  <2>3. Ordered(profiles')
    BY <2>2, SortedOrders
  <2> QED BY <1>1, <2>3 DEF ApplyStart, NoApply, RunInv
<1>2. CASE ApplyTopology
  <2>0. UNCHANGED running /\ apply.pc = "topology" /\ (~Pending' => ~Pending)
    BY <1>2, PendingStays DEF ApplyTopology, Pending
  <2>1. CASE apply'.pc = "profiles"
    <3>1. /\ IsSeq(profiles') /\ SameConf(profiles', profiles)
          /\ \A k \in 1..Len(profiles') : DOMAIN profiles'[k] = {"conf", "up", "controlled"}
          /\ apply' = [apply EXCEPT !.pc = "profiles", !.i = 1, !.n = Len(profiles),
                                   !.topo = NewProfileTopology(profiles)]
          /\ UNCHANGED failed
      BY <1>0, <1>2, <2>1, TopologyShape
    <3>2. /\ Ordered(profiles) => Ordered(profiles')
          /\ Len(profiles') = Len(profiles) /\ Len(profiles) \in Nat
          /\ \A k \in 1..Len(profiles) : profiles'[k].conf = profiles[k].conf
      BY <1>0, <3>1, ProfilesKept
    <3>3. /\ apply'.n = Len(profiles) /\ apply'.i = 1 /\ apply'.built = <<>>
          /\ apply'.topo = NewProfileTopology(profiles)
      BY <1>0, <2>0, <3>1 DEF RunInv, ApplyTypes
    <3>4. \A k \in 1..Len(profiles) : RunID(apply'.topo, profiles'[k].conf.name) = k
      BY <1>0, <3>2, <3>3, NumberedByPlace
    <3>5. Built'
      BY <3>2, <3>3, <3>4 DEF Built
    <3> QED BY <1>0, <2>0, <2>1, <3>1, <3>2, <3>5 DEF RunInv
  <2>2. CASE apply'.pc # "profiles"
    <3>1. profiles' = profiles /\ apply' = NoApply /\ failed' = TRUE
      BY <1>0, <1>2, <2>2 DEF ApplyTopology, Fail, ApplyTypes
    <3> QED BY <1>0, <2>0, <3>1 DEF RunInv, NoApply
  <2> QED BY <2>1, <2>2
<1>3. CASE ApplyProfile
  <2>0. UNCHANGED running /\ apply.pc = "profiles" /\ (~Pending' => ~Pending)
    BY <1>3, PendingStays DEF ApplyProfile, Pending
  <2>1. /\ IsSeq(profiles') /\ SameConf(profiles', profiles)
        /\ \A k \in 1..Len(profiles') : DOMAIN profiles'[k] = {"conf", "up", "controlled"}
        /\ apply.i \in 1..Len(profiles)
    BY <1>0, <1>3, ProfileShape
  <2>2. /\ Ordered(profiles) => Ordered(profiles')
        /\ Len(profiles') = Len(profiles) /\ Len(profiles) \in Nat
        /\ \A k \in 1..Len(profiles) : profiles'[k].conf = profiles[k].conf
    BY <1>0, <2>1, ProfilesKept
  <2>3. CASE apply' = NoApply /\ failed' = TRUE
    BY <1>0, <2>0, <2>2, <2>3 DEF RunInv, NoApply
  <2>4. CASE ~(apply' = NoApply /\ failed' = TRUE)
    <3>1. PICK p : /\ p.conf = profiles[apply.i].conf
                   /\ apply' = [apply EXCEPT !.i = @ + 1,
                        !.built = Append(@, createProcesses(p, apply.topo, hwConfigs, secret))]
                   /\ UNCHANGED failed
      BY <1>0, <1>3, <2>4, ProfileShape
    <3>2. PICK x : x = createProcesses(p, apply.topo, hwConfigs, secret)
      OBVIOUS
    <3>3. PICK b : b = apply.built
      OBVIOUS
    <3>4. /\ apply'.pc = "profiles" /\ apply'.i = apply.i + 1 /\ apply'.n = apply.n
          /\ apply'.topo = apply.topo /\ apply'.built = Append(b, x)
      BY <1>0, <2>0, <3>1, <3>2, <3>3 DEF ApplyTypes
    <3>5. /\ IsSeq(Append(b, x)) /\ Len(Append(b, x)) = Len(b) + 1
          /\ Append(b, x)[Len(b) + 1] = x /\ \A k \in 1..Len(b) : Append(b, x)[k] = b[k]
          /\ Len(b) \in Nat
      BY <1>0, <3>3, Appended, SeqFacts DEF ApplyTypes
    <3>6. /\ x.name = profiles[apply.i].conf.name /\ x.conf = profiles[apply.i].conf
          /\ x.run = RunID(apply.topo, profiles[apply.i].conf.name)
      BY <3>1, <3>2 DEF createProcesses
    <3>7. ASSUME Built PROVE Built'
      <4>1. /\ apply.n = Len(profiles) /\ Len(b) = apply.i - 1
            /\ \A k \in 1..Len(profiles) : RunID(apply.topo, profiles[k].conf.name) = k
            /\ \A k \in 1..Len(b) : ProcessOf(b[k], profiles, k)
        BY <3>3, <3>7 DEF Built
      <4>2. \A k \in 1..Len(apply'.built) : ProcessOf(apply'.built[k], profiles', k)
        <5> TAKE k \in 1..Len(apply'.built)
        <5>1. CASE k = Len(b) + 1
          <6>1. k = apply.i /\ apply'.built[k] = x
            BY <1>0, <3>4, <3>5, <4>1, <5>1 DEF ApplyTypes
          <6> QED BY <2>1, <2>2, <3>6, <4>1, <6>1 DEF ProcessOf
        <5>2. CASE k # Len(b) + 1
          <6>1. k \in 1..Len(b) /\ apply'.built[k] = b[k] /\ k \in 1..Len(profiles)
            BY <2>1, <2>2, <3>4, <3>5, <4>1, <5>2
          <6> QED BY <2>2, <4>1, <6>1 DEF ProcessOf
        <5> QED BY <5>1, <5>2
      <4>3. \A k \in 1..Len(profiles') : RunID(apply'.topo, profiles'[k].conf.name) = k
        BY <2>2, <3>4, <4>1
      <4>4. apply'.n = Len(profiles') /\ apply'.i \in 1..(apply'.n + 1)
            /\ Len(apply'.built) = apply'.i - 1
        BY <2>1, <2>2, <3>4, <3>5, <4>1
      <4> QED BY <4>2, <4>3, <4>4 DEF Built
    <3> QED BY <1>0, <2>0, <2>2, <3>1, <3>4, <3>7 DEF RunInv
  <2> QED BY <2>3, <2>4
<1>4. CASE ApplyEnd
  <2>1. /\ apply.pc = "profiles" /\ apply.i > apply.n /\ running' = Range(apply.built)
        /\ apply' = NoApply /\ UNCHANGED <<failed, profiles>> /\ (~Pending' => ~Pending)
    BY <1>4 DEF ApplyEnd, confVars, Pending
  <2>2. ~failed /\ IsSeq(apply.built)
    BY <1>0, <2>1 DEF RunInv, ApplyTypes
  <2>3. DOMAIN apply.built = 1..Len(apply.built) /\ Len(apply.built) \in Nat
    BY <2>2, SeqFacts
  <2>4. ASSUME Built PROVE Started' = Processes(profiles)
    <3>1. /\ Len(apply.built) = Len(profiles)
          /\ \A k \in 1..Len(profiles) : ProcessOf(apply.built[k], profiles, k)
      BY <1>0, <2>1, <2>3, <2>4 DEF Built, ApplyTypes
    <3>2. Started' = {[name |-> apply.built[k].name, conf |-> apply.built[k].conf,
                       run |-> apply.built[k].run] : k \in 1..Len(profiles)}
      BY <2>1, <2>3, <3>1 DEF Started, Range
    <3> QED BY <3>1, <3>2 DEF Processes, ProcessOf
  <2> QED BY <1>0, <2>1, <2>2, <2>4 DEF RunInv, NoApply
<1>5. CASE UNCHANGED <<apply, running, failed, profiles>> /\ (~Pending' => ~Pending)
  BY <1>0, <1>5 DEF RunInv, Built, Started
<1>6. CASE SendBlocked \/ SecretEvent \/ Hardware \/ EditFile \/ EditSecret
           \/ EditHardwareConfig \/ UNCHANGED vars
  <2>1. UNCHANGED <<apply, running, failed, profiles>>
    BY <1>6 DEF SendBlocked, SecretEvent, Hardware, HwList, HwUpdate, HwRestart, EditFile,
       EditSecret, EditHardwareConfig, vars, confVars, runVars
  <2> QED BY <1>0, <1>1, <1>5, <2>1, PendingStays
<1>7. CASE ApplyPanics \/ PodRestarts
  BY <1>7 DEF ApplyPanics, PodRestarts
<1>8. ASSUME NEW w \in Writers, ReadFile(w) \/ Compare(w) \/ Send(w) PROVE RunInv' \/ Restarted
  <2>1. UNCHANGED <<apply, running, failed, profiles>>
    BY <1>8 DEF ReadFile, Compare, Send, runVars
  <2> QED BY <1>0, <1>1, <1>5, <2>1, PendingStays
<1>9. ASSUME NEW w \in Writers, AssignProfiles(w) PROVE RunInv'
  <2>1. UNCHANGED <<apply, running, failed>>
    BY <1>9 DEF AssignProfiles, runVars
  <2> QED BY <1>0, <1>9, <2>1, AssignPends DEF RunInv
<1> QED BY <1>1, <1>2, <1>3, <1>4, <1>6, <1>7, <1>8, <1>9 DEF Next, Daemon, World, Update

(* Only a change of the secret moves it, and what was reported is of it.   *)
LEMMA SecTypesNext ==
  ASSUME SecTypes, [Next]_vars
  PROVE  SecTypes'
<1>1. CASE EditSecret
  BY <1>1 DEF EditSecret, SecTypes
<1>2. CASE UNCHANGED <<secret, noticed>>
  BY <1>2 DEF SecTypes
<1>3. CASE Daemon \/ SendBlocked \/ SecretEvent
  BY <1>2, <1>3 DEF Daemon, ApplyStart, ApplyTopology, ApplyProfile, ApplyEnd, ApplyPanics,
     Restarted, SendBlocked, SecretEvent, secVars, fileVars
<1>4. CASE Hardware \/ EditFile \/ EditHardwareConfig \/ PodRestarts \/ UNCHANGED vars
  BY <1>2, <1>4 DEF Hardware, HwList, HwUpdate, HwRestart, EditFile, EditHardwareConfig,
     PodRestarts, Restarted, vars, secVars, fileVars
<1>5. ASSUME NEW w \in Writers, ReadFile(w) \/ Update(w) PROVE SecTypes'
  BY <1>2, <1>5 DEF ReadFile, Update, Compare, AssignProfiles, Send, secVars, fileVars
<1> QED BY <1>1, <1>3, <1>4, <1>5 DEF Next, World

(* A change that was reported is on its way until an apply builds with it. *)
LEMMA SecNext ==
  ASSUME NodeInv, [Next]_vars
  PROVE  SecInv' \/ Restarted
<1>0. WriterTypes /\ ApplyTypes /\ RunInv /\ SecTypes /\ SecInv
  BY DEF NodeInv, NodeTypes
<1>1. CASE ApplyStart
  BY <1>1, NoProfiles DEF ApplyStart, NoApply, SecInv, OnItsWay
<1>2. ASSUME UNCHANGED <<updateCh, upd, secEvents, secFlag, flagLost, noticed, running>>,
             apply'.built \in {apply.built, <<>>}
      PROVE  SecInv'
  BY <1>0, <1>2, NoProfiles DEF SecInv, OnItsWay
<1>3. CASE ApplyTopology
  <2>1. apply'.built \in {apply.built, <<>>}
    <3>1. CASE apply'.pc = "profiles"
      <4>1. apply' = [apply EXCEPT !.pc = "profiles", !.i = 1, !.n = Len(profiles),
                                   !.topo = NewProfileTopology(profiles)]
        BY <1>3, <3>1, TopologyShape DEF NodeInv
      <4> QED BY <1>0, <4>1 DEF ApplyTypes
    <3>2. CASE apply'.pc # "profiles"
      <4>1. apply' = NoApply
        BY <1>0, <1>3, <3>2 DEF ApplyTopology, Fail, ApplyTypes
      <4> QED BY <4>1 DEF NoApply
    <3> QED BY <3>1, <3>2
  <2> QED BY <1>2, <1>3, <2>1 DEF ApplyTopology, secVars, fileVars
<1>4. CASE ApplyProfile
  <2>0. UNCHANGED <<updateCh, upd, secEvents, secFlag, flagLost, noticed, running>>
    BY <1>4 DEF ApplyProfile, secVars, fileVars
  <2>1. CASE apply' = NoApply
    BY <1>2, <2>0, <2>1 DEF NoApply
  <2>2. CASE apply' # NoApply
    <3>1. PICK p : apply' = [apply EXCEPT !.i = @ + 1,
                        !.built = Append(@, createProcesses(p, apply.topo, hwConfigs, secret))]
      BY <1>4, <2>2, ProfileShape DEF NodeInv
    <3>2. PICK x : x = createProcesses(p, apply.topo, hwConfigs, secret)
      OBVIOUS
    <3>3. PICK b : b = apply.built
      OBVIOUS
    <3>4. apply'.built = Append(b, x) /\ x.sec >= noticed
      BY <1>0, <3>1, <3>2, <3>3 DEF ApplyTypes, SecTypes, createProcesses
    <3>5. /\ Len(Append(b, x)) = Len(b) + 1 /\ Append(b, x)[Len(b) + 1] = x
          /\ \A k \in 1..Len(b) : Append(b, x)[k] = b[k]
          /\ Len(b) \in Nat
      BY <1>0, <3>3, Appended, SeqFacts DEF ApplyTypes
    <3>6. (\A k \in 1..Len(b) : b[k].sec >= noticed) =>
            \A k \in 1..Len(apply'.built) : apply'.built[k].sec >= noticed
      <4>1. \A k \in 1..Len(apply'.built) : k = Len(b) + 1 \/ k \in 1..Len(b)
        BY <3>4, <3>5
      <4> QED BY <3>4, <3>5, <4>1
    <3> QED BY <1>0, <2>0, <3>3, <3>6 DEF SecInv, OnItsWay
  <2> QED BY <2>1, <2>2
<1>5. CASE ApplyEnd
  <2>1. running' = Range(apply.built) /\ apply' = NoApply
        /\ UNCHANGED <<updateCh, upd, secEvents, secFlag, flagLost, noticed>>
    BY <1>5 DEF ApplyEnd, confVars, secVars, fileVars
  <2>2. DOMAIN apply.built = 1..Len(apply.built)
    BY <1>0, SeqFacts DEF ApplyTypes
  <2> QED BY <1>0, <2>1, <2>2, NoProfiles DEF SecInv, OnItsWay, NoApply, Range
<1>6. CASE ApplyPanics \/ PodRestarts
  BY <1>6 DEF ApplyPanics, PodRestarts
<1>7. CASE HwList \/ HwUpdate \/ EditFile \/ EditHardwareConfig \/ UNCHANGED vars
  BY <1>2, <1>7 DEF HwList, HwUpdate, EditFile, EditHardwareConfig, vars, fileVars, confVars, secVars,
     runVars
<1>8. CASE SendBlocked
  BY <1>0, <1>8 DEF SendBlocked, SecInv, OnItsWay, WriterTypes, secVars, fileVars, runVars
<1>9. CASE HwRestart
  <2>1. updateCh > 0 => updateCh' > 0
    BY <1>0, <1>9 DEF HwRestart, WriterTypes
  <2> QED BY <1>0, <1>9, <2>1 DEF HwRestart, SecInv, OnItsWay, secVars, fileVars, runVars
<1>10. CASE SecretEvent
  <2>1. OnItsWay => OnItsWay'
    BY <1>10 DEF SecretEvent, OnItsWay, confVars
  <2> QED BY <1>0, <1>10, <2>1 DEF SecretEvent, SecInv, OnItsWay, confVars, runVars
<1>15. CASE EditSecret
  <2>1. OnItsWay => OnItsWay'
    BY <1>15 DEF EditSecret, OnItsWay, confVars
  <2>2. OnItsWay' \/ noticed' = noticed
    BY <1>15 DEF EditSecret, OnItsWay
  <2> QED BY <1>0, <1>15, <2>1, <2>2 DEF EditSecret, SecInv, OnItsWay, confVars, runVars
<1>11. ASSUME NEW w \in Writers, ReadFile(w) PROVE SecInv'
  <2>1. secFlag => secFlag' \/ upd'[w].auth
    BY <1>0, <1>11 DEF ReadFile, WriterTypes
  <2>2. \A v \in Writers : upd[v].auth => upd'[v].auth
    BY <1>0, <1>11 DEF ReadFile, WriterTypes
  <2>3. UNCHANGED <<updateCh, secEvents, flagLost, noticed, running, apply>>
    BY <1>11 DEF ReadFile, runVars
  <2> QED BY <1>0, <2>1, <2>2, <2>3 DEF SecInv, OnItsWay
<1>12. ASSUME NEW w \in Writers, Compare(w) PROVE SecInv'
  <2>1. (\E v \in Writers : upd[v].auth) => flagLost' \/ \E v \in Writers : upd'[v].auth
    BY <1>0, <1>12 DEF Compare, Return, NoUpd, WriterTypes
  <2>2. flagLost => flagLost'
    BY <1>12 DEF Compare
  <2>3. UNCHANGED <<updateCh, secEvents, secFlag, noticed, running, apply>>
    BY <1>12 DEF Compare, fileVars, runVars
  <2> QED BY <1>0, <2>1, <2>2, <2>3 DEF SecInv, OnItsWay
<1>13. ASSUME NEW w \in Writers, AssignProfiles(w) PROVE SecInv'
  <2>1. \A v \in Writers : upd[v].auth => upd'[v].auth
    BY <1>0, <1>13 DEF AssignProfiles, WriterTypes
  <2> QED BY <1>0, <1>13, <2>1 DEF AssignProfiles, SecInv, OnItsWay, secVars, fileVars, runVars
<1>14. ASSUME NEW w \in Writers, Send(w) PROVE SecInv'
  BY <1>0, <1>14 DEF Send, SecInv, OnItsWay, WriterTypes
<1> QED BY <1>1, <1>3, <1>4, <1>5, <1>6, <1>7, <1>8, <1>9, <1>10, <1>11, <1>12, <1>13, <1>14, <1>15
        DEF Next, Daemon, Hardware, World, Update

(* A HardwareConfig that changed for a profile is in the difference, or    *)
(* has moved to a profile that the difference names.                       *)
LEMMA DiffTells ==
  ASSUME NEW old, NEW new, OneSpec(old), NEW n, HwOf(old, n) # HwOf(new, n)
  PROVE  \E h \in Diff(old, new) : h.spec.profile = n \/ h \in new
<1>1. PICK h : \/ h \in HwOf(old, n) /\ h \notin HwOf(new, n)
               \/ h \in HwOf(new, n) /\ h \notin HwOf(old, n)
  OBVIOUS
<1>2. CASE h \in new \ old
  BY <1>2 DEF Diff
<1>3. CASE h \in old \ new /\ h.spec.profile = n
  <2>1. CASE \A g \in new : g.name # h.name
    BY <1>3, <2>1 DEF Diff
  <2>2. CASE \E g \in new : g.name = h.name
    <3>1. PICK g \in new : g.name = h.name
      BY <2>2
    <3>2. g \notin old
      BY <1>3, <3>1 DEF OneSpec
    <3> QED BY <3>1, <3>2 DEF Diff
  <2> QED BY <2>1, <2>2
<1> QED BY <1>1, <1>2, <1>3 DEF HwOf

LEMMA HwKept ==
  ASSUME HwInv, UNCHANGED <<lastApplied, hwConfigs, hw, ptpConfig, running>>, OneSpec(crs)',
         ~Pending' => ~Pending,
         NamesOf(profiles') = NamesOf(profiles), profiles = <<>> => profiles' = <<>>,
         apply'.pc # "idle" => apply.pc # "idle",
         apply'.built \in {apply.built, <<>>}
  PROVE  HwInv'
<1>1. \A r : Current(r) => Current(r)'
  BY DEF Current, Fresh, Diff, HwOf
<1> QED BY <1>1, NoProfiles DEF HwInv, AllCurrent, OneSpec

(* The manager and the reconciler.                                         *)
LEMMA HwNext ==
  ASSUME NodeInv, [Next]_vars
  PROVE  HwInv' \/ Restarted
<1>0. NodeTypes /\ WriterTypes /\ ApplyTypes /\ RunInv /\ HwInv /\ AreProfiles(profiles)
  BY DEF NodeInv, NodeTypes, ApplyTypes
<1>1. CASE ApplyStart
  <2>1. PICK s : s = profiles
    OBVIOUS
  <2>2. profiles' = Sorted(s) /\ AreProfiles(s)
    BY <1>0, <1>1, <2>1 DEF ApplyStart
  <2>3. NamesOf(profiles') = NamesOf(s) /\ (s = <<>> => profiles' = <<>>)
    BY <2>2, SortedOrders, NoProfiles, EmptyList
  <2>4. /\ UNCHANGED <<crs, lastApplied, hwConfigs, hw>> /\ running' = {} /\ apply'.built = <<>>
        /\ ptpConfig' = IF s = <<>> THEN ptpConfig ELSE NamesOf(s)
    BY <1>1, <2>1 DEF ApplyStart, NoApply, fileVars
  <2> QED BY <1>0, <2>3, <2>4, NoProfiles DEF HwInv, AllCurrent, OneSpec
<1>2. CASE ApplyTopology
  <2>0. /\ UNCHANGED <<crs, lastApplied, hwConfigs, hw, ptpConfig, running>> /\ apply.pc = "topology"
        /\ (~Pending' => ~Pending)
    BY <1>2 DEF ApplyTopology, fileVars, hwVars, Pending
  <2>1. CASE apply'.pc = "profiles"
    <3>1. /\ IsSeq(profiles') /\ SameConf(profiles', profiles)
          /\ \A k \in 1..Len(profiles') : DOMAIN profiles'[k] = {"conf", "up", "controlled"}
          /\ apply' = [apply EXCEPT !.pc = "profiles", !.i = 1, !.n = Len(profiles),
                                   !.topo = NewProfileTopology(profiles)]
      BY <1>0, <1>2, <2>1, TopologyShape
    <3>2. NamesOf(profiles') = NamesOf(profiles) /\ Len(profiles') = Len(profiles)
      BY <1>0, <3>1, ProfilesKept
    <3>3. profiles = <<>> => profiles' = <<>>
      BY <3>1, <3>2, NoProfiles, EmptyList
    <3>4. apply'.built = apply.built
      BY <1>0, <3>1 DEF ApplyTypes
    <3> QED BY <1>0, <2>0, <3>2, <3>3, <3>4, HwKept DEF HwInv, OneSpec
  <2>2. CASE apply'.pc # "profiles"
    <3>1. profiles' = profiles /\ apply' = NoApply
      BY <1>0, <1>2, <2>2 DEF ApplyTopology, Fail, ApplyTypes
    <3> QED BY <1>0, <2>0, <3>1, HwKept DEF HwInv, OneSpec, NoApply
  <2> QED BY <2>1, <2>2
<1>3. CASE ApplyProfile
  <2>0. /\ UNCHANGED <<crs, lastApplied, hwConfigs, hw, ptpConfig, running>> /\ apply.pc = "profiles"
        /\ (~Pending' => ~Pending)
    BY <1>3 DEF ApplyProfile, fileVars, hwVars, Pending
  <2>1. /\ IsSeq(profiles') /\ SameConf(profiles', profiles)
        /\ \A k \in 1..Len(profiles') : DOMAIN profiles'[k] = {"conf", "up", "controlled"}
        /\ apply.i \in 1..Len(profiles)
    BY <1>0, <1>3, ProfileShape
  <2>2. /\ NamesOf(profiles') = NamesOf(profiles)
        /\ Len(profiles') = Len(profiles) /\ Len(profiles) \in Nat
    BY <1>0, <2>1, ProfilesKept
  <2>3. profiles # <<>> /\ profiles[apply.i].conf.name \in NamesOf(profiles)
    <3>1. DOMAIN profiles = 1..Len(profiles)
      BY <1>0, SeqFacts DEF AreProfiles
    <3> QED BY <2>1, <2>2, <3>1, NoProfiles DEF NamesOf
  <2>4. CASE apply' = NoApply
    BY <1>0, <2>0, <2>2, <2>3, <2>4, HwKept DEF HwInv, OneSpec, NoApply
  <2>5. CASE apply' # NoApply
    <3>1. PICK p : /\ p.conf = profiles[apply.i].conf
                   /\ apply' = [apply EXCEPT !.i = @ + 1,
                        !.built = Append(@, createProcesses(p, apply.topo, hwConfigs, secret))]
      BY <1>0, <1>3, <2>5, ProfileShape
    <3>2. PICK x : x = createProcesses(p, apply.topo, hwConfigs, secret)
      OBVIOUS
    <3>3. PICK b : b = apply.built
      OBVIOUS
    <3>4. apply'.pc = "profiles" /\ apply'.built = Append(b, x)
      BY <1>0, <2>0, <3>1, <3>2, <3>3 DEF ApplyTypes
    <3>5. /\ Len(Append(b, x)) = Len(b) + 1 /\ Append(b, x)[Len(b) + 1] = x
          /\ \A k \in 1..Len(b) : Append(b, x)[k] = b[k]
          /\ Len(b) \in Nat
      BY <1>0, <3>3, Appended, SeqFacts DEF ApplyTypes
    <3>6. x.name = profiles[apply.i].conf.name /\ x.hw = HwOf(hwConfigs, x.name)
      BY <3>1, <3>2 DEF createProcesses
    <3>7. \A r : Current(r) => Current(r)'
      BY <2>0, <2>2 DEF Current, Fresh, Diff, HwOf
    <3>8. ptpConfig = NamesOf(profiles) => Current(x)'
      BY <2>0, <2>2, <2>3, <3>6 DEF Current, Fresh, HwOf
    <3>9. \A k \in 1..Len(apply'.built) : k = Len(b) + 1 \/ k \in 1..Len(b)
      BY <3>4, <3>5
    <3>10. ASSUME ~Pending' PROVE AllCurrent'
      <4>1. /\ ptpConfig = NamesOf(profiles)
            /\ \A r \in running : Current(r)
            /\ \A k \in 1..Len(b) : Current(b[k])
        BY <1>0, <2>0, <2>3, <3>3, <3>10 DEF HwInv, AllCurrent
      <4>2. Current(x)' /\ \A k \in 1..Len(b) : Current(b[k])'
        BY <3>7, <3>8, <4>1
      <4>3. \A k \in 1..Len(apply'.built) : (k = Len(b) + 1 /\ apply'.built[k] = x)
                                            \/ (k \in 1..Len(b) /\ apply'.built[k] = b[k])
        BY <3>4, <3>5, <3>9
      <4>4. ASSUME NEW k \in 1..Len(apply'.built) PROVE Current(apply.built[k])'
        <5>1. PICK c : c = apply'.built[k]
          OBVIOUS
        <5>2. Current(c)'
          BY <4>2, <4>3, <5>1
        <5> QED BY <5>1, <5>2 DEF Current, Fresh
      <4> QED BY <2>0, <2>2, <3>7, <4>1, <4>4 DEF AllCurrent
    <3> QED BY <1>0, <2>0, <3>10 DEF HwInv, OneSpec
  <2> QED BY <2>4, <2>5
<1>4. CASE ApplyEnd
  <2>1. /\ running' = Range(apply.built) /\ apply' = NoApply
        /\ UNCHANGED <<crs, lastApplied, hwConfigs, hw, ptpConfig, profiles>> /\ (~Pending' => ~Pending)
    BY <1>4 DEF ApplyEnd, confVars, hwVars, fileVars, Pending
  <2>2. DOMAIN apply.built = 1..Len(apply.built)
    BY <1>0, SeqFacts DEF ApplyTypes
  <2>3. \A r : Current(r) => Current(r)'
    BY <2>1 DEF Current, Fresh, Diff, HwOf
  <2>4. ~Pending' => \A r \in running' : Current(r)'
    BY <1>0, <2>1, <2>2, <2>3 DEF HwInv, AllCurrent, Range
  <2> QED BY <1>0, <2>1, <2>4, NoProfiles DEF HwInv, AllCurrent, NoApply, OneSpec
<1>5. CASE ApplyPanics \/ PodRestarts
  BY <1>5 DEF ApplyPanics, PodRestarts
<1>6. CASE HwList
  <2>1. /\ UNCHANGED <<crs, hwConfigs, ptpConfig, running, apply, profiles>> /\ (~Pending' => ~Pending)
        /\ hw.pc = "idle"
    BY <1>6 DEF HwList, fileVars, confVars, runVars, Pending
  <2>2. \A r : Current(r) => Current(r)'
    BY <2>1 DEF Current, Fresh, HwOf
  <2>3. OneSpec(Applicable)
    BY <1>0 DEF HwInv, OneSpec, Applicable
  <2>4. \/ UNCHANGED <<hw, lastApplied>>
        \/ lastApplied' = Applicable /\ hw' = [pc |-> "update", new |-> Applicable, old |-> lastApplied]
    BY <1>6 DEF HwList
  <2>5. ~Pending' => AllCurrent'
    BY <1>0, <2>1, <2>2 DEF HwInv, AllCurrent
  <2> QED BY <1>0, <2>1, <2>3, <2>4, <2>5 DEF HwInv, OneSpec
<1>7. CASE HwUpdate
  <2>1. /\ UNCHANGED <<crs, ptpConfig, running, apply, profiles>> /\ (~Pending' => ~Pending)
        /\ hw.pc = "update"
    BY <1>7 DEF HwUpdate, fileVars, confVars, runVars, Pending
  <2>2. CASE /\ Resolvable(hw.new) /\ hwConfigs' = hw.new /\ UNCHANGED lastApplied
             /\ hw' = [hw EXCEPT !.pc = IF hw.new = {} THEN "idle" ELSE "restart"]
    <3>1. /\ hw.old = hwConfigs /\ hw.new = lastApplied /\ OneSpec(hw.old)
          /\ DOMAIN hw = {"pc", "new", "old"}
      BY <1>0, <2>1 DEF HwInv
    <3>2. /\ DOMAIN hw' = {"pc", "new", "old"} /\ hw'.new = hw.new /\ hw'.old = hw.old
          /\ hw'.pc = IF hw.new = {} THEN "idle" ELSE "restart"
      BY <2>2, <3>1
    <3>3. ASSUME NEW r, Current(r) PROVE Current(r)'
      <4>1. r.name \in NamesOf(profiles) /\ ptpConfig = NamesOf(profiles)
            /\ (HwOf(hw.old, r.name) = {} \/ r.hw = HwOf(hw.old, r.name))
        BY <2>1, <3>1, <3>3 DEF Current, Fresh
      <4>2. CASE HwOf(hw.new, r.name) = {} \/ r.hw = HwOf(hw.new, r.name)
        BY <2>1, <2>2, <4>1, <4>2 DEF Current, Fresh, HwOf
      <4>3. CASE HwOf(hw.new, r.name) # {} /\ r.hw # HwOf(hw.new, r.name)
        <5>1. HwOf(hw.old, r.name) # HwOf(hw.new, r.name) /\ hw.new # {}
          BY <4>1, <4>3 DEF HwOf
        <5>2. PICK h \in Diff(hw.old, hw.new) : h.spec.profile = r.name \/ h \in hw.new
          <6>1. PICK old : old = hw.old
            OBVIOUS
          <6>2. PICK new : new = hw.new
            OBVIOUS
          <6>3. PICK n : n = r.name
            OBVIOUS
          <6>4. \E h \in Diff(old, new) : h.spec.profile = n \/ h \in new
            BY <3>1, <5>1, <6>1, <6>2, <6>3, DiffTells
          <6> QED BY <6>1, <6>2, <6>3, <6>4
        <5>3. h.spec.profile \in NamesOf(profiles)
          BY <2>2, <4>1, <5>2 DEF Resolvable
        <5>4. h \in Diff(hw'.old, hw'.new)
          BY <3>2, <5>2
        <5> QED BY <2>1, <3>2, <4>1, <5>1, <5>3, <5>4 DEF Current, Fresh
      <4> QED BY <4>2, <4>3
    <3>4. ~Pending' => AllCurrent'
      BY <1>0, <2>1, <3>3 DEF HwInv, AllCurrent, Pending
    <3> QED BY <1>0, <2>1, <2>2, <3>1, <3>2, <3>4 DEF HwInv, OneSpec
  <2>3. CASE lastApplied' = hw.old /\ hw' = NoHw /\ UNCHANGED hwConfigs
    <3>1. \A r : Current(r) => Current(r)'
      BY <2>1, <2>3 DEF Current, Fresh, HwOf
    <3>2. ~Pending' => AllCurrent'
      BY <1>0, <2>1, <3>1 DEF HwInv, AllCurrent, Pending
    <3> QED BY <1>0, <2>1, <2>3, <3>2 DEF HwInv, OneSpec, NoHw
  <2> QED BY <1>7, <2>2, <2>3 DEF HwUpdate
<1>8. CASE HwRestart
  <2>1. /\ UNCHANGED <<crs, lastApplied, hwConfigs, ptpConfig, running, apply, profiles, upd>>
        /\ hw.pc = "restart" /\ hw' = NoHw
    BY <1>8 DEF HwRestart, fileVars, runVars
  <2>2. CASE /\ \A h \in Diff(hw.old, hw.new) : h.spec.profile \notin NamesOf(profiles)
             /\ UNCHANGED <<updateCh, blocked>>
    <3>1. \A r : Current(r) => Current(r)'
      BY <2>1, <2>2 DEF Current, Fresh, HwOf
    <3>2. ~Pending' => AllCurrent'
      BY <1>0, <2>1, <2>2, <3>1 DEF HwInv, AllCurrent, Pending
    <3> QED BY <1>0, <2>1, <3>2 DEF HwInv, OneSpec, NoHw
  <2>3. CASE updateCh' = updateCh + 1 \/ blocked' = blocked + 1
    <3>1. Pending'
      BY <1>0, <1>8, <2>3, NodeConfigAssumption DEF HwRestart, Pending, WriterTypes
    <3> QED BY <1>0, <2>1, <3>1 DEF HwInv, OneSpec, NoHw
  <2> QED BY <1>8, <2>2, <2>3 DEF HwRestart
<1>9. CASE EditHardwareConfig
  <2>1. PICK n : \E s \in HwSpecs \cup {None} :
                   crs' = (IF s = None THEN {h \in crs : h.name # n}
                           ELSE {h \in crs : h.name # n} \cup {[name |-> n, spec |-> s]})
    BY <1>9 DEF EditHardwareConfig
  <2>2. OneSpec(crs')
    BY <1>0, <2>1 DEF HwInv, OneSpec
  <2>3. UNCHANGED <<lastApplied, hwConfigs, hw, ptpConfig, running, profiles, apply, updateCh, blocked, upd>>
    BY <1>9 DEF EditHardwareConfig, confVars, runVars
  <2> QED BY <1>0, <2>2, <2>3, HwKept DEF OneSpec, Pending
<1>10. ASSUME UNCHANGED <<crs, lastApplied, hwConfigs, hw, ptpConfig, running, profiles, apply>>
       PROVE  HwInv' \/ Restarted
  <2>1. ~Pending' => ~Pending \/ ApplyStart \/ Restarted
    BY <1>0, PendingStays
  <2> QED BY <1>0, <1>1, <1>10, <2>1, HwKept DEF HwInv, OneSpec
<1>11. CASE SendBlocked \/ SecretEvent \/ EditFile \/ EditSecret \/ UNCHANGED vars
  BY <1>10, <1>11 DEF SendBlocked, SecretEvent, EditFile, EditSecret, vars, fileVars, confVars, runVars,
     hwVars
<1>12. ASSUME NEW w \in Writers, ReadFile(w) \/ Compare(w) \/ Send(w) PROVE HwInv' \/ Restarted
  BY <1>10, <1>12 DEF ReadFile, Compare, Send, runVars, hwVars, fileVars
<1>13. ASSUME NEW w \in Writers, AssignProfiles(w) PROVE HwInv'
  <2>1. UNCHANGED <<crs, lastApplied, hwConfigs, hw>> /\ Pending'
    BY <1>0, <1>13, AssignPends DEF AssignProfiles, fileVars, hwVars
  <2> QED BY <1>0, <2>1 DEF HwInv, OneSpec
<1> QED BY <1>1, <1>2, <1>3, <1>4, <1>5, <1>6, <1>7, <1>8, <1>9, <1>11, <1>12, <1>13
        DEF Next, Daemon, Hardware, World, Update

LEMMA NodeNext == NodeInv /\ [Next]_vars => NodeInv'
BY ApplyTypesNext, WriterTypesNext, ConfNext, RunNext, SecTypesNext, SecNext, HwNext, NodeRestarts
   DEF NodeInv, NodeTypes

(* What is in order and holds a content is that content, sorted.           *)
LEMMA OrderedHolds ==
  ASSUME NEW s, AreProfiles(s), Ordered(s), NEW content \in Contents, Holds(s, content)
  PROVE  Processes(s) = Wanted(content)
<1> DEFINE l == Loaded(content)
           ps == Sorted(l)
<1>1. AreProfiles(l) /\ Len(l) \in Nat
  BY LoadedProfiles, NodeConfigAssumption
<1>2. IsSeq(ps) /\ Len(ps) = Len(l)
  BY <1>1, SortedOrders
<1> HIDE DEF l
<1>3. SameConf(s, ps)
  <2>1. CASE SameConf(s, l)
    <3>1. Ordered(l)
      BY <1>1, <2>1 DEF SameConf, Ordered, ProfileBefore
    <3>2. SameConf(ps, l)
      BY <1>1, <3>1, OrderedStays
    <3> QED BY <2>1, <3>2 DEF SameConf
  <2> QED BY <2>1 DEF Holds, l
<1>4. Wanted(content) = {[name |-> ps[k].conf.name, conf |-> ps[k].conf, run |-> k] : k \in DOMAIN ps}
  BY DEF Wanted, l
<1> HIDE DEF ps
<1>5. DOMAIN ps = 1..Len(s) /\ \A k \in 1..Len(s) : s[k].conf = ps[k].conf
  BY <1>1, <1>2, <1>3, SeqFacts DEF SameConf
<1> QED BY <1>4, <1>5 DEF Processes

-----------------------------------------------------------------------------
(* The node's types hold always: who is where in UpdateConfig, what was    *)
(* read, and how far the daemon is in an apply (UpdateConfig,              *)
(* applyNodePTPProfiles).                                                  *)
THEOREM NodeTypesHold == Spec => []NodeTypes
<1>1. Spec => []NodeInv
  BY NodeInit, NodeNext, PTL DEF Spec
<1> QED BY <1>1, PTL DEF NodeInv

(* When nothing is pending the node runs what UpdateConfig remembers, for  *)
(* every set of files, any number of edits, swaps under an apply, failures *)
(* and restarts, and any capacity of UpdateCh (UpdateConfig,               *)
(* applyNodePTPProfiles).                                                  *)
THEOREM RunsWhatIsRemembered == Spec => []RunsWhatItRemembers
<1>1. NodeInv => RunsWhatItRemembers
  <2> SUFFICES ASSUME NodeInv, Quiet, ~failed, ~raced
               PROVE  IF remembered = None THEN running = {} ELSE Started = Wanted(remembered)
    BY DEF RunsWhatItRemembers
  <2>1. ~Pending /\ apply.pc = "idle" /\ \A w \in Writers : upd[w].pc # "profiles"
    BY DEF Quiet, Pending
  <2>2. Ordered(profiles) /\ Started = Processes(profiles) /\ AreProfiles(profiles)
    BY <2>1 DEF NodeInv, RunInv, NodeTypes, ApplyTypes
  <2>3. CASE remembered = None
    <3>1. profiles = <<>>
      BY <2>1, <2>3 DEF NodeInv, ConfInv
    <3>2. Started = {}
      BY <2>2, <3>1, NoProfiles DEF Processes
    <3> QED BY <2>3, <3>2 DEF Started
  <2>4. CASE remembered # None
    <3>1. Holds(profiles, remembered) /\ remembered \in Contents
      BY <2>1, <2>4 DEF NodeInv, ConfInv, NodeTypes, WriterTypes
    <3> QED BY <2>2, <2>4, <3>1, OrderedHolds
  <2> QED BY <2>3, <2>4
<1>2. Spec => []NodeInv
  BY NodeInit, NodeNext, PTL DEF Spec
<1> QED BY <1>1, <1>2, PTL

(* A change of the secret files that the watcher reports and Run does not  *)
(* ignore is never forgotten, whatever tick, event or apply it meets       *)
(* (Run, SecurityFilesChanged, UpdateConfig).                              *)
THEOREM SecretIsNotForgotten == Spec => []SecretNotForgotten
<1>1. NodeInv => SecretNotForgotten
  BY DEF NodeInv, SecInv, SecretNotForgotten, Quiet
<1>2. Spec => []NodeInv
  BY NodeInit, NodeNext, PTL DEF Spec
<1> QED BY <1>1, <1>2, PTL

(* At rest what runs was set up with the HardwareConfigs the manager       *)
(* holds, and the reconciler remembers those, after any failed updates,    *)
(* moved HardwareConfigs and applies between its steps                     *)
(* (reconcileAllConfigs, TriggerRestartForHardwareChange).                 *)
THEOREM HardwareIsApplied == Spec => []HardwareApplied
<1>1. NodeInv => HardwareApplied
  <2> SUFFICES ASSUME NodeInv, Quiet, ~failed, ~raced, hw.pc = "idle", ~hwPending
               PROVE  /\ \A r \in running : HwOf(hwConfigs, r.name) # {} => r.hw = HwOf(hwConfigs, r.name)
                      /\ hwConfigs = lastApplied
    BY DEF HardwareApplied
  <2>1. ~Pending
    BY DEF Quiet, Pending
  <2> QED BY <2>1 DEF NodeInv, HwInv, AllCurrent, Current, Fresh
<1>2. Spec => []NodeInv
  BY NodeInit, NodeNext, PTL DEF Spec
<1> QED BY <1>1, <1>2, PTL
=============================================================================
