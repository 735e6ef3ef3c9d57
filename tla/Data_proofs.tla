---------------------------- MODULE Data_proofs ----------------------------
(***************************************************************************)
(* Lemmas about the operators that more than one component uses: the       *)
(* sublists SelectIn returns, and what an event does to the data of a      *)
(* clock.  An induction over the length of a prefix is stated with sets of *)
(* naturals, so that it needs no operator parameter, and rests on the      *)
(* well-foundedness of the naturals.                                       *)
(***************************************************************************)
EXTENDS ClockData, Sublists, SequencesExt, TLAPS, FiniteSetTheorems, WellFoundedInduction,
        NaturalsInduction

-----------------------------------------------------------------------------
(* Least numbers, induction, and the sublists of SelectIn.                 *)

(* A non-empty set of naturals has a least element. *)
LEMMA LeastNumber ==
  ASSUME NEW T, T \subseteq Nat, T # {}
  PROVE  \E n \in T : \A m \in T : n <= m
<1>1. PICK x \in T : \A y \in T : ~(<<y, x>> \in OpToRel(<, Nat))
  BY NatLessThanWellFounded, WFMin
<1>2. \A y \in T : ~(y < x)
  BY <1>1 DEF OpToRel
<1> QED BY <1>2

(* A set that has 0, and with a number its successor, has every natural. *)
LEMMA SetInduction ==
  ASSUME NEW S, 0 \in S, \A n \in Nat : n \in S => n + 1 \in S
  PROVE  Nat \subseteq S
<1> SUFFICES ASSUME Nat \ S # {} PROVE FALSE
  OBVIOUS
<1>1. PICK n \in Nat \ S : \A m \in Nat \ S : n <= m
  BY LeastNumber
<1>2. n # 0 /\ n - 1 \in Nat
  BY <1>1
<1>3. n - 1 \in S
  BY <1>1, <1>2
<1> QED BY <1>1, <1>2, <1>3

(* A function whose value at a point depends on those at points of less    *)
(* depth can be defined by recursion.                                      *)
Founded(D, S, F, depth, m) ==
  /\ S # {} /\ depth \in [D -> Nat] /\ m \in Nat /\ \A i \in D : depth[i] < m
  /\ F \in [D \X [D -> S] -> S]
  /\ \A i \in D, f, g \in [D -> S] :
        (\A j \in D : depth[j] < depth[i] => f[j] = g[j]) => F[<<i, f>>] = F[<<i, g>>]

LEMMA Recursion ==
  ASSUME NEW D, NEW S, NEW F, NEW depth, NEW m, Founded(D, S, F, depth, m)
  PROVE  \E f \in [D -> S] : \A i \in D : f[i] = F[<<i, f>>]
<1> USE DEF Founded
<1> DEFINE P == {k \in Nat : \E f \in [D -> S] : \A i \in D : depth[i] < k => f[i] = F[<<i, f>>]}
<1>1. 0 \in P
  <2>1. PICK s \in S : TRUE
    OBVIOUS
  <2>2. [i \in D |-> s] \in [D -> S] /\ \A i \in D : ~(depth[i] < 0)
    OBVIOUS
  <2> QED BY <2>2
<1>2. ASSUME NEW k \in Nat, k \in P PROVE k + 1 \in P
  <2>1. PICK f \in [D -> S] : \A i \in D : depth[i] < k => f[i] = F[<<i, f>>]
    BY <1>2
  <2> DEFINE g == [i \in D |-> IF depth[i] = k THEN F[<<i, f>>] ELSE f[i]]
  <2>2. g \in [D -> S]
    OBVIOUS
  <2>3. ASSUME NEW i \in D, depth[i] < k + 1 PROVE g[i] = F[<<i, g>>]
    <3>1. \A j \in D : depth[j] < depth[i] => f[j] = g[j]
      BY <2>3
    <3>2. F[<<i, f>>] = F[<<i, g>>]
      <4> HIDE DEF g
      <4> QED BY <2>2, <3>1
    <3>3. depth[i] = k \/ depth[i] < k
      <4>1. depth[i] \in Nat
        OBVIOUS
      <4> QED BY <2>3, <4>1
    <3>4. g[i] = F[<<i, f>>]
      <4>1. CASE depth[i] = k
        BY <4>1
      <4>2. CASE depth[i] < k
        BY <2>1, <4>2
      <4> QED BY <3>3, <4>1, <4>2
    <3> QED BY <3>2, <3>4
  <2> HIDE DEF g
  <2>4. \A i \in D : depth[i] < k + 1 => g[i] = F[<<i, g>>]
    BY <2>3
  <2> QED BY <2>2, <2>4
<1> HIDE DEF P
<1>3. m \in P
  BY <1>1, <1>2, SetInduction
<1> QED BY <1>3 DEF P

(* f is the recursive function of SelectIn on the prefixes up to m. *)
Longer(s, T, f, n) ==
  IF n = 0 THEN <<>>
  ELSE IF s[n] \in T THEN Append(f[n - 1], s[n]) ELSE f[n - 1]
UpTo(s, T, m, f) == f = [n \in 0..m |-> Longer(s, T, f, n)]

(* That function exists. *)
LEMMA UpToExists ==
  ASSUME NEW s, NEW T, NEW m \in Nat
  PROVE  \E f : UpTo(s, T, m, f)
<1> DEFINE S == {k \in Nat : \E f : UpTo(s, T, k, f)}
<1>1. 0 \in S
  <2>1. UpTo(s, T, 0, [n \in 0..0 |-> <<>>])
    BY DEF UpTo, Longer
  <2> QED BY <2>1
<1>2. ASSUME NEW k \in Nat, k \in S PROVE k + 1 \in S
  <2>1. PICK f : UpTo(s, T, k, f)
    BY <1>2
  <2> DEFINE g == [n \in 0..(k + 1) |-> IF n = k + 1 THEN Longer(s, T, f, n) ELSE f[n]]
  <2>2. \A n \in 0..(k + 1) : Longer(s, T, g, n) = g[n]
    <3> TAKE n \in 0..(k + 1)
    <3>1. CASE n = k + 1
      BY <2>1, <3>1 DEF Longer, UpTo
    <3>2. CASE n # k + 1
      <4>1. n \in 0..k /\ (n # 0 => n - 1 \in 0..k /\ n - 1 # k + 1 /\ n - 1 \in 0..(k + 1))
        BY <3>2
      <4>2. f[n] = Longer(s, T, f, n)
        BY <4>1, <2>1 DEF UpTo
      <4>3. Longer(s, T, g, n) = Longer(s, T, f, n)
        BY <4>1 DEF Longer
      <4> QED BY <4>1, <4>2, <4>3, <3>2
    <3> QED BY <3>1, <3>2
  <2>3. UpTo(s, T, k + 1, g)
    BY <2>2 DEF UpTo
  <2> QED BY <2>3
<1> HIDE DEF S
<1>3. Nat \subseteq S
  BY <1>1, <1>2, SetInduction
<1> QED BY <1>3 DEF S

(* SelectIn is its value for the whole sequence... *)
LEMMA SelectInDef ==
  ASSUME NEW s, NEW T, Len(s) \in Nat
  PROVE  \E f : UpTo(s, T, Len(s), f) /\ SelectIn(s, T) = f[Len(s)]
<1>1. PICK g : UpTo(s, T, Len(s), g)
  BY UpToExists
<1> QED BY <1>1 DEF SelectIn, UpTo, Longer

(* ...and grows by at most one element at a time. *)
LEMMA UpToStep ==
  ASSUME NEW s, NEW T, NEW m \in Nat, NEW f, UpTo(s, T, m, f)
  PROVE  /\ f[0] = <<>>
         /\ \A k \in Nat : k + 1 <= m =>
              f[k + 1] = IF s[k + 1] \in T THEN Append(f[k], s[k + 1]) ELSE f[k]
<1>1. \A n \in 0..m : f[n] = Longer(s, T, f, n)
  BY DEF UpTo
<1>2. ASSUME NEW k \in Nat, k + 1 <= m
      PROVE f[k + 1] = IF s[k + 1] \in T THEN Append(f[k], s[k + 1]) ELSE f[k]
  <2>1. k + 1 \in 0..m /\ k + 1 # 0 /\ (k + 1) - 1 = k
    BY <1>2
  <2>2. f[k + 1] = Longer(s, T, f, k + 1)
    BY <1>1, <2>1
  <2> QED BY <2>1, <2>2 DEF Longer
<1>3. f[0] = <<>>
  BY <1>1 DEF Longer
<1> QED BY <1>2, <1>3

(* The selected elements, and no others, are in the result. *)
LEMMA AppendedSet ==
  ASSUME NEW S, NEW q \in Seq(S), NEW x \in S
  PROVE  ToSet(Append(q, x)) = ToSet(q) \cup {x}
<1>1. /\ DOMAIN Append(q, x) = 1..Len(q) + 1 /\ DOMAIN q = 1..Len(q) /\ Len(q) \in Nat
      /\ \A i \in 1..Len(q) : Append(q, x)[i] = q[i]
      /\ Append(q, x)[Len(q) + 1] = x
  OBVIOUS
<1> QED BY <1>1 DEF ToSet

First(s, n) == {s[i] : i \in 1..n}

Selected(S, T, s, f) ==
  \A n \in Nat : n <= Len(s) => f[n] \in Seq(S \cap T) /\ ToSet(f[n]) = First(s, n) \cap T

LEMMA PrefixElements ==
  ASSUME NEW S, NEW T, NEW s \in Seq(S), NEW f, UpTo(s, T, Len(s), f)
  PROVE  Selected(S, T, s, f)
<1> DEFINE P == {k \in Nat : k <= Len(s) => /\ f[k] \in Seq(S \cap T)
                                            /\ ToSet(f[k]) = First(s, k) \cap T}
<1>2. 0 \in P
  <2>1. f[0] = <<>>
    BY DEF UpTo, Longer
  <2>2. ToSet(<<>>) = {} /\ First(s, 0) = {} /\ <<>> \in Seq(S \cap T)
    BY DEF ToSet, First
  <2> QED BY <2>1, <2>2
<1>3. ASSUME NEW k \in Nat, k \in P PROVE k + 1 \in P
  <2> SUFFICES ASSUME k + 1 <= Len(s)
               PROVE f[k + 1] \in Seq(S \cap T) /\ ToSet(f[k + 1]) = First(s, k + 1) \cap T
    OBVIOUS
  <2>1. /\ f[k] \in Seq(S \cap T) /\ k + 1 \in 1..Len(s) /\ s[k + 1] \in S
        /\ ToSet(f[k]) = First(s, k) \cap T
    BY <1>3
  <2>2. f[k + 1] = IF s[k + 1] \in T THEN Append(f[k], s[k + 1]) ELSE f[k]
    BY <2>1, UpToStep
  <2>3. First(s, k + 1) = First(s, k) \cup {s[k + 1]}
    BY <2>1 DEF First
  <2>4. CASE s[k + 1] \in T
    BY <2>1, <2>2, <2>3, <2>4, AppendedSet
  <2>5. CASE s[k + 1] \notin T
    BY <2>1, <2>2, <2>3, <2>5
  <2> QED BY <2>4, <2>5
<1> HIDE DEF P
<1>4. Nat \subseteq P
  BY <1>2, <1>3, SetInduction
<1> QED BY <1>4 DEF P, Selected

LEMMA SelectInElements ==
  ASSUME NEW S, NEW T, NEW s \in Seq(S)
  PROVE  /\ SelectIn(s, T) \in Seq(S \cap T)
         /\ ToSet(SelectIn(s, T)) = ToSet(s) \cap T
<1>1. PICK f : UpTo(s, T, Len(s), f) /\ SelectIn(s, T) = f[Len(s)]
  BY SelectInDef
<1>2. First(s, Len(s)) = ToSet(s)
  BY DEF ToSet, First
<1>3. Selected(S, T, s, f)
  BY <1>1, PrefixElements
<1> QED BY <1>1, <1>2, <1>3 DEF Selected

(* No element is selected twice from a sequence that has none twice. *)
Once(q) == \A i, j \in 1..Len(q) : i # j => q[i] # q[j]

LEMMA AppendedOnce ==
  ASSUME NEW S, NEW q \in Seq(S), NEW x \in S, Once(q), x \notin ToSet(q)
  PROVE  Once(Append(q, x))
<1>1. \A i \in 1..Len(q) : q[i] # x
  BY DEF ToSet
<1> QED BY <1>1 DEF Once

LEMMA SelectInOnce ==
  ASSUME NEW S, NEW T, NEW s \in Seq(S), Once(s)
  PROVE  Once(SelectIn(s, T))
<1>1. PICK f : UpTo(s, T, Len(s), f) /\ SelectIn(s, T) = f[Len(s)]
  BY SelectInDef
<1>4. Selected(S, T, s, f)
  BY <1>1, PrefixElements
<1> DEFINE P == {k \in Nat : k <= Len(s) => Once(f[k])}
<1>2. 0 \in P
  <2>1. f[0] = <<>>
    BY <1>1 DEF UpTo, Longer
  <2> QED BY <2>1 DEF Once
<1>3. ASSUME NEW k \in Nat, k \in P PROVE k + 1 \in P
  <2> SUFFICES ASSUME k + 1 <= Len(s) PROVE Once(f[k + 1])
    OBVIOUS
  <2>1. /\ f[k] \in Seq(S \cap T) /\ k + 1 \in 1..Len(s) /\ s[k + 1] \in S
        /\ ToSet(f[k]) = First(s, k) \cap T
    BY <1>4 DEF Selected
  <2>2. f[k + 1] = IF s[k + 1] \in T THEN Append(f[k], s[k + 1]) ELSE f[k]
    BY <1>1, <2>1, UpToStep
  <2>3. s[k + 1] \notin ToSet(f[k])
    <3>1. \A i \in 1..k : s[i] # s[k + 1]
      BY <2>1 DEF Once
    <3> QED BY <2>1, <3>1 DEF First
  <2>4. Once(f[k])
    BY <1>3
  <2>5. CASE s[k + 1] \in T
    BY <2>1, <2>2, <2>3, <2>4, <2>5, AppendedOnce
  <2>6. CASE s[k + 1] \notin T
    BY <2>2, <2>4, <2>6
  <2> QED BY <2>5, <2>6
<1> HIDE DEF P
<1>5. Nat \subseteq P
  BY <1>2, <1>3, SetInduction
<1> QED BY <1>1, <1>5 DEF P

(* A sequence all of which is selected is returned as it is. *)
LEMMA SelectInAll ==
  ASSUME NEW S, NEW T, NEW s \in Seq(S), \A i \in 1..Len(s) : s[i] \in T
  PROVE  SelectIn(s, T) = s
<1>1. PICK f : UpTo(s, T, Len(s), f) /\ SelectIn(s, T) = f[Len(s)]
  BY SelectInDef
<1> DEFINE P == {k \in Nat : k <= Len(s) =>
                   /\ f[k] \in Seq(S) /\ Len(f[k]) = k
                   /\ \A i \in 1..k : f[k][i] = s[i]}
<1>2. 0 \in P
  <2>1. f[0] = <<>>
    BY <1>1 DEF UpTo, Longer
  <2>2. f[0] \in Seq(S) /\ Len(f[0]) = 0 /\ \A i \in 1..0 : f[0][i] = s[i]
    BY <2>1
  <2> QED BY <2>2
<1>3. ASSUME NEW k \in Nat, k \in P PROVE k + 1 \in P
  <2> SUFFICES ASSUME k + 1 <= Len(s)
               PROVE  /\ f[k + 1] \in Seq(S) /\ Len(f[k + 1]) = k + 1
                      /\ \A i \in 1..(k + 1) : f[k + 1][i] = s[i]
    OBVIOUS
  <2>1. k + 1 \in 1..Len(s) /\ s[k + 1] \in S \cap T
    OBVIOUS
  <2>2. f[k + 1] = IF s[k + 1] \in T THEN Append(f[k], s[k + 1]) ELSE f[k]
    BY <1>1, <2>1, UpToStep
  <2>3. f[k] \in Seq(S) /\ Len(f[k]) = k /\ \A i \in 1..k : f[k][i] = s[i]
    BY <1>3
  <2> QED BY <2>1, <2>2, <2>3
<1> HIDE DEF P
<1>4. Nat \subseteq P
  BY <1>2, <1>3, SetInduction
<1>5. /\ f[Len(s)] \in Seq(S) /\ Len(f[Len(s)]) = Len(s)
      /\ \A i \in 1..Len(s) : f[Len(s)][i] = s[i]
  BY <1>4 DEF P
<1> QED BY <1>1, <1>5
-----------------------------------------------------------------------------
(* The data of a clock, for every window size: an event is written into    *)
(* the detail of its process and interface and into no other.              *)

(* The sequences and records of DataHolder. *)
IsSeq(s) == \E S : s \in Seq(S)
IsDetail(x) == DOMAIN x = {"iface", "state", "lost", "outOfSpec", "offset", "stale"}
IsEntry(e) ==
  /\ DOMAIN e = {"proc", "details", "window"}
  /\ IsSeq(e.details) /\ \A j \in 1..Len(e.details) : IsDetail(e.details[j])
IsData(d) == IsSeq(d) /\ \A k \in 1..Len(d) : IsEntry(d[k])

LEMMA SeqFacts ==
  ASSUME NEW s, IsSeq(s)
  PROVE  Len(s) \in Nat /\ DOMAIN s = 1..Len(s)
BY DEF IsSeq

LEMMA Tabulated ==
  ASSUME NEW m \in Nat, NEW s, DOMAIN s = 1..m, s = [k \in 1..m |-> s[k]]
  PROVE  IsSeq(s) /\ Len(s) = m
<1>1. PICK S : S = {s[k] : k \in 1..m}
  OBVIOUS
<1>2. s \in [1..m -> S]
  BY <1>1
<1>3. s \in Seq(S)
  BY <1>2
<1>4. Len(s) = m
  BY <1>2, <1>3
<1> QED BY <1>3, <1>4 DEF IsSeq

LEMMA Appended ==
  ASSUME NEW s, IsSeq(s), NEW x
  PROVE  LET t == Append(s, x)
         IN  /\ IsSeq(t) /\ Len(t) = Len(s) + 1 /\ t[Len(s) + 1] = x
             /\ \A k \in 1..Len(s) : t[k] = s[k]
<1>1. PICK S : s \in Seq(S)
  BY DEF IsSeq
<1>2. s \in Seq(S \cup {x})
  BY <1>1
<1>3. Append(s, x) \in Seq(S \cup {x})
  BY <1>2
<1> QED BY <1>2, <1>3 DEF IsSeq

(* An event is written into the detail of its interface and no other; one  *)
(* that is older than what is there may be left out.                       *)
Written(e, ev, older, f) ==
  /\ IsEntry(f) /\ f.proc = e.proc
  /\ \A j \in 1..Len(f.details) :
       \/ f.details[j].iface = ev.iface /\ f.details[j].state = ev.state
       \/ /\ j \in 1..Len(e.details) /\ f.details[j] = e.details[j]
          /\ older \/ f.details[j].iface # ev.iface

LEMMA AddDetailShape ==
  ASSUME NEW e, IsEntry(e), NEW ev, NEW older \in BOOLEAN
  PROVE  Written(e, ev, older, AddDetail(e, ev, older))
<1> DEFINE at == {j \in 1..Len(e.details) : e.details[j].iface = ev.iface}
           upd(d) == [d EXCEPT !.state = ev.state, !.lost = ev.lost, !.outOfSpec = ev.outOfSpec,
                               !.stale = FALSE,
                               !.offset = IF ev.hasOffset THEN ev.offset ELSE @]
           new == [iface |-> ev.iface, state |-> ev.state, lost |-> ev.lost,
                   outOfSpec |-> ev.outOfSpec, offset |-> 0, stale |-> FALSE]
           f == AddDetail(e, ev, older)
<1>1. PICK ds : ds = e.details
  OBVIOUS
<1>2. IsSeq(ds) /\ Len(ds) \in Nat /\ DOMAIN ds = 1..Len(ds)
  BY <1>1, SeqFacts DEF IsEntry
<1>3. CASE at = {}
  <2>1. PICK fs : fs = Append(ds, new)
    OBVIOUS
  <2>2. f = [e EXCEPT !.details = fs]
    BY <1>1, <1>3, <2>1 DEF AddDetail
  <2>3. /\ IsSeq(fs) /\ Len(fs) = Len(ds) + 1 /\ fs[Len(ds) + 1] = new
        /\ \A k \in 1..Len(ds) : fs[k] = ds[k]
    BY <1>2, <2>1, Appended
  <2>4. DOMAIN f = {"proc", "details", "window"} /\ f.details = fs /\ f.proc = e.proc
    BY <2>2 DEF IsEntry
  <2>5. IsDetail(new) /\ new.iface = ev.iface /\ new.state = ev.state
    BY DEF IsDetail
  <2> HIDE DEF f, new
  <2>6. \A j \in 1..Len(fs) : j \in 1..Len(ds) \/ j = Len(ds) + 1
    BY <1>2, <2>3
  <2>7. \A j \in 1..Len(ds) : ds[j].iface # ev.iface
    BY <1>1, <1>3
  <2> QED BY <1>1, <2>3, <2>4, <2>5, <2>6, <2>7 DEF IsEntry, Written, f
<1>4. CASE at # {} /\ older
  <2>1. f = e
    BY <1>4 DEF AddDetail
  <2> HIDE DEF f
  <2> QED BY <1>4, <2>1 DEF Written, f
<1>5. CASE at # {} /\ ~older
  <2>1. PICK fs : fs = [j \in 1..Len(ds) |-> IF j \in at THEN upd(ds[j]) ELSE ds[j]]
    OBVIOUS
  <2>2. \E w : f = [e EXCEPT !.details = fs, !.window = w]
    BY <1>1, <1>5, <2>1 DEF AddDetail, IsEntry
  <2>3. DOMAIN f = {"proc", "details", "window"} /\ f.details = fs /\ f.proc = e.proc
    BY <2>2 DEF IsEntry
  <2>4. IsSeq(fs) /\ Len(fs) = Len(ds)
    BY <1>2, <2>1, Tabulated
  <2>5. ASSUME NEW j \in 1..Len(ds)
        PROVE  /\ IsDetail(fs[j])
               /\ \/ fs[j].iface = ev.iface /\ fs[j].state = ev.state
                  \/ fs[j] = ds[j] /\ fs[j].iface # ev.iface
    <3>1. IsDetail(ds[j])
      BY <1>1 DEF IsEntry
    <3>2. IsDetail(upd(ds[j])) /\ upd(ds[j]).iface = ds[j].iface /\ upd(ds[j]).state = ev.state
      BY <3>1 DEF IsDetail
    <3>3. fs[j] = IF j \in at THEN upd(ds[j]) ELSE ds[j]
      BY <2>1
    <3> HIDE DEF upd
    <3> QED BY <1>1, <3>1, <3>2, <3>3
  <2> HIDE DEF f
  <2> QED BY <1>1, <2>3, <2>4, <2>5 DEF IsEntry, Written, f
<1> QED BY <1>3, <1>4, <1>5

(* Of interface n, process q has told no other state than s, and of no     *)
(* other interface than n has it told anything.                            *)
Right(d, q, n, s) ==
  \A k \in 1..Len(d) : d[k].proc = q =>
    \A j \in 1..Len(d[k].details) : d[k].details[j].iface = n => d[k].details[j].state = s
Only(d, q, n) ==
  \A k \in 1..Len(d) : d[k].proc = q =>
    \A j \in 1..Len(d[k].details) : d[k].details[j].iface = n

LEMMA GetDataShape ==
  ASSUME NEW d, IsData(d), NEW p
  PROVE  /\ IsData(GetData(d, p))
         /\ \A q, n, s : Right(d, q, n, s) => Right(GetData(d, p), q, n, s)
         /\ \A q, n : Only(d, q, n) => Only(GetData(d, p), q, n)
<1>1. CASE GetData(d, p) = d
  BY <1>1
<1>2. CASE GetData(d, p) # d
  <2> DEFINE new == [proc |-> p, details |-> <<>>, window |-> <<>>]
  <2>1. PICK g : g = GetData(d, p)
    OBVIOUS
  <2>2. g = Append(d, new)
    BY <1>2, <2>1 DEF GetData
  <2>3. IsEntry(new) /\ Len(new.details) = 0
    BY DEF IsEntry, IsSeq
  <2> HIDE DEF new
  <2>4. Len(d) \in Nat
    BY SeqFacts DEF IsData
  <2>5. /\ IsSeq(g) /\ Len(g) = Len(d) + 1 /\ g[Len(d) + 1] = new
        /\ \A k \in 1..Len(d) : g[k] = d[k]
    BY <2>2, Appended DEF IsData
  <2>6. \A k \in 1..Len(g) : k \in 1..Len(d) \/ k = Len(d) + 1
    BY <2>4, <2>5
  <2>7. IsData(g)
    BY <2>3, <2>5, <2>6 DEF IsData
  <2>8. \A q, n, s : Right(d, q, n, s) => Right(g, q, n, s)
    BY <2>3, <2>5, <2>6 DEF Right
  <2>9. \A q, n : Only(d, q, n) => Only(g, q, n)
    BY <2>3, <2>5, <2>6 DEF Only
  <2> QED BY <2>1, <2>7, <2>8, <2>9
<1> QED BY <1>1, <1>2

LEMMA AddEventShape ==
  ASSUME NEW d, IsData(d), NEW ev, NEW older \in BOOLEAN
  PROVE  /\ IsData(AddEvent(d, ev, older))
         /\ \A q, n, s :
              (IF ev.proc = q /\ ev.iface = n THEN ~older /\ ev.state = s ELSE Right(d, q, n, s))
                => Right(AddEvent(d, ev, older), q, n, s)
         /\ \A q, n : Only(d, q, n) /\ (ev.proc = q => ev.iface = n)
                => Only(AddEvent(d, ev, older), q, n)
<1>1. PICK g : g = GetData(d, ev.proc)
  OBVIOUS
<1>2. PICK a : a = AddEvent(d, ev, older)
  OBVIOUS
<1>3. /\ IsData(g) /\ Len(g) \in Nat
      /\ \A q, n, s : Right(d, q, n, s) => Right(g, q, n, s)
      /\ \A q, n : Only(d, q, n) => Only(g, q, n)
  BY <1>1, GetDataShape, SeqFacts DEF IsData
<1>4. a = [k \in 1..Len(g) |-> IF g[k].proc = ev.proc THEN AddDetail(g[k], ev, older) ELSE g[k]]
  BY <1>1, <1>2 DEF AddEvent
<1>5. IsSeq(a) /\ Len(a) = Len(g)
  BY <1>3, <1>4, Tabulated
<1>6. \A k \in 1..Len(g) :
        IF g[k].proc = ev.proc THEN Written(g[k], ev, older, a[k]) ELSE a[k] = g[k]
  <2> TAKE k \in 1..Len(g)
  <2>1. IsEntry(g[k])
    BY <1>3 DEF IsData
  <2>2. a[k] = IF g[k].proc = ev.proc THEN AddDetail(g[k], ev, older) ELSE g[k]
    BY <1>4
  <2> QED BY <2>1, <2>2, AddDetailShape
<1>7. ASSUME NEW q, NEW n, NEW s,
             IF ev.proc = q /\ ev.iface = n THEN ~older /\ ev.state = s ELSE Right(g, q, n, s)
      PROVE  Right(a, q, n, s)
  <2> SUFFICES ASSUME NEW k \in 1..Len(g), a[k].proc = q,
                      NEW j \in 1..Len(a[k].details), a[k].details[j].iface = n
               PROVE  a[k].details[j].state = s
    BY <1>5 DEF Right
  <2>1. CASE ev.proc = q
    BY <1>6, <1>7, <2>1 DEF Right, Written
  <2>2. CASE ev.proc # q
    BY <1>6, <1>7, <2>2 DEF Right, Written
  <2> QED BY <2>1, <2>2
<1>8. ASSUME NEW q, NEW n, Only(g, q, n), ev.proc = q => ev.iface = n
      PROVE  Only(a, q, n)
  BY <1>5, <1>6, <1>8 DEF Only, Written
<1>9. IsData(a)
  BY <1>3, <1>5, <1>6 DEF IsData, Written
<1> QED BY <1>2, <1>3, <1>7, <1>8, <1>9

(* A report that stays away changes no state and no interface. *)
LEMMA ExpireShape ==
  ASSUME NEW d, IsData(d), NEW p, NEW i
  PROVE  /\ IsData(Expire(d, p, i))
         /\ \A q, n, s : Right(d, q, n, s) => Right(Expire(d, p, i), q, n, s)
         /\ \A q, n : Only(d, q, n) => Only(Expire(d, p, i), q, n)
<1> DEFINE det(e) == [j \in 1..Len(e.details) |->
                       IF e.details[j].iface = i THEN [e.details[j] EXCEPT !.stale = TRUE]
                       ELSE e.details[j]]
           exp(e) == [e EXCEPT !.details = det(e)]
<1>1. PICK a : a = Expire(d, p, i)
  OBVIOUS
<1>2. a = [k \in 1..Len(d) |-> IF d[k].proc = p THEN exp(d[k]) ELSE d[k]]
  BY <1>1 DEF Expire
<1>3. IsSeq(a) /\ Len(a) = Len(d)
  BY <1>2, Tabulated, SeqFacts DEF IsData
<1>4. ASSUME NEW e, IsEntry(e)
      PROVE  /\ IsEntry(exp(e)) /\ exp(e).proc = e.proc /\ Len(exp(e).details) = Len(e.details)
             /\ \A j \in 1..Len(e.details) :
                  /\ exp(e).details[j].iface = e.details[j].iface
                  /\ exp(e).details[j].state = e.details[j].state
  <2>1. DOMAIN exp(e) = {"proc", "details", "window"} /\ exp(e).details = det(e)
        /\ exp(e).proc = e.proc
    BY <1>4 DEF IsEntry
  <2>2. Len(e.details) \in Nat
    BY <1>4, SeqFacts DEF IsEntry
  <2>3. IsSeq(det(e)) /\ Len(det(e)) = Len(e.details)
    BY <2>2, Tabulated
  <2>4. ASSUME NEW j \in 1..Len(e.details)
        PROVE  /\ IsDetail(det(e)[j]) /\ det(e)[j].iface = e.details[j].iface
               /\ det(e)[j].state = e.details[j].state
    BY <1>4 DEF IsEntry, IsDetail
  <2> HIDE DEF det, exp
  <2> QED BY <2>1, <2>3, <2>4 DEF IsEntry
<1> HIDE DEF exp
<1>5. \A k \in 1..Len(d) :
        /\ IsEntry(a[k]) /\ a[k].proc = d[k].proc /\ Len(a[k].details) = Len(d[k].details)
        /\ \A j \in 1..Len(d[k].details) :
             /\ a[k].details[j].iface = d[k].details[j].iface
             /\ a[k].details[j].state = d[k].details[j].state
  BY <1>2, <1>4 DEF IsData
<1>6. \A q, n, s : Right(d, q, n, s) => Right(a, q, n, s)
  <2> SUFFICES ASSUME NEW q, NEW n, NEW s, Right(d, q, n, s) PROVE Right(a, q, n, s)
    OBVIOUS
  <2> SUFFICES ASSUME NEW k \in 1..Len(a), a[k].proc = q,
                      NEW j \in 1..Len(a[k].details), a[k].details[j].iface = n
               PROVE  a[k].details[j].state = s
    BY DEF Right
  <2>1. k \in 1..Len(d) /\ d[k].proc = q /\ j \in 1..Len(d[k].details) /\ d[k].details[j].iface = n
    BY <1>3, <1>5
  <2> QED BY <1>5, <2>1 DEF Right
<1>7. \A q, n : Only(d, q, n) => Only(a, q, n)
  BY <1>3, <1>5 DEF Only
<1> QED BY <1>1, <1>3, <1>5, <1>6, <1>7 DEF IsData
=============================================================================
