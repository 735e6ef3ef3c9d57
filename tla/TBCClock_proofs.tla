-------------------------- MODULE TBCClock_proofs --------------------------
(***************************************************************************)
(* Theorems about the telecom boundary clock, for every scenario: any      *)
(* profile, any reports of its sources, any number of announcements,       *)
(* failures, resets and changes of the grandmaster.                        *)
(***************************************************************************)
EXTENDS TBCClock, Data_proofs

IsClk(c) ==
  /\ DOMAIN c = {"state", "class", "leading", "thresholds", "noHoldover", "clockID", "controlled",
                 "up", "upTP", "down", "downTP", "inSpec", "counter", "token"}
  /\ c.state \in {"NOTSET", "FREERUN", "HOLDOVER", "LOCKED"}
  /\ c.clockID \in BOOLEAN /\ c.controlled \in BOOLEAN
  /\ c.clockID => c.controlled

Coasting(c) == c.state \in {"FREERUN", "HOLDOVER"}

(* A decision: a clock that keeps what the state machine does not set, and *)
(* whether downstream is told.                                             *)
Keeps(c, t) ==
  IsClk(t) /\ t.token = c.token /\ t.up = c.up /\ t.upTP = c.upTP /\ t.leading = c.leading
IsDecision(c, r) == DOMAIN r = {"c", "tell"} /\ Keeps(c, r.c) /\ r.tell \in BOOLEAN

(* Downstream is told whenever the clock starts or stops to coast, or has  *)
(* another class while it coasts.                                          *)
Coasts(c, d, r) ==
  /\ r.tell => r.c.class # 0 /\ d # <<>>
  /\ r.c.state = "NOTSET" => c.state = "NOTSET" /\ r.c.class = c.class /\ ~r.tell
  /\ Coasting(r.c) => r.tell \/ (d = <<>> /\ r.c.class # 0)
                             \/ (c.state = r.c.state /\ c.class = r.c.class)

(* In LOCKED it is not told only when it has the grandmaster already, or   *)
(* must not know it.                                                       *)
Follows(c, r) ==
  r.c.state = "LOCKED" /\ ~r.tell =>
    \/ /\ c.state = "LOCKED" /\ r.c.down = c.up /\ r.c.downTP = c.upTP
       /\ c.up \in {0, Freerun} \/ (c.up = c.down /\ c.upTP = c.downTP)
    \/ c.state # "LOCKED" /\ c.class = 0

(* What the branches of updateState decide. *)
FromFreerun(c, r) ==
  r.c.class = c.class /\ (IF r.tell THEN r.c.state = "LOCKED" ELSE r.c.state = c.state)
FromLocked(c, r) ==
  \/ r.tell /\ Coasting(r.c) /\ r.c.class # 0
  \/ /\ r.c.state = "LOCKED" /\ r.c.down = c.up /\ r.c.downTP = c.upTP
     /\ c.up # Freerun => r.c.class = c.up /\ (r.tell \/ (c.up = c.down /\ c.upTP = c.downTP))
FromHoldover(c, r) ==
  \/ r.tell /\ r.c.state = "FREERUN" /\ r.c.class # 0
  \/ r.tell /\ r.c.state = "LOCKED" /\ r.c.class = c.class
  \/ r.c.state = "HOLDOVER" /\ (IF r.tell THEN r.c.class # 0 ELSE r.c.class = c.class)

LEMMA FreerunShape ==
  ASSUME NEW c, NEW d, IsClk(c), c.state \in {"NOTSET", "FREERUN"}
  PROVE  IsDecision(c, fromFreerun(c, d)) /\ FromFreerun(c, fromFreerun(c, d))
<1> DEFINE n == inSyncCondition(c, d).counter
           locked == [c EXCEPT !.state = "LOCKED", !.counter = n, !.inSpec = TRUE]
           stays == [c EXCEPT !.counter = n]
<1>1. Keeps(c, locked) /\ locked.class = c.class /\ locked.state = "LOCKED"
  BY DEF IsClk, Keeps
<1>2. Keeps(c, stays) /\ stays.class = c.class /\ stays.state = c.state
  BY DEF IsClk, Keeps
<1>3. \/ fromFreerun(c, d) = [c |-> c, tell |-> FALSE]
      \/ fromFreerun(c, d) = [c |-> locked, tell |-> TRUE]
      \/ fromFreerun(c, d) = [c |-> stays, tell |-> FALSE]
  BY DEF fromFreerun
<1>4. Keeps(c, c)
  BY DEF Keeps
<1> HIDE DEF locked, stays
<1>5. ASSUME NEW r, NEW t, NEW b \in BOOLEAN, r = [c |-> t, tell |-> b], Keeps(c, t)
      PROVE  IsDecision(c, r) /\ r.c = t /\ r.tell = b
  BY <1>5 DEF IsDecision
<1>6. CASE fromFreerun(c, d) = [c |-> c, tell |-> FALSE]
  BY <1>4, <1>5, <1>6 DEF FromFreerun
<1>7. CASE fromFreerun(c, d) = [c |-> locked, tell |-> TRUE]
  BY <1>1, <1>5, <1>7 DEF FromFreerun
<1>8. CASE fromFreerun(c, d) = [c |-> stays, tell |-> FALSE]
  BY <1>2, <1>5, <1>8 DEF FromFreerun
<1> QED BY <1>3, <1>6, <1>7, <1>8

LEMMA LockedShape ==
  ASSUME NEW c, NEW d, IsClk(c), c.state = "LOCKED"
  PROVE  IsDecision(c, fromLocked(c, d)) /\ FromLocked(c, fromLocked(c, d))
<1> DEFINE free == To(c, "FREERUN", Freerun)
           hold == [To(c, "HOLDOVER", 135) EXCEPT !.inSpec = TRUE]
           cls == IF c.up = Freerun \/ isTTSC(c) THEN c.class ELSE c.up
           stays == [c EXCEPT !.down = c.up, !.downTP = c.upTP, !.class = cls]
           b == c.up # Freerun /\ (c.up # c.down \/ c.upTP # c.downTP)
<1>1. Keeps(c, free) /\ free.class = Freerun /\ free.state = "FREERUN"
  BY DEF IsClk, Keeps, To
<1>2. Keeps(c, hold) /\ hold.class = 135 /\ hold.state = "HOLDOVER"
  BY DEF IsClk, Keeps, To
<1>3. /\ Keeps(c, stays) /\ stays.class = cls /\ stays.state = "LOCKED"
      /\ stays.down = c.up /\ stays.downTP = c.upTP
  BY DEF IsClk, Keeps
<1>4. \/ fromLocked(c, d) = [c |-> free, tell |-> TRUE]
      \/ fromLocked(c, d) = [c |-> hold, tell |-> TRUE]
      \/ fromLocked(c, d) = [c |-> stays, tell |-> b]
  BY DEF fromLocked, IsClk
<1>5. ~isTTSC(c) /\ Freerun # 0
  BY DEF isTTSC, IsClk, Freerun
<1> HIDE DEF free, hold, stays
<1>6. CASE fromLocked(c, d) = [c |-> stays, tell |-> b]
  <2>1. PICK r : r = fromLocked(c, d)
    OBVIOUS
  <2>2. DOMAIN r = {"c", "tell"} /\ r.c = stays /\ r.tell = b
    BY <1>6, <2>1
  <2>3. r.tell \in BOOLEAN
    BY <2>2
  <2> QED BY <1>3, <1>5, <2>1, <2>2, <2>3 DEF IsDecision, FromLocked
<1>7. CASE fromLocked(c, d) = [c |-> free, tell |-> TRUE]
  BY <1>1, <1>5, <1>7 DEF IsDecision, FromLocked, Coasting
<1>8. CASE fromLocked(c, d) = [c |-> hold, tell |-> TRUE]
  BY <1>2, <1>8 DEF IsDecision, FromLocked, Coasting
<1> QED BY <1>4, <1>6, <1>7, <1>8

LEMMA HoldoverShape ==
  ASSUME NEW c, NEW d, IsClk(c), c.state = "HOLDOVER"
  PROVE  IsDecision(c, fromHoldover(c, d)) /\ FromHoldover(c, fromHoldover(c, d))
<1> DEFINE free == To(c, "FREERUN", Freerun)
           c2 == [c EXCEPT !.counter = inSyncCondition(c, d).counter]
           locked == [c2 EXCEPT !.state = "LOCKED"]
           out == [c2 EXCEPT !.inSpec = FALSE, !.class = 165]
<1>1. Keeps(c, free) /\ free.class = Freerun /\ free.state = "FREERUN"
  BY DEF IsClk, Keeps, To
<1>2. Keeps(c, c2) /\ c2.class = c.class /\ c2.state = "HOLDOVER"
  BY DEF IsClk, Keeps
<1>3. Keeps(c, locked) /\ locked.class = c.class /\ locked.state = "LOCKED"
  BY <1>2 DEF IsClk, Keeps
<1>4. Keeps(c, out) /\ out.class = 165 /\ out.state = "HOLDOVER"
  BY <1>2 DEF IsClk, Keeps
<1>5. \/ fromHoldover(c, d) = [c |-> free, tell |-> TRUE]
      \/ fromHoldover(c, d) = [c |-> locked, tell |-> TRUE]
      \/ fromHoldover(c, d) = [c |-> out, tell |-> c.class # 165]
      \/ fromHoldover(c, d) = [c |-> c2, tell |-> FALSE]
  BY DEF fromHoldover
<1> HIDE DEF free, c2, locked, out
<1>6. CASE fromHoldover(c, d) = [c |-> out, tell |-> c.class # 165]
  <2>1. PICK r : r = fromHoldover(c, d)
    OBVIOUS
  <2>2. DOMAIN r = {"c", "tell"} /\ r.c = out /\ r.tell = (c.class # 165)
    BY <1>6, <2>1
  <2>3. r.tell \in BOOLEAN
    BY <2>2
  <2>4. r.tell \/ c.class = 165
    BY <2>2
  <2>5. IsDecision(c, r) /\ r.c.state = "HOLDOVER" /\ r.c.class = 165
    BY <1>4, <2>2, <2>3 DEF IsDecision
  <2>6. FromHoldover(c, r)
    BY <2>4, <2>5 DEF FromHoldover
  <2> QED BY <2>1, <2>5, <2>6
<1>7. Freerun # 0
  BY DEF Freerun
<1>8. ASSUME NEW r, NEW t, NEW b \in BOOLEAN, r = [c |-> t, tell |-> b], Keeps(c, t)
      PROVE  IsDecision(c, r) /\ r.c = t /\ r.tell = b
  BY <1>8 DEF IsDecision
<1>9. CASE fromHoldover(c, d) = [c |-> free, tell |-> TRUE]
  BY <1>1, <1>7, <1>8, <1>9 DEF FromHoldover
<1>10. CASE fromHoldover(c, d) = [c |-> locked, tell |-> TRUE]
  BY <1>3, <1>8, <1>10 DEF FromHoldover
<1>11. CASE fromHoldover(c, d) = [c |-> c2, tell |-> FALSE]
  BY <1>2, <1>8, <1>11 DEF FromHoldover
<1> QED BY <1>5, <1>6, <1>9, <1>10, <1>11

LEMMA UpdateShape ==
  ASSUME NEW c, NEW d, IsClk(c), getLeadingInterfaceBC(c) # NoIface
  PROVE  LET r == updateState(c, d) IN IsDecision(c, r) /\ Coasts(c, d, r) /\ Follows(c, r)
<1>1. ~isTTSC(c) /\ Freerun # 0
  BY DEF isTTSC, IsClk, Freerun
<1>2. PICK u : u = updateState(c, d)
  OBVIOUS
<1>3. CASE d = <<>>
  <2>1. PICK t : t = To(c, "FREERUN", Freerun)
    OBVIOUS
  <2>2. DOMAIN u = {"c", "tell"} /\ u.c = t /\ u.tell = FALSE
    BY <1>2, <1>3, <2>1 DEF updateState
  <2>3. Keeps(c, t) /\ t.state = "FREERUN" /\ t.class = Freerun
    BY <2>1 DEF To, IsClk, Keeps
  <2>4. IsDecision(c, u)
    BY <2>2, <2>3 DEF IsDecision
  <2> QED BY <1>1, <1>2, <1>3, <2>2, <2>3, <2>4 DEF Coasts, Follows
<1>4. ASSUME NEW r, IsDecision(c, r),
             u = [c |-> [r.c EXCEPT !.class = r.c.class], tell |-> r.tell /\ r.c.class # 0]
      PROVE  /\ IsDecision(c, u) /\ u.tell = (r.tell /\ r.c.class # 0)
             /\ u.c.state = r.c.state /\ u.c.class = r.c.class
             /\ u.c.down = r.c.down /\ u.c.downTP = r.c.downTP
  <2>1. PICK t : t = [r.c EXCEPT !.class = r.c.class]
    OBVIOUS
  <2>2. /\ Keeps(c, t) /\ t.state = r.c.state /\ t.class = r.c.class
        /\ t.down = r.c.down /\ t.downTP = r.c.downTP
    BY <1>4, <2>1 DEF IsClk, Keeps, IsDecision
  <2>3. DOMAIN u = {"c", "tell"} /\ u.c = t /\ u.tell = (r.tell /\ r.c.class # 0)
    BY <1>4, <2>1
  <2>4. u.tell \in BOOLEAN
    BY <2>3
  <2> QED BY <2>2, <2>3, <2>4 DEF IsDecision
<1>5. CASE d # <<>> /\ c.state \in {"NOTSET", "FREERUN"}
  <2>1. PICK r : r = fromFreerun(c, d)
    OBVIOUS
  <2>2. IsDecision(c, r) /\ FromFreerun(c, r)
    BY <1>5, <2>1, FreerunShape
  <2>3. u = [c |-> [r.c EXCEPT !.class = r.c.class], tell |-> r.tell /\ r.c.class # 0]
    BY <1>1, <1>2, <1>5, <2>1 DEF updateState
  <2>4. /\ IsDecision(c, u) /\ u.tell = (r.tell /\ r.c.class # 0)
        /\ u.c.state = r.c.state /\ u.c.class = r.c.class
    BY <1>4, <2>2, <2>3
  <2>5. Coasts(c, d, u) /\ Follows(c, u)
    BY <1>5, <2>2, <2>4 DEF Coasts, Coasting, Follows, FromFreerun
  <2> QED BY <1>2, <2>4, <2>5
<1>6. CASE d # <<>> /\ c.state = "LOCKED"
  <2>1. PICK r : r = fromLocked(c, d)
    OBVIOUS
  <2>2. IsDecision(c, r) /\ FromLocked(c, r)
    BY <1>6, <2>1, LockedShape
  <2>3. u = [c |-> [r.c EXCEPT !.class = r.c.class], tell |-> r.tell /\ r.c.class # 0]
    BY <1>1, <1>2, <1>6, <2>1 DEF updateState
  <2>4. /\ IsDecision(c, u) /\ u.tell = (r.tell /\ r.c.class # 0)
        /\ u.c.state = r.c.state /\ u.c.class = r.c.class
        /\ u.c.down = r.c.down /\ u.c.downTP = r.c.downTP
    BY <1>4, <2>2, <2>3
  <2>5. Coasts(c, d, u)
    BY <1>6, <2>2, <2>4 DEF Coasts, Coasting, FromLocked
  <2>6. Follows(c, u)
    BY <1>6, <2>2, <2>4 DEF Coasting, Follows, FromLocked
  <2> QED BY <1>2, <2>4, <2>5, <2>6
<1>7. CASE d # <<>> /\ c.state = "HOLDOVER"
  <2>1. PICK r : r = fromHoldover(c, d)
    OBVIOUS
  <2>2. IsDecision(c, r) /\ FromHoldover(c, r)
    BY <1>7, <2>1, HoldoverShape
  <2>3. u = [c |-> [r.c EXCEPT !.class = r.c.class], tell |-> r.tell /\ r.c.class # 0]
    BY <1>1, <1>2, <1>7, <2>1 DEF updateState
  <2>4. /\ IsDecision(c, u) /\ u.tell = (r.tell /\ r.c.class # 0)
        /\ u.c.state = r.c.state /\ u.c.class = r.c.class
    BY <1>4, <2>2, <2>3
  <2>5. Coasts(c, d, u) /\ Follows(c, u)
    BY <1>7, <2>2, <2>4 DEF Coasts, Coasting, Follows, FromHoldover
  <2> QED BY <1>2, <2>4, <2>5
<1> QED BY <1>3, <1>5, <1>6, <1>7 DEF IsClk

-----------------------------------------------------------------------------
(* The reports to come have another grandmaster than v. *)
Another(v, rs) == \E k \in 1..Len(rs) : rs[k] # v

(* Who has v has the grandmaster, or will be told of another. *)
Settles(v, w, rs) == v = w \/ Another(v, rs)

Wired(w, rs) ==
  /\ w \in 1..255 /\ rs \in Seq(1..255)
  /\ rs # <<>> => rs[Len(rs)] = w

Base ==
  /\ scenario \in DOMAIN Scenarios
  /\ Wired(wire, reports)
  /\ IsData(data)

(* Tokens are handed out once, and the clock has the last one. *)
TokensOnce ==
  /\ tokens \in Nat /\ clk.token = tokens
  /\ \A f \in fetches :
       /\ DOMAIN f = {"token", "up", "tp"} /\ f.token \in Nat /\ f.token <= tokens
       /\ f.tp # 0 => f.up # 0
       /\ \A g \in fetches : f.token = g.token => f = g

(* A clock that has not started has announced nothing. *)
ClockRight ==
  /\ IsClk(clk) /\ clean \in BOOLEAN
  /\ clk.state # "NOTSET" => getLeadingInterfaceBC(clk) # NoIface
  /\ clk.state = "NOTSET" => clk.class = 0
  /\ Coasting(clk) => clk.class # 0
  /\ clean => clk.state # "NOTSET" /\ data # <<>>
  /\ DOMAIN ports = {"gs", "egp", "own"}

(* What the fetch under way has read settles. *)
FetchSettles ==
  clean /\ clk.state = "LOCKED" =>
    /\ locals = {}
    /\ \A f \in fetches : f.token = clk.token =>
         /\ f.up # 0 => Settles(f.up, wire, reports)
         /\ f.tp # 0 => f.tp = f.up \/ Another(f.up, reports)

(* What the last fetch has left settles, or the grandmaster free-runs. *)
Announced ==
  clean /\ clk.state = "LOCKED" /\ ~Pending =>
    /\ clk.up = clk.down /\ clk.upTP = clk.downTP /\ Settles(clk.down, wire, reports)
    /\ clk.down # Freerun =>
         /\ ports.gs = Pair(clk.down, clk.downTP) /\ ports.egp = Pair(clk.down, clk.downTP)
         /\ clk.downTP = clk.down \/ Another(clk.down, reports)

(* The commands of a clock that coasts are issued or waiting. *)
Value(t, class) == IF t = "egp" THEN 0 ELSE class
CoastAnnounced ==
  clean /\ Coasting(clk) =>
    /\ \A l \in locals :
         l.target \in {"gs", "egp", "own"} /\ l.val.up = Value(l.target, clk.class)
    /\ \A t \in {"gs", "egp", "own"} :
         (\E l \in locals : l.target = t) \/ ports[t].up = Value(t, clk.class)

Core == TokensOnce /\ ClockRight /\ FetchSettles /\ Announced /\ CoastAnnounced
AnnounceInv == Base /\ (~sc.ttsc => Core)

LEMMA Scenario ==
  ASSUME scenario \in DOMAIN Scenarios
  PROVE  /\ Len(sc.ports) > 0 /\ sc.upstreams \subseteq 1..255
         /\ \A x \in sc.dpll : x.nic # NoIface
<1>1. \A n \in DOMAIN Scenarios : IsScenario(Scenarios[n])
  BY TBCAssumption
<1>2. IsScenario(Scenarios[scenario])
  BY <1>1, Zenon
<1> QED BY <1>2, Zenon DEF IsScenario, sc

(* A report is taken, or a grandmaster comes. *)
LEMMA Taken ==
  ASSUME NEW w, NEW rs, Wired(w, rs), rs # <<>>
  PROVE  /\ Wired(w, Tail(rs)) /\ Head(rs) # 0 /\ Settles(Head(rs), w, Tail(rs))
         /\ \A v : Another(v, rs) => v # Head(rs) \/ Another(v, Tail(rs))
<1>1. PICK ts : ts = Tail(rs)
  OBVIOUS
<1>2. PICK n \in Nat : n = Len(rs)
  BY DEF Wired
<1>3. /\ ts \in Seq(1..255) /\ Len(ts) = n - 1 /\ n > 0 /\ Head(rs) = rs[1] /\ rs[1] \in 1..255
      /\ \A k \in 1..(n - 1) : ts[k] = rs[k + 1]
  BY <1>1, <1>2 DEF Wired
<1>4. rs[n] = w
  BY <1>2 DEF Wired
<1>5. n # 1 => n - 1 \in 1..(n - 1) /\ ts[n - 1] = rs[n]
  BY <1>3
<1>6. ts # <<>> => n # 1
  BY <1>3
<1>7. Wired(w, ts)
  BY <1>3, <1>4, <1>5, <1>6 DEF Wired
<1>8. Settles(Head(rs), w, ts)
  BY <1>3, <1>4, <1>5 DEF Settles, Another
<1>9. ASSUME NEW v, Another(v, rs), v = Head(rs) PROVE Another(v, ts)
  <2>1. PICK k \in 1..n : rs[k] # v
    BY <1>2, <1>9 DEF Another
  <2>2. k - 1 \in 1..(n - 1) /\ ts[k - 1] = rs[k]
    BY <1>3, <1>9, <2>1
  <2> QED BY <1>3, <2>1, <2>2 DEF Another
<1>10. \A v : Another(v, rs) => v # Head(rs) \/ Another(v, ts)
  BY <1>9
<1>11. Head(rs) # 0
  <2>1. \A k \in 1..255 : k # 0
    OBVIOUS
  <2> QED BY <1>3, <2>1, Zenon
<1> QED BY <1>1, <1>7, <1>8, <1>10, <1>11, Zenon

LEMMA Comes ==
  ASSUME NEW w, NEW rs, Wired(w, rs), NEW k \in 1..255
  PROVE  Wired(k, Append(rs, k))
<1>1. PICK ts : ts = Append(rs, k)
  OBVIOUS
<1>2. PICK n \in Nat : n = Len(rs)
  BY DEF Wired
<1>3. ts \in Seq(1..255) /\ Len(ts) = n + 1 /\ ts[n + 1] = k
  BY <1>1, <1>2 DEF Wired
<1> QED BY <1>1, <1>3 DEF Wired

LEMMA ComesAnother ==
  ASSUME NEW rs \in Seq(1..255), NEW k \in 1..255, NEW v, Another(v, rs) \/ v # k
  PROVE  Another(v, Append(rs, k))
<1>1. PICK ts : ts = Append(rs, k)
  OBVIOUS
<1>2. PICK n \in Nat : n = Len(rs)
  OBVIOUS
<1>3. /\ Len(ts) = n + 1 /\ ts[n + 1] = k
      /\ \A j \in 1..n : j \in 1..(n + 1) /\ ts[j] = rs[j]
  BY <1>1, <1>2
<1>4. n + 1 \in 1..(n + 1)
  OBVIOUS
<1> QED BY <1>1, <1>2, <1>3, <1>4 DEF Another

-----------------------------------------------------------------------------
(* The clock with what an event has told it. *)
Told(c) ==
  /\ IsClk(c) /\ c.state = clk.state /\ c.class = clk.class /\ c.token = clk.token
  /\ c.upTP = clk.upTP /\ c.down = clk.down /\ c.downTP = clk.downTP
  /\ clk.leading # NoIface => c.leading # NoIface

(* The event is a report of the grandmaster, or leaves the reports alone. *)
ReportOf(c, pmc) ==
  IF pmc THEN reports # <<>> /\ reports' = Tail(reports) /\ c.up = Head(reports)
  ELSE reports' = reports /\ c.up = clk.up

Decided(c, d, r) ==
  /\ IsDecision(c, r) /\ Coasts(c, d, r) /\ Follows(c, r)
  /\ r.c.state # "NOTSET" => getLeadingInterfaceBC(r.c) # NoIface

LEMMA Decides ==
  ASSUME ClockRight, NEW c, NEW d, Told(c)
  PROVE  Decided(c, d, updateState(c, d))
<1>1. PICK r : r = updateState(c, d)
  OBVIOUS
<1>2. c.state # "NOTSET" => getLeadingInterfaceBC(c) # NoIface
  BY DEF ClockRight, Told, getLeadingInterfaceBC
<1>3. CASE getLeadingInterfaceBC(c) # NoIface
  <2>1. IsDecision(c, r) /\ Coasts(c, d, r) /\ Follows(c, r)
    BY <1>1, <1>3, UpdateShape DEF Told
  <2>2. getLeadingInterfaceBC(r.c) = getLeadingInterfaceBC(c)
    BY <2>1 DEF IsDecision, Keeps, getLeadingInterfaceBC
  <2> QED BY <1>1, <1>3, <2>1, <2>2 DEF Decided
<1>4. CASE getLeadingInterfaceBC(c) = NoIface
  <2>1. r = [c |-> c, tell |-> FALSE]
    BY <1>1, <1>4 DEF updateState
  <2>2. DOMAIN r = {"c", "tell"} /\ r.c = c /\ r.tell = FALSE /\ c.state = "NOTSET"
    BY <1>2, <1>4, <2>1
  <2> QED BY <1>1, <2>2 DEF Decided, IsDecision, Keeps, Coasts, Coasting, Follows, Told
<1> QED BY <1>3, <1>4

(* Nothing is told: what was announced still stands. *)
LEMMA SilentStep ==
  ASSUME Base, Core, NEW c, NEW d, NEW r, NEW pmc \in BOOLEAN, Told(c), Decided(c, d, r),
         ReportOf(c, pmc), d = <<>> => data = <<>>, ~r.tell,
         data' = d, clk' = r.c, clean' = (clean /\ ~(pmc /\ Pending)),
         UNCHANGED <<scenario, tokens, fetches, locals, announces, ports, wire>>
  PROVE  Core'
<1>1. /\ clk'.token = clk.token /\ clk'.up = c.up /\ clk'.upTP = clk.upTP /\ IsClk(clk')
      /\ sc' = sc /\ clean' \in BOOLEAN /\ (clean' => clean /\ ~(pmc /\ Pending))
  BY DEF Decided, IsDecision, Keeps, Told, sc, Core, ClockRight
<1>2. TokensOnce'
  BY <1>1 DEF Core, TokensOnce
<1>3. ClockRight'
  <2>1. clk'.state # "NOTSET" => getLeadingInterfaceBC(clk)' # NoIface
    BY <1>1 DEF Decided, getLeadingInterfaceBC
  <2>2. clk'.state = "NOTSET" => clk.state = "NOTSET" /\ clk'.class = clk.class
    BY DEF Decided, Coasts, Told
  <2>3. Coasting(clk') => clk'.class # 0
    BY DEF Decided, Coasts, Told, Core, ClockRight, Coasting
  <2>4. clean' => clk'.state # "NOTSET" /\ data' # <<>>
    BY <1>1, <2>2 DEF Core, ClockRight
  <2> QED BY <1>1, <2>1, <2>2, <2>3, <2>4 DEF Core, ClockRight
<1>4. ASSUME clean', clk'.state = "LOCKED"
      PROVE  /\ clean /\ clk.state = "LOCKED" /\ clk'.down = c.up /\ clk'.downTP = clk.upTP
             /\ c.up \in {0, Freerun} \/ (c.up = clk.down /\ clk.upTP = clk.downTP)
  <2>1. clk.state = "LOCKED" \/ clk.class = 0
    BY <1>4 DEF Decided, Follows, Told
  <2>2. clk.state = "LOCKED"
    BY <1>1, <1>4, <2>1 DEF Core, ClockRight, IsClk, Coasting
  <2> QED BY <1>1, <1>4, <2>2 DEF Decided, Follows, Told
<1>5. FetchSettles'
  <2>1. ASSUME clean', clk'.state = "LOCKED", NEW f \in fetches, f.token = clk.token
        PROVE  reports' = reports
    BY <1>1, <2>1 DEF Pending, ReportOf
  <2> QED BY <1>1, <1>4, <2>1 DEF Core, FetchSettles
<1>6. Announced'
  <2> SUFFICES ASSUME clean', clk'.state = "LOCKED", ~Pending'
               PROVE  /\ clk'.up = clk'.down /\ clk'.upTP = clk'.downTP
                      /\ Settles(clk'.down, wire, reports')
                      /\ clk'.down # Freerun =>
                           /\ ports.gs = Pair(clk'.down, clk'.downTP)
                           /\ ports.egp = Pair(clk'.down, clk'.downTP)
                           /\ clk'.downTP = clk'.down \/ Another(clk'.down, reports')
    BY DEF Announced
  <2>1. ~Pending
    BY <1>1 DEF Pending
  <2>2. /\ clk.up = clk.down /\ clk.upTP = clk.downTP /\ Settles(clk.down, wire, reports)
        /\ clk.down # Freerun =>
             /\ ports.gs = Pair(clk.down, clk.downTP) /\ ports.egp = Pair(clk.down, clk.downTP)
             /\ clk.downTP = clk.down \/ Another(clk.down, reports)
    BY <1>4, <2>1 DEF Core, Announced
  <2>3. clk'.up = clk'.down /\ clk'.upTP = clk'.downTP
    BY <1>1, <1>4
  <2>4. CASE ~pmc
    BY <1>1, <1>4, <2>2, <2>3, <2>4 DEF ReportOf
  <2>5. CASE pmc
    <3>1. /\ reports # <<>> /\ reports' = Tail(reports) /\ c.up = Head(reports)
          /\ Wired(wire, reports)
      BY <2>5 DEF ReportOf, Base
    <3>2. /\ c.up # 0 /\ Settles(c.up, wire, reports')
          /\ Another(c.up, reports) => Another(c.up, reports')
      BY <3>1, Taken
    <3>3. c.up = Freerun \/ (c.up = clk.down /\ clk.upTP = clk.downTP)
      BY <1>4, <3>2
    <3> QED BY <1>4, <2>2, <2>3, <3>2, <3>3
  <2> QED BY <2>4, <2>5
<1>7. CoastAnnounced'
  <2>1. clean' /\ Coasting(clk') => clean /\ Coasting(clk) /\ clk'.class = clk.class
    BY <1>1 DEF Decided, Coasts, Told, Core, ClockRight, Coasting
  <2> QED BY <2>1 DEF Core, CoastAnnounced
<1> QED BY <1>2, <1>3, <1>5, <1>6, <1>7 DEF Core

(* Downstream is told: nothing waits but what it is told. *)
LEMMA TellStep ==
  ASSUME Base, Core, NEW c, NEW d, NEW r, Told(c), Decided(c, d, r), r.tell,
         data' = d, updateDownstreamData(r.c), UNCHANGED <<scenario, ports, wire>>
  PROVE  Core'
<1>1. /\ r.c.token = clk.token /\ IsClk(r.c) /\ r.c.class # 0 /\ d # <<>>
      /\ r.c.state # "NOTSET" /\ getLeadingInterfaceBC(r.c) # NoIface /\ sc' = sc
      /\ clean' \in BOOLEAN /\ (clean' => locals = {})
  BY DEF Decided, IsDecision, Keeps, Coasts, Told, updateDownstreamData, sc
<1>2. CASE r.c.state = "LOCKED"
  <2>1. PICK new : new = [token |-> tokens + 1, up |-> 0, tp |-> 0]
    OBVIOUS
  <2>2. /\ tokens' = tokens + 1 /\ clk' = [r.c EXCEPT !.token = tokens + 1]
        /\ fetches' = fetches \cup {new} /\ locals' = locals
    BY <1>2, <2>1 DEF updateDownstreamData
  <2>3. /\ IsClk(clk') /\ clk'.token = tokens' /\ clk'.state = "LOCKED"
        /\ clk'.leading = r.c.leading
    BY <1>1, <1>2, <2>2 DEF IsClk
  <2>4. DOMAIN new = {"token", "up", "tp"} /\ new.token = tokens + 1 /\ new.up = 0 /\ new.tp = 0
    BY <2>1
  <2>5. tokens \in Nat /\ \A f \in fetches : f.token \in Nat /\ f.token <= tokens
    BY DEF Core, TokensOnce
  <2>6. tokens' \in Nat /\ \A f \in fetches : f.token <= tokens' /\ f.token # tokens'
    BY <2>2, <2>5
  <2>7. TokensOnce'
    BY <2>2, <2>3, <2>4, <2>6 DEF Core, TokensOnce
  <2>8. ClockRight'
    BY <1>1, <2>3 DEF Core, ClockRight, Coasting, getLeadingInterfaceBC
  <2>9. FetchSettles'
    BY <1>1, <2>2, <2>3, <2>4, <2>6 DEF FetchSettles
  <2>10. Pending'
    BY <2>2, <2>3, <2>4 DEF Pending
  <2> QED BY <2>3, <2>7, <2>8, <2>9, <2>10 DEF Core, Announced, CoastAnnounced, Coasting
<1>3. CASE r.c.state # "LOCKED"
  <2>1. /\ locals' = locals \cup {Local("egp", 0, announces), Local("gs", r.c.class, announces),
                                  Local("own", r.c.class, announces)}
        /\ clk' = r.c /\ UNCHANGED <<tokens, fetches>>
    BY <1>3 DEF updateDownstreamData
  <2>2. TokensOnce'
    BY <1>1, <2>1 DEF Core, TokensOnce
  <2>3. ClockRight'
    BY <1>1, <2>1 DEF Core, ClockRight, getLeadingInterfaceBC
  <2>4. CoastAnnounced'
    <3>1. \A t, v : Local(t, v, announces).target = t /\ Local(t, v, announces).val.up = v
      BY DEF Local, Pair
    <3>2. ASSUME clean'
          PROVE  locals' = {Local("egp", 0, announces), Local("gs", clk'.class, announces),
                            Local("own", clk'.class, announces)}
      BY <1>1, <2>1, <3>2
    <3> QED BY <3>1, <3>2 DEF CoastAnnounced, Value
  <2> QED BY <1>3, <2>1, <2>2, <2>3, <2>4 DEF Core, FetchSettles, Announced
<1> QED BY <1>2, <1>3

LEMMA EvaluateStep ==
  ASSUME Base, Core, NEW c, NEW d, NEW pmc \in BOOLEAN, Told(c), ReportOf(c, pmc),
         d = <<>> => data = <<>>, evaluateState(c, d, pmc), UNCHANGED <<scenario, ports, wire>>
  PROVE  Core'
<1>1. PICK r : r = updateState(c, d)
  OBVIOUS
<1>2. Decided(c, d, r)
  BY <1>1, Decides DEF Core
<1>3. /\ data' = d
      /\ IF r.tell THEN updateDownstreamData(r.c)
         ELSE /\ clk' = r.c /\ clean' = (clean /\ ~(pmc /\ Pending))
              /\ UNCHANGED <<tokens, fetches, locals, announces>>
  BY <1>1 DEF evaluateState
<1>4. CASE r.tell
  BY <1>2, <1>3, <1>4, TellStep
<1>5. CASE ~r.tell
  BY <1>2, <1>3, <1>5, SilentStep
<1> QED BY <1>4, <1>5
-----------------------------------------------------------------------------
(* The environment of the clock. *)
LEMMA BaseNext == Base /\ [Next]_vars => Base'
<1> SUFFICES ASSUME Base, [Next]_vars PROVE Base'
  OBVIOUS
<1> USE DEF Base
<1>1. ASSUME UNCHANGED <<scenario, wire, reports>>, IsData(data') PROVE Base'
  BY <1>1
<1>2. ASSUME NEW ev, NEW c, Report(ev, c) PROVE IsData(data')
  <2>1. PICK older \in BOOLEAN : data' = AddEvent(data, ev, older)
    BY <1>2 DEF Report, evaluateState
  <2> QED BY <2>1, AddEventShape
<1>3. ASSUME NEW x \in sc.dpll, DpllEvent(x) PROVE Base'
  BY <1>1, <1>2, <1>3 DEF DpllEvent, envVars
<1>4. ASSUME NEW x \in sc.ts2phc, Ts2phcEvent(x) PROVE Base'
  BY <1>1, <1>2, <1>4 DEF Ts2phcEvent, envVars
<1>5. ASSUME NEW p \in PortSet, PortLocked(p) PROVE Base'
  BY <1>1, <1>5 DEF PortLocked, NoReport
<1>6. ASSUME NEW p \in PortSet, PortLost(p) PROVE Base'
  BY <1>1, <1>2, <1>6 DEF PortLost, Ptp4lState
<1>7. CASE FilterPasses
  BY <1>1, <1>2, <1>7 DEF FilterPasses, Ptp4lState
<1>8. ASSUME NEW o \in sc.ptp4l, Ptp4lOffset(o) PROVE Base'
  BY <1>1, <1>2, <1>8 DEF Ptp4lOffset, envVars
<1>9. ASSUME NEW p, NEW i, GoStale(p, i) PROVE Base'
  BY <1>1, <1>9, ExpireShape DEF GoStale, envVars
<1>10. ASSUME NEW k \in sc.upstreams, UpstreamChanges(k) PROVE Base'
  <2>1. k \in 1..255 /\ k # wire /\ wire' = k /\ reports' = Append(reports, k)
    BY <1>10, Scenario DEF UpstreamChanges
  <2>2. Wired(k, Append(reports, k))
    <3>1. Wired(wire, reports)
      OBVIOUS
    <3>2. k \in 1..255 /\ k # wire
      BY <2>1
    <3> QED BY <3>1, <3>2, Comes
  <2>3. Wired(wire', reports')
    BY <2>1, <2>2
  <2> QED BY <1>10, <2>3 DEF UpstreamChanges, NoReport
<1>11. CASE PmcParentDS
  <2>1. reports # <<>> /\ reports' = Tail(reports) /\ wire' = wire
    BY <1>11 DEF PmcParentDS
  <2>2. Wired(wire', reports')
    BY <2>1, Taken
  <2> QED BY <1>11, <2>2 DEF PmcParentDS, evaluateState
<1>12. ASSUME NEW s, OsClockSample(s) PROVE Base'
  BY <1>1, <1>12 DEF OsClockSample, envVars
<1>13. ASSUME NEW f \in fetches,
              FetchReads(f) \/ FetchReadsTime(f) \/ FetchFails(f) \/ handleDownstreamAnnounceIWF(f)
       PROVE  Base'
  BY <1>1, <1>13 DEF FetchReads, FetchReadsTime, FetchFails, handleDownstreamAnnounceIWF, envVars
<1>14. ASSUME NEW l \in locals, NEW ok \in BOOLEAN, LocalDone(l, ok) PROVE Base'
  BY <1>1, <1>14 DEF LocalDone, envVars
<1>15. IsData(<<>>)
  BY DEF IsData, IsSeq
<1>16. CASE Reset
  BY <1>1, <1>15, <1>16 DEF Reset, envVars
<1>17. CASE NewTBC
  <2>1. PICK w : w = wire
    OBVIOUS
  <2>2. Wired(w, <<w>>)
    BY <2>1 DEF Wired
  <2> QED BY <1>15, <1>17, <2>1, <2>2 DEF NewTBC
<1>18. CASE UNCHANGED vars
  BY <1>1, <1>18 DEF vars
<1> QED BY <1>3, <1>4, <1>5, <1>6, <1>7, <1>8, <1>9, <1>10, <1>11, <1>12, <1>13, <1>14, <1>16, <1>17,
           <1>18 DEF Next

(* An event adds to the data. *)
LEMMA SomeData ==
  ASSUME NEW d, IsData(d), NEW ev, NEW older
  PROVE  AddEvent(d, ev, older) # <<>>
<1>1. PICK g : g = GetData(d, ev.proc)
  OBVIOUS
<1>2. PICK a : a = AddEvent(d, ev, older)
  OBVIOUS
<1>3. Len(g) \in Nat /\ Len(g) > 0
  <2>1. Len(d) \in Nat
    BY SeqFacts DEF IsData
  <2>2. CASE \E k \in 1..Len(d) : d[k].proc = ev.proc
    BY <1>1, <2>1, <2>2 DEF GetData
  <2>3. CASE ~\E k \in 1..Len(d) : d[k].proc = ev.proc
    <3>1. g = Append(d, [proc |-> ev.proc, details |-> <<>>, window |-> <<>>])
      BY <1>1, <2>3 DEF GetData
    <3> QED BY <2>1, <3>1, Appended DEF IsData
  <2> QED BY <2>2, <2>3
<1>4. DOMAIN a = 1..Len(g)
  BY <1>1, <1>2 DEF AddEvent
<1> QED BY <1>2, <1>3, <1>4

LEMMA ReportStep ==
  ASSUME Base, Core, NEW ev, NEW c, Told(c), c.up = clk.up, Report(ev, c),
         UNCHANGED <<scenario, wire, reports>>
  PROVE  Core'
<1>0. PICK older \in BOOLEAN : \E d \in {AddEvent(data, ev, older)} : evaluateState(c, d, FALSE)
  BY DEF Report
<1>1. PICK d \in {AddEvent(data, ev, older)} : evaluateState(c, d, FALSE)
  BY <1>0
<1>2. d # <<>>
  BY <1>1, SomeData DEF Base
<1>3. ReportOf(c, FALSE) /\ UNCHANGED ports
  BY DEF ReportOf, Report
<1> QED BY <1>1, <1>2, <1>3, EvaluateStep

LEMMA SourcesStep ==
  ASSUME Base, Core, ~sc.ttsc,
         \/ \E x \in sc.dpll : DpllEvent(x)
         \/ \E x \in sc.ts2phc : Ts2phcEvent(x)
         \/ \E p \in PortSet : PortLost(p)
         \/ FilterPasses
         \/ \E o \in sc.ptp4l : Ptp4lOffset(o)
  PROVE  Core'
<1>1. Told(clk)
  BY DEF Told, Core, ClockRight
<1>2. ASSUME NEW x \in sc.dpll, DpllEvent(x) PROVE Core'
  <2> DEFINE c1 == IF x.nic = sc.leading THEN [clk EXCEPT !.leading = x.nic] ELSE clk
             c2 == IF x.nic = getLeadingInterfaceBC(c1)
                   THEN [c1 EXCEPT !.noHoldover = sc.noHoldover] ELSE c1
             ev == Sample("dpll", x.nic, x.state, TRUE, x.offset)
  <2>1. x.nic # NoIface
    BY Scenario DEF Base
  <2>2. Told(c1) /\ c1.up = clk.up
    BY <1>1, <2>1 DEF Told, IsClk
  <2>3. Told(c2) /\ c2.up = clk.up
    <3> HIDE DEF c1
    <3> QED BY <2>2 DEF Told, IsClk
  <2>4. PICK c : c = [c2 EXCEPT !.thresholds = TRUE]
    OBVIOUS
  <2>5. Told(c) /\ c.up = clk.up
    <3> HIDE DEF c2
    <3> QED BY <2>3, <2>4 DEF Told, IsClk
  <2>6. Report(ev, c) /\ UNCHANGED <<scenario, wire, reports>>
    BY <1>2, <2>4 DEF DpllEvent, envVars
  <2> QED BY <2>5, <2>6, ReportStep
<1>3. ASSUME NEW x \in sc.ts2phc, Ts2phcEvent(x) PROVE Core'
  <2>1. PICK c : c = clk
    OBVIOUS
  <2> QED BY <1>1, <1>3, <2>1, ReportStep DEF Ts2phcEvent, envVars
<1>4. ASSUME NEW u, Ptp4lState(u), UNCHANGED <<scenario, wire, reports>> PROVE Core'
  <2>1. PICK c : c = [clk EXCEPT !.clockID = TRUE, !.controlled = ~sc.ttsc]
    OBVIOUS
  <2>2. [clk EXCEPT !.clockID = TRUE, !.controlled = TRUE] = c
    BY <2>1
  <2>3. Told(c) /\ c.up = clk.up
    BY <1>1, <2>2 DEF Told, IsClk
  <2> QED BY <1>4, <2>1, <2>3, ReportStep DEF Ptp4lState
<1>5. ASSUME NEW p \in PortSet, PortLost(p) PROVE Core'
  BY <1>4, <1>5 DEF PortLost
<1>6. ASSUME FilterPasses PROVE Core'
  BY <1>4, <1>6 DEF FilterPasses
<1>7. ASSUME NEW o \in sc.ptp4l, Ptp4lOffset(o) PROVE Core'
  <2>1. PICK c : c = clk
    OBVIOUS
  <2> QED BY <1>1, <1>7, <2>1, ReportStep DEF Ptp4lOffset, envVars
<1> QED BY <1>2, <1>3, <1>5, <1>6, <1>7

LEMMA GrandmasterStep ==
  ASSUME Base, Core, PmcParentDS \/ \E k \in sc.upstreams : UpstreamChanges(k)
  PROVE  Core'
<1>1. ASSUME PmcParentDS PROVE Core'
  <2>1. PICK c : c = [clk EXCEPT !.up = Head(reports)]
    OBVIOUS
  <2>2. Told(c) /\ c.up = Head(reports)
    BY <2>1 DEF Told, Core, ClockRight, IsClk
  <2>3. PICK d : d = data
    OBVIOUS
  <2>4. /\ ReportOf(c, TRUE) /\ (d = <<>> => data = <<>>) /\ evaluateState(c, d, TRUE)
        /\ UNCHANGED <<scenario, ports, wire>>
    BY <1>1, <2>1, <2>2, <2>3 DEF PmcParentDS, ReportOf
  <2> QED BY <2>2, <2>4, EvaluateStep
<1>2. ASSUME NEW k \in sc.upstreams, UpstreamChanges(k) PROVE Core'
  <2>1. /\ k \in 1..255 /\ k # wire /\ wire' = k /\ reports' = Append(reports, k)
        /\ reports \in Seq(1..255)
    BY <1>2, Scenario DEF UpstreamChanges, Base, Wired
  <2>2. ASSUME NEW v, Another(v, reports) \/ v # k PROVE Another(v, reports')
    BY <2>1, <2>2, ComesAnother
  <2>3. ASSUME NEW v, Settles(v, wire, reports)
        PROVE  Another(v, reports')
    BY <2>1, <2>2, <2>3 DEF Settles
  <2>4. UNCHANGED <<scenario, clk, data, tokens, fetches, locals, announces, ports, clean>>
    BY <1>2 DEF UpstreamChanges, NoReport
  <2>5. TokensOnce' /\ ClockRight' /\ CoastAnnounced'
    BY <2>4 DEF Core, TokensOnce, ClockRight, CoastAnnounced, getLeadingInterfaceBC, sc
  <2>6. FetchSettles'
    BY <2>2, <2>3, <2>4 DEF Core, FetchSettles, Settles
  <2>7. Announced'
    BY <2>2, <2>3, <2>4 DEF Core, Announced, Settles, Pending
  <2> QED BY <2>5, <2>6, <2>7 DEF Core
<1> QED BY <1>1, <1>2

(* Steps that leave the announcement alone. *)
LEMMA AsideStep ==
  ASSUME Base, Core,
         \/ \E p \in PortSet : PortLocked(p)
         \/ \E p \in sc.stale : \E x \in Details(data, p) : GoStale(p, x.iface)
         \/ \E s \in sc.os : OsClockSample(s)
         \/ UNCHANGED vars
  PROVE  Core'
<1>1. ASSUME UNCHANGED <<scenario, clk, tokens, fetches, locals, announces, ports, wire, reports, clean>>,
             data # <<>> => data' # <<>>
      PROVE  Core'
  <2>1. TokensOnce' /\ ClockRight'
    BY <1>1 DEF Core, TokensOnce, ClockRight, getLeadingInterfaceBC, sc
  <2>2. FetchSettles' /\ CoastAnnounced'
    BY <1>1 DEF Core, FetchSettles, CoastAnnounced
  <2>3. Announced'
    BY <1>1 DEF Core, Announced, Pending
  <2> QED BY <2>1, <2>2, <2>3 DEF Core
<1>2. ASSUME NEW p \in PortSet, PortLocked(p) PROVE Core'
  BY <1>1, <1>2 DEF PortLocked, NoReport
<1>3. ASSUME NEW p, NEW i, GoStale(p, i) PROVE Core'
  <2>1. UNCHANGED <<scenario, clk, tokens, fetches, locals, announces, ports, wire, reports, clean>>
    BY <1>3 DEF GoStale, envVars
  <2>2. Len(data) \in Nat /\ DOMAIN data = 1..Len(data) /\ DOMAIN data' = 1..Len(data)
    BY <1>3, SeqFacts DEF GoStale, Expire, Base, IsData
  <2>3. PICK x : x \in DetailsOf(data, p, i)
    BY <1>3 DEF GoStale
  <2>4. 1..Len(data) # {}
    BY <2>3 DEF DetailsOf, Details, Entries
  <2> QED BY <1>1, <2>1, <2>2, <2>4
<1>4. ASSUME NEW s, OsClockSample(s) PROVE Core'
  BY <1>1, <1>4 DEF OsClockSample, envVars
<1>5. ASSUME UNCHANGED vars PROVE Core'
  BY <1>1, <1>5 DEF vars
<1> QED BY <1>2, <1>3, <1>4, <1>5

LEMMA RestartStep ==
  ASSUME Base, Core, Reset \/ NewTBC
  PROVE  Core'
<1>1. /\ tokens' = tokens + 1 /\ clk' = NewClock(tokens + 1) /\ clean' = FALSE
      /\ UNCHANGED <<fetches, ports>>
  BY DEF Reset, NewTBC
<1>2. /\ IsClk(clk') /\ clk'.state = "NOTSET" /\ clk'.class = 0 /\ clk'.token = tokens'
  BY <1>1 DEF NewClock, IsClk
<1>3. tokens \in Nat /\ \A f \in fetches : f.token \in Nat /\ f.token <= tokens
  BY DEF Core, TokensOnce
<1>4. tokens' \in Nat /\ \A f \in fetches : f.token <= tokens'
  BY <1>1, <1>3
<1>5. TokensOnce'
  BY <1>1, <1>2, <1>4 DEF Core, TokensOnce
<1>6. ClockRight'
  BY <1>1, <1>2 DEF Core, ClockRight, Coasting
<1> QED BY <1>1, <1>5, <1>6 DEF Core, FetchSettles, Announced, CoastAnnounced
-----------------------------------------------------------------------------
(* The goroutines. *)

(* A fetch that reads on is the same fetch. *)
LEMMA ReadStep ==
  ASSUME Base, Core, NEW f \in fetches, FetchReads(f) \/ FetchReadsTime(f)
  PROVE  Core'
<1>1. PICK g : g = IF f.up = 0 THEN [f EXCEPT !.up = wire] ELSE [f EXCEPT !.tp = wire]
  OBVIOUS
<1>2. /\ fetches' = (fetches \ {f}) \cup {g}
      /\ UNCHANGED <<scenario, clk, data, tokens, locals, announces, ports, wire, reports, clean>>
  BY <1>1 DEF FetchReads, FetchReadsTime, envVars
<1>3. /\ tokens \in Nat /\ clk.token = tokens /\ DOMAIN f = {"token", "up", "tp"}
      /\ f.token \in Nat /\ f.token <= tokens /\ (f.tp # 0 => f.up # 0) /\ wire # 0
      /\ \A h \in fetches : h.token = f.token => h = f
  BY DEF Core, TokensOnce, Base, Wired
<1>4. /\ DOMAIN g = {"token", "up", "tp"} /\ g.token = f.token
      /\ \/ f.up = 0 /\ g.up = wire /\ g.tp = 0
         \/ f.up # 0 /\ f.tp = 0 /\ g.up = f.up /\ g.tp = wire
  BY <1>1, <1>3 DEF FetchReads, FetchReadsTime
<1>5. \A h \in fetches' : h = g \/ (h \in fetches /\ h # f)
  BY <1>2
<1>6. TokensOnce'
  <2>1. ASSUME NEW h \in fetches'
        PROVE  /\ DOMAIN h = {"token", "up", "tp"} /\ h.token \in Nat /\ h.token <= tokens
               /\ (h.tp # 0 => h.up # 0)
    BY <1>3, <1>4, <1>5 DEF Core, TokensOnce
  <2>2. ASSUME NEW h \in fetches', NEW i \in fetches', h.token = i.token PROVE h = i
    BY <1>3, <1>4, <1>5, <2>2 DEF Core, TokensOnce
  <2> QED BY <1>2, <1>3, <2>1, <2>2 DEF TokensOnce
<1>7. Pending' <=> Pending
  BY <1>2, <1>4, <1>5 DEF Pending
<1>8. ClockRight' /\ CoastAnnounced'
  BY <1>2 DEF Core, ClockRight, CoastAnnounced, getLeadingInterfaceBC, sc
<1>9. FetchSettles'
  <2> SUFFICES ASSUME clean, clk.state = "LOCKED", NEW h \in fetches', h.token = clk.token
               PROVE  /\ h.up # 0 => Settles(h.up, wire, reports)
                      /\ h.tp # 0 => h.tp = h.up \/ Another(h.up, reports)
    BY <1>2 DEF Core, FetchSettles
  <2>1. CASE h \in fetches
    BY <2>1 DEF Core, FetchSettles
  <2>2. CASE h = g
    <3>1. f.up # 0 => Settles(f.up, wire, reports)
      BY <1>4, <2>2 DEF Core, FetchSettles
    <3> QED BY <1>4, <2>2, <3>1 DEF Settles
  <2> QED BY <1>5, <2>1, <2>2
<1>10. Announced'
  BY <1>2, <1>7 DEF Core, Announced
<1> QED BY <1>6, <1>8, <1>9, <1>10 DEF Core

LEMMA FailStep ==
  ASSUME Base, Core, NEW f \in fetches, FetchFails(f)
  PROVE  Core'
<1>1. /\ fetches' = fetches \ {f} /\ clean' = FALSE
      /\ UNCHANGED <<scenario, clk, tokens, ports>>
  BY DEF FetchFails, envVars
<1>2. TokensOnce' /\ ClockRight'
  BY <1>1 DEF Core, TokensOnce, ClockRight, getLeadingInterfaceBC, sc
<1> QED BY <1>1, <1>2 DEF Core, FetchSettles, Announced, CoastAnnounced

(* A result is dropped, or becomes what is announced. *)
LEMMA ResultStep ==
  ASSUME Base, Core, NEW f \in fetches, handleDownstreamAnnounceIWF(f)
  PROVE  Core'
<1>1. /\ f.tp # 0 /\ fetches' = fetches \ {f}
      /\ UNCHANGED <<scenario, data, tokens, locals, announces, wire, reports>>
  BY DEF handleDownstreamAnnounceIWF, envVars
<1>2. \A h \in fetches : h.token = f.token => h = f
  BY DEF Core, TokensOnce
<1>3. CASE f.token # clk.token \/ clk.state # "LOCKED"
  <2>1. UNCHANGED <<clk, ports, clean>>
    BY <1>3 DEF handleDownstreamAnnounceIWF
  <2>2. TokensOnce' /\ ClockRight' /\ FetchSettles' /\ CoastAnnounced'
    BY <1>1, <2>1 DEF Core, TokensOnce, ClockRight, FetchSettles, CoastAnnounced,
                      getLeadingInterfaceBC, sc
  <2>3. clk.state = "LOCKED" /\ Pending => Pending'
    BY <1>1, <1>3, <2>1 DEF Pending
  <2>4. Announced'
    BY <1>1, <2>1, <2>3 DEF Core, Announced
  <2> QED BY <2>2, <2>4 DEF Core
<1>4. CASE f.token = clk.token /\ clk.state = "LOCKED"
  <2>1. PICK failed \in SUBSET (sc.fails \cap {"gs", "egp"}) :
          /\ clk' = [clk EXCEPT !.up = f.up, !.upTP = f.tp, !.down = f.up, !.downTP = f.tp]
          /\ ports' = Issued({"gs", "egp"} \ failed, Pair(f.up, f.tp))
          /\ clean' = (clean /\ failed = {})
    BY <1>4 DEF handleDownstreamAnnounceIWF
  <2>2. clean' \in BOOLEAN /\ (clean' => clean /\ failed = {})
    BY <2>1
  <2>3. /\ IsClk(clk') /\ clk'.state = clk.state /\ clk'.class = clk.class
        /\ clk'.token = clk.token /\ clk'.leading = clk.leading
        /\ clk'.up = f.up /\ clk'.down = f.up /\ clk'.upTP = f.tp /\ clk'.downTP = f.tp
    BY <2>1 DEF IsClk, Core, ClockRight
  <2>4. /\ DOMAIN ports' = {"gs", "egp", "own"}
        /\ failed = {} => ports'.gs = Pair(f.up, f.tp) /\ ports'.egp = Pair(f.up, f.tp)
    BY <2>1 DEF Issued, Core, ClockRight
  <2>5. TokensOnce'
    BY <1>1, <2>3 DEF Core, TokensOnce
  <2>6. ClockRight'
    BY <1>1, <2>2, <2>3, <2>4 DEF Core, ClockRight, Coasting, getLeadingInterfaceBC, sc
  <2>7. ~Pending'
    BY <1>1, <1>2, <1>4, <2>3 DEF Pending
  <2>8. FetchSettles'
    BY <1>1, <2>2, <2>3, <2>7 DEF Core, FetchSettles, Pending
  <2>9. Announced'
    <3> SUFFICES ASSUME clean'
                 PROVE  /\ clk'.up = clk'.down /\ clk'.upTP = clk'.downTP
                        /\ Settles(clk'.down, wire, reports)
                        /\ ports'.gs = Pair(clk'.down, clk'.downTP)
                        /\ ports'.egp = Pair(clk'.down, clk'.downTP)
                        /\ clk'.downTP = clk'.down \/ Another(clk'.down, reports)
      BY <1>1 DEF Announced
    <3>1. f.up # 0
      BY <1>1 DEF Core, TokensOnce
    <3>2. Settles(f.up, wire, reports) /\ (f.tp = f.up \/ Another(f.up, reports))
      BY <1>1, <1>4, <2>2, <3>1 DEF Core, FetchSettles
    <3> QED BY <2>2, <2>3, <2>4, <3>2
  <2>10. CoastAnnounced'
    BY <1>4, <2>3 DEF CoastAnnounced, Coasting
  <2> QED BY <2>5, <2>6, <2>8, <2>9, <2>10 DEF Core
<1> QED BY <1>3, <1>4

LEMMA LocalStep ==
  ASSUME Base, Core, NEW l \in locals, NEW ok \in BOOLEAN, LocalDone(l, ok)
  PROVE  Core'
<1>1. /\ locals' = locals \ {l} /\ ports' = (IF ok THEN Issued({l.target}, l.val) ELSE ports)
      /\ clean' = (clean /\ ok)
      /\ UNCHANGED <<scenario, clk, data, tokens, fetches, announces, wire, reports>>
  BY DEF LocalDone, envVars
<1>2. clean' \in BOOLEAN /\ (clean' => clean /\ ok)
  BY <1>1
<1>3. DOMAIN ports' = {"gs", "egp", "own"}
  BY <1>1 DEF Issued, Core, ClockRight
<1>4. TokensOnce' /\ ClockRight'
  BY <1>1, <1>2, <1>3 DEF Core, TokensOnce, ClockRight, getLeadingInterfaceBC, sc
<1>5. FetchSettles' /\ Announced'
  <2>1. ~(clean /\ clk.state = "LOCKED")
    BY DEF Core, FetchSettles
  <2> QED BY <1>1, <1>2, <2>1 DEF FetchSettles, Announced
<1>6. CoastAnnounced'
  <2> SUFFICES ASSUME clean', Coasting(clk)
               PROVE  /\ \A m \in locals' : m.target \in {"gs", "egp", "own"}
                                            /\ m.val.up = Value(m.target, clk.class)
                      /\ \A t \in {"gs", "egp", "own"} :
                           (\E m \in locals' : m.target = t) \/ ports'[t].up = Value(t, clk.class)
    BY <1>1 DEF CoastAnnounced
  <2>1. /\ \A m \in locals : m.target \in {"gs", "egp", "own"}
                             /\ m.val.up = Value(m.target, clk.class)
        /\ \A t \in {"gs", "egp", "own"} :
             (\E m \in locals : m.target = t) \/ ports[t].up = Value(t, clk.class)
    BY <1>2 DEF Core, CoastAnnounced
  <2>2. /\ \A t \in {"gs", "egp", "own"} : t # l.target => ports'[t] = ports[t]
        /\ ports'[l.target] = l.val
    BY <1>1, <1>2, <2>1 DEF Issued, Core, ClockRight
  <2> QED BY <1>1, <2>1, <2>2
<1> QED BY <1>4, <1>5, <1>6 DEF Core
-----------------------------------------------------------------------------
LEMMA ScenarioFixed == [Next]_vars => scenario' = scenario
BY DEF Next, vars, envVars, NoReport, DpllEvent, Ts2phcEvent, PortLocked, PortLost, FilterPasses,
       Ptp4lOffset, GoStale, UpstreamChanges, PmcParentDS, OsClockSample, FetchReads,
       FetchReadsTime, FetchFails, handleDownstreamAnnounceIWF, LocalDone, Reset, NewTBC

LEMMA BaseStart == Init => Base
<1> SUFFICES ASSUME Init PROVE Base
  OBVIOUS
<1>1. PICK w : w = wire
  OBVIOUS
<1>2. w \in 1..255
  BY <1>1, Scenario DEF Init
<1>3. Wired(w, <<w>>)
  BY <1>2 DEF Wired
<1> QED BY <1>1, <1>3 DEF Init, Base, IsData, IsSeq

LEMMA AnnounceStart == Init => AnnounceInv
<1> SUFFICES ASSUME Init PROVE AnnounceInv
  OBVIOUS
<1>1. clk = NewClock(1) /\ tokens = 1 /\ fetches = {} /\ clean = FALSE
  BY DEF Init
<1>2. IsClk(clk) /\ clk.state = "NOTSET" /\ clk.class = 0 /\ clk.token = 1
  BY <1>1 DEF NewClock, IsClk
<1>3. DOMAIN ports = {"gs", "egp", "own"}
  BY DEF Init
<1> QED BY <1>1, <1>2, <1>3, BaseStart
        DEF AnnounceInv, Core, TokensOnce, ClockRight, FetchSettles, Announced, CoastAnnounced,
            Coasting

LEMMA AnnounceInductive == AnnounceInv /\ [Next]_vars => AnnounceInv'
<1> SUFFICES ASSUME AnnounceInv, [Next]_vars PROVE AnnounceInv'
  OBVIOUS
<1>1. Base /\ Base'
  BY BaseNext DEF AnnounceInv
<1>2. sc' = sc
  BY ScenarioFixed DEF sc
<1>3. ASSUME ~sc.ttsc PROVE Core'
  <2>1. Core
    BY <1>3 DEF AnnounceInv
  <2> QED BY <1>1, <1>3, <2>1, SourcesStep, GrandmasterStep, AsideStep, RestartStep, ReadStep, FailStep,
             ResultStep, LocalStep DEF Next
<1> QED BY <1>1, <1>2, <1>3 DEF AnnounceInv

(* DownstreamFollowsUpstream, for every scenario: however the reports of   *)
(* the sources, the changes of the grandmaster, the fetches, the failures  *)
(* and the resets interleave, the ports of a LOCKED clock whose last       *)
(* announcement is done announce the grandmaster it was last told of       *)
(* (updateDownstreamData and handleDownstreamAnnounceIWF of tbc.go).       *)
THEOREM UpstreamIsFollowed == Spec => []DownstreamFollowsUpstream
<1>1. AnnounceInv => DownstreamFollowsUpstream
  <2> SUFFICES ASSUME AnnounceInv, Quiet, clean, ~sc.ttsc, clk.state = "LOCKED", reports = <<>>,
                      wire # Freerun
               PROVE  ports.gs = Pair(wire, wire) /\ ports.egp = Pair(wire, wire)
    BY DEF DownstreamFollowsUpstream
  <2>1. ~Pending /\ \A v : ~Another(v, reports)
    BY DEF Quiet, Another
  <2>2. clk.down = wire
    BY <2>1 DEF AnnounceInv, Core, Announced, Settles
  <2> QED BY <2>1, <2>2 DEF AnnounceInv, Core, Announced
<1> QED BY <1>1, AnnounceStart, AnnounceInductive, PTL DEF Spec

(* LocalDataAnnounced, for every scenario: a clock that coasts announces   *)
(* itself with its class, and no fetch puts the upstream's data back       *)
(* (announceLocalData and handleDownstreamAnnounceIWF of tbc.go).          *)
THEOREM LocalDataIsAnnounced == Spec => []LocalDataAnnounced
<1>1. AnnounceInv => LocalDataAnnounced
  <2> SUFFICES ASSUME AnnounceInv, Quiet, clean, ~sc.ttsc, Coasting(clk)
               PROVE  ports.gs.up = clk.class /\ ports.own.up = clk.class /\ ports.egp.up = 0
    BY DEF LocalDataAnnounced, Coasting
  <2>1. \A t \in {"gs", "egp", "own"} : ports[t].up = Value(t, clk.class)
    BY DEF AnnounceInv, Core, CoastAnnounced, Quiet
  <2> QED BY <2>1 DEF Value
<1> QED BY <1>1, AnnounceStart, AnnounceInductive, PTL DEF Spec

-----------------------------------------------------------------------------
(* The loss of the upstream, with one upstream port whose reports the wall *)
(* clock does not date back.                                               *)
OnePort ==
  \A n \in DOMAIN Scenarios : Len(Scenarios[n].ports) = 1 /\ "ptp4l" \notin Scenarios[n].older

LossInv ==
  /\ Base
  /\ DOMAIN upstream = {"slaves", "active", "reported", "applied"}
  /\ upstream.active \in {NoIface, sc.ports[1]}
  /\ Only(data, "ptp4l", sc.ports[1])
  /\ upstream.reported = "FREERUN" => Right(data, "ptp4l", sc.ports[1], "FREERUN")

LEMMA OneIsActive ==
  ASSUME OnePort, scenario \in DOMAIN Scenarios
  PROVE  "ptp4l" \notin sc.older /\ \A p \in PortSet : p = sc.ports[1]
<1>1. Len(sc.ports) = 1 /\ "ptp4l" \notin sc.older
  BY Zenon DEF OnePort, sc
<1> QED BY <1>1 DEF PortSet

(* A report of the DPLLs or of ts2phc leaves those of ptp4l alone. *)
LEMMA OtherReport ==
  ASSUME LossInv, NEW ev, NEW c, ev.proc # "ptp4l", Report(ev, c), UNCHANGED <<scenario, upstream>>, Base'
  PROVE  LossInv'
<1>1. PICK older \in BOOLEAN : data' = AddEvent(data, ev, older)
  BY DEF Report, evaluateState
<1>2. /\ \A n : Only(data, "ptp4l", n) => Only(data', "ptp4l", n)
      /\ \A n, s : Right(data, "ptp4l", n, s) => Right(data', "ptp4l", n, s)
  BY <1>1, AddEventShape DEF LossInv, Base
<1> QED BY <1>2 DEF LossInv, sc

(* ptp4l reports the state that its process has recorded. *)
LEMMA OwnReport ==
  ASSUME OnePort, LossInv, NEW ev, NEW c, ev.proc = "ptp4l", ev.iface = sc.ports[1],
         ev.state = upstream'.reported, Report(ev, c), scenario' = scenario, Base',
         DOMAIN upstream' = {"slaves", "active", "reported", "applied"},
         upstream'.active \in {NoIface, sc.ports[1]}
  PROVE  LossInv'
<1>1. data' = AddEvent(data, ev, FALSE)
  BY OneIsActive DEF Report, evaluateState, LossInv, Base
<1>2. /\ Only(data', "ptp4l", sc.ports[1])
      /\ Right(data', "ptp4l", sc.ports[1], ev.state)
  BY <1>1, AddEventShape DEF LossInv, Base
<1> QED BY <1>2 DEF LossInv, sc

LEMMA LossInductive ==
  ASSUME OnePort
  PROVE  LossInv /\ [Next]_vars => LossInv'
<1> SUFFICES ASSUME LossInv, [Next]_vars PROVE LossInv'
  OBVIOUS
<1>1. Base /\ Base' /\ scenario' = scenario /\ sc' = sc
  BY BaseNext, ScenarioFixed DEF LossInv, sc
<1>2. "ptp4l" \notin sc.older /\ \A p \in PortSet : p = sc.ports[1]
  BY <1>1, OneIsActive DEF Base
<1>3. CASE UNCHANGED <<upstream, data>>
  BY <1>1, <1>3 DEF LossInv
<1>4. ASSUME NEW x \in sc.dpll, DpllEvent(x) PROVE LossInv'
  <2>1. PICK ev : ev = Sample("dpll", x.nic, x.state, TRUE, x.offset)
    OBVIOUS
  <2>2. ev.proc # "ptp4l"
    BY <2>1 DEF Sample
  <2> QED BY <1>1, <1>4, <2>1, <2>2, OtherReport DEF DpllEvent, envVars
<1>5. ASSUME NEW x \in sc.ts2phc, Ts2phcEvent(x) PROVE LossInv'
  <2>1. PICK ev : ev = Sample("ts2phc", x.nic, "LOCKED", TRUE, x.offset)
    OBVIOUS
  <2>2. ev.proc # "ptp4l"
    BY <2>1 DEF Sample
  <2> QED BY <1>1, <1>5, <2>1, <2>2, OtherReport DEF Ts2phcEvent, envVars
<1>6. ASSUME NEW u, DOMAIN u = {"slaves", "active", "reported", "applied"},
             u.active \in {NoIface, sc.ports[1]}, upstream' = u,
             NEW has, NEW o, NEW c, Report(Sample("ptp4l", activeTRPort(u), u.reported, has, o), c)
      PROVE  LossInv'
  <2>1. PICK ev : ev = Sample("ptp4l", activeTRPort(u), u.reported, has, o)
    OBVIOUS
  <2>2. ev.proc = "ptp4l" /\ ev.iface = sc.ports[1] /\ ev.state = u.reported
    BY <1>6, <2>1 DEF Sample, activeTRPort
  <2> QED BY <1>1, <1>6, <2>1, <2>2, OwnReport
<1>7. ASSUME NEW p \in PortSet, PortLocked(p) PROVE LossInv'
  <2>1. /\ DOMAIN upstream' = {"slaves", "active", "reported", "applied"}
        /\ upstream'.active = p /\ upstream'.reported = "LOCKED" /\ data' = data
    BY <1>7 DEF PortLocked, NoReport, LossInv
  <2> QED BY <1>1, <1>2, <2>1 DEF LossInv
<1>8. ASSUME NEW p \in PortSet, PortLost(p) PROVE LossInv'
  <2>1. PICK u : u = [upstream EXCEPT !.slaves = @ \ {p}, !.reported = "FREERUN", !.applied = FALSE,
                                      !.active = IF sc.hwConfig THEN NoIface ELSE @]
    OBVIOUS
  <2>2. /\ DOMAIN u = {"slaves", "active", "reported", "applied"}
        /\ u.active \in {NoIface, sc.ports[1]}
    BY <2>1 DEF LossInv
  <2>3. upstream' = u /\ Ptp4lState(u)
    BY <1>8, <2>1 DEF PortLost
  <2> QED BY <1>6, <2>2, <2>3 DEF Ptp4lState
<1>9. CASE FilterPasses
  <2>1. PICK u : u = upstream
    OBVIOUS
  <2>2. Ptp4lState(u)
    BY <1>9, <2>1 DEF FilterPasses
  <2>3. upstream' = [upstream EXCEPT !.applied = TRUE]
    BY <1>9 DEF FilterPasses
  <2>4. /\ DOMAIN upstream' = {"slaves", "active", "reported", "applied"}
        /\ upstream'.active = u.active /\ upstream'.reported = u.reported
    BY <2>1, <2>3 DEF LossInv
  <2>5. PICK ev, c : /\ ev = Sample("ptp4l", activeTRPort(u), u.reported, FALSE, 0)
                     /\ Report(ev, c)
    BY <2>2 DEF Ptp4lState
  <2>6. ev.proc = "ptp4l" /\ ev.iface = sc.ports[1] /\ ev.state = u.reported
    BY <2>1, <2>5 DEF Sample, activeTRPort, LossInv
  <2> QED BY <1>1, <2>1, <2>4, <2>5, <2>6, OwnReport DEF LossInv
<1>10. ASSUME NEW o \in sc.ptp4l, Ptp4lOffset(o) PROVE LossInv'
  <2>1. PICK u : u = upstream
    OBVIOUS
  <2>2. /\ Report(Sample("ptp4l", activeTRPort(u), u.reported, TRUE, o), clk)
        /\ upstream' = u
    BY <1>10, <2>1 DEF Ptp4lOffset, envVars
  <2> QED BY <1>6, <2>1, <2>2 DEF LossInv
<1>11. ASSUME NEW p, NEW i, GoStale(p, i) PROVE LossInv'
  <2>1. data' = Expire(data, p, i) /\ upstream' = upstream
    BY <1>11 DEF GoStale, envVars
  <2>2. /\ \A n : Only(data, "ptp4l", n) => Only(data', "ptp4l", n)
        /\ \A n, s : Right(data, "ptp4l", n, s) => Right(data', "ptp4l", n, s)
    BY <1>1, <2>1, ExpireShape DEF Base
  <2> QED BY <1>1, <2>1, <2>2 DEF LossInv
<1>12. CASE (\E k \in sc.upstreams : UpstreamChanges(k)) \/ PmcParentDS \/ UNCHANGED vars
  BY <1>3, <1>12 DEF UpstreamChanges, NoReport, PmcParentDS, evaluateState, vars
<1>13. ASSUME NEW s, OsClockSample(s) PROVE LossInv'
  BY <1>3, <1>13 DEF OsClockSample, envVars
<1>14. ASSUME NEW f \in fetches,
              FetchReads(f) \/ FetchReadsTime(f) \/ FetchFails(f) \/ handleDownstreamAnnounceIWF(f)
       PROVE  LossInv'
  BY <1>3, <1>14 DEF FetchReads, FetchReadsTime, FetchFails, handleDownstreamAnnounceIWF, envVars
<1>15. ASSUME NEW l \in locals, NEW ok \in BOOLEAN, LocalDone(l, ok) PROVE LossInv'
  BY <1>3, <1>15 DEF LocalDone, envVars
<1>16. \A n, s : Only(<<>>, "ptp4l", n) /\ Right(<<>>, "ptp4l", n, s)
  BY DEF Only, Right
<1>17. CASE Reset
  BY <1>1, <1>16, <1>17 DEF Reset, envVars, LossInv
<1>18. CASE NewTBC
  BY <1>1, <1>16, <1>18 DEF NewTBC, LossInv
<1> QED BY <1>4, <1>5, <1>7, <1>8, <1>9, <1>10, <1>11, <1>12, <1>13, <1>14, <1>15, <1>17, <1>18 DEF Next

(* UpstreamLossSeen, for every scenario with one upstream port: whatever   *)
(* the order of log lines, offsets, resets and profile applies, a clock    *)
(* whose upstream port is lost has no LOCKED report of ptp4l left          *)
(* (processTBCTransitionHardwareConfig and sendPtp4lStateEvent of          *)
(* ptp_process.go).  With two ports it does not hold, nor where the wall   *)
(* clock dates the report back, which Data.AddEvent then leaves out.       *)
THEOREM UpstreamLossIsSeen ==
  ASSUME OnePort
  PROVE  Spec => []UpstreamLossSeen
<1>1. Init => LossInv
  <2> SUFFICES ASSUME Init PROVE LossInv
    OBVIOUS
  <2>1. data = <<>>
    BY DEF Init
  <2>2. \A n, s : Only(data, "ptp4l", n) /\ Right(data, "ptp4l", n, s)
    BY <2>1 DEF Only, Right
  <2> QED BY <2>2, BaseStart DEF Init, LossInv
<1>2. LossInv => UpstreamLossSeen
  <2> SUFFICES ASSUME LossInv, upstream.reported = "FREERUN"
               PROVE  \A x \in Details(data, "ptp4l") : x.state # "LOCKED"
    BY DEF UpstreamLossSeen, isSourceLostBC
  <2> QED BY DEF LossInv, Details, Entries, Only, Right
<1> QED BY <1>1, <1>2, LossInductive, PTL DEF Spec
=============================================================================
