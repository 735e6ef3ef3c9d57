--------------------------- MODULE GMClock_proofs ---------------------------
(***************************************************************************)
(* Theorems about the grandmaster clock and the DPLLs under it, for every  *)
(* scenario: any set of NICs and of their changes, any holdover timeout,   *)
(* any number of faults and of failed announcements.                       *)
(***************************************************************************)
EXTENDS GMClock, Data_proofs

(* DpllConfig, a goroutine, and what is known of a NIC. *)
IsDpll(d) ==
  /\ DOMAIN d = {"phase", "freq", "offset", "inSpec", "lost", "state", "onHoldover", "closing"}
  /\ d.onHoldover \in BOOLEAN /\ d.closing \in BOOLEAN
IsGo(g) == DOMAIN g = {"id", "pc", "el"}

(* No goroutine, or one, and then no other can be started. *)
Guarded(d, hs) ==
  /\ IsDpll(d)
  /\ \/ hs = {}
     \/ \E g : hs = {g} /\ IsGo(g) /\ (d.onHoldover \/ d.closing)
DpllInv ==
  /\ DOMAIN dpll = sc.nics /\ DOMAIN hos = sc.nics
  /\ \A n \in sc.nics : Guarded(dpll[n], hos[n])

-----------------------------------------------------------------------------
(* What a decision may change. *)

LEMMA FreeRunningShape ==
  ASSUME NEW d, IsDpll(d)
  PROVE  /\ IsDpll(FreeRunning(d)) /\ FreeRunning(d).onHoldover = d.onHoldover
         /\ FreeRunning(d).closing = d.closing
BY DEF FreeRunning, IsDpll

LEMMA DecisionShape ==
  ASSUME NEW n, NEW d, IsDpll(d)
  PROVE  LET r == stateDecision(n, d)
         IN  /\ IsDpll(r.d) /\ r.d.closing = d.closing
             /\ \/ ~r.start /\ r.d.onHoldover = d.onHoldover
                \/ r.start /\ r.d.onHoldover = TRUE /\ ~d.onHoldover /\ ~d.closing
<1> DEFINE s == getDpllState(n, d)
           outOfSpec == \/ ~d.inSpec
                        \/ sc.source[n] = "ptp" /\ Size(d.offset) > MaxHoldoverOffset
           d1 == [d EXCEPT !.inSpec = FALSE, !.lost = TRUE]
           d2 == [d EXCEPT !.lost = TRUE]
           d3 == [d EXCEPT !.onHoldover = TRUE, !.state = "HOLDOVER"]
           d4 == [d EXCEPT !.inSpec = TRUE, !.lost = FALSE, !.state = "LOCKED"]
           d5 == [d EXCEPT !.inSpec = FALSE]
           r == stateDecision(n, d)
<1>1. /\ IsDpll(d1) /\ d1.onHoldover = d.onHoldover /\ d1.closing = d.closing
      /\ IsDpll(d2) /\ d2.onHoldover = d.onHoldover /\ d2.closing = d.closing
      /\ IsDpll(d4) /\ d4.onHoldover = d.onHoldover /\ d4.closing = d.closing
      /\ IsDpll(d5) /\ d5.onHoldover = d.onHoldover /\ d5.closing = d.closing
  BY DEF IsDpll
<1>2. IsDpll(d3) /\ d3.onHoldover = TRUE /\ d3.closing = d.closing
  BY DEF IsDpll
<1>3. \/ r.d \in {FreeRunning(d1), FreeRunning(d), FreeRunning(d2), d, d4, FreeRunning(d5)}
         /\ r.start = FALSE
      \/ r.d = d3 /\ r.start = TRUE /\ ~(d.onHoldover \/ d.closing)
  <2>1. CASE s \in {"FREERUN", "INVALID", "UNKNOWN"}
    BY <2>1 DEF stateDecision
  <2>2. CASE s = "HOLDOVER"
    BY <2>2 DEF stateDecision
  <2>3. CASE s \notin {"FREERUN", "INVALID", "UNKNOWN", "HOLDOVER"}
    BY <2>3 DEF stateDecision
  <2> QED BY <2>1, <2>2, <2>3
<1> HIDE DEF d1, d2, d3, d4, d5, r
<1>4. /\ IsDpll(FreeRunning(d1)) /\ FreeRunning(d1).onHoldover = d.onHoldover
      /\ FreeRunning(d1).closing = d.closing
      /\ IsDpll(FreeRunning(d2)) /\ FreeRunning(d2).onHoldover = d.onHoldover
      /\ FreeRunning(d2).closing = d.closing
      /\ IsDpll(FreeRunning(d5)) /\ FreeRunning(d5).onHoldover = d.onHoldover
      /\ FreeRunning(d5).closing = d.closing
      /\ IsDpll(FreeRunning(d)) /\ FreeRunning(d).onHoldover = d.onHoldover
      /\ FreeRunning(d).closing = d.closing
  BY <1>1, FreeRunningShape
<1> QED BY <1>1, <1>2, <1>3, <1>4 DEF r

-----------------------------------------------------------------------------
(* What a step of a NIC's monitor or goroutine leaves behind: it offers    *)
(* the event of its DPLL as it is then, or leaves the state alone unless   *)
(* the goroutine has still to offer one.                                   *)
Told(hs) == \A g \in hs : g.pc \notin {"applied", "expired"}

Kept(n) == dpll'[n].state = dpll[n].state /\ (Told(hos'[n]) => Told(hos[n]))
Frame(n) ==
  /\ DOMAIN dpll' = sc.nics /\ DOMAIN hos' = sc.nics
  /\ \A m \in sc.nics : m # n => dpll'[m] = dpll[m] /\ hos'[m] = hos[m]
Offered(n) ==
  \/ events' = Append(events, DpllEvent(n, dpll'[n]))
  \/ /\ events' = Append(events, [proc |-> "reset", iface |-> n, state |-> "NOTSET", lost |-> FALSE])
     /\ Kept(n)
  \/ events' = events /\ (Kept(n) \/ ~Told(hos'[n]))
NicStep(n) == Frame(n) /\ Guarded(dpll'[n], hos'[n]) /\ Offered(n)

(* applyStateUpdate asks the goroutine to leave, or starts one if there is *)
(* none.                                                                   *)
LEMMA ApplyStep ==
  ASSUME DpllInv, NEW n \in sc.nics, NEW d, IsDpll(d),
         d.onHoldover = dpll[n].onHoldover, d.closing = dpll[n].closing,
         applyStateUpdate(n, d)
  PROVE  NicStep(n)
<1>1. PICK r : r = stateDecision(n, d)
  OBVIOUS
<1> DEFINE new == [id |-> NewId(n), pc |-> "start", el |-> 0]
           hs == Asked(n, r.close) \cup IF r.start THEN {new} ELSE {}
<1>2. /\ dpll' = [dpll EXCEPT ![n] = r.d] /\ hos' = [hos EXCEPT ![n] = hs]
      /\ events' = Append(events, DpllEvent(n, r.d))
  BY <1>1 DEF applyStateUpdate, Set, Offer
<1>3. /\ IsDpll(r.d) /\ r.d.closing = d.closing
      /\ \/ ~r.start /\ r.d.onHoldover = d.onHoldover
         \/ r.start /\ r.d.onHoldover = TRUE /\ ~d.onHoldover /\ ~d.closing
  BY <1>1, DecisionShape
<1>4. Guarded(r.d, hs)
  <2>1. Guarded(dpll[n], hos[n])
    BY DEF DpllInv
  <2>2. CASE hos[n] = {}
    <3>1. Asked(n, r.close) = {}
      BY <2>2 DEF Asked
    <3>2. IsGo(new)
      BY DEF IsGo
    <3> HIDE DEF new
    <3> QED BY <1>3, <3>1, <3>2 DEF Guarded
  <2>3. ASSUME NEW g, hos[n] = {g}, IsGo(g), dpll[n].onHoldover \/ dpll[n].closing
        PROVE  Guarded(r.d, hs)
    <3>1. PICK h : h = IF r.close /\ g.pc = "wait" THEN [g EXCEPT !.pc = "closed"] ELSE g
      OBVIOUS
    <3>2. Asked(n, r.close) = {h} /\ IsGo(h)
      BY <2>3, <3>1 DEF Asked, IsGo
    <3>3. ~r.start /\ (r.d.onHoldover \/ r.d.closing)
      BY <1>3, <2>3
    <3> QED BY <1>3, <3>2, <3>3 DEF Guarded
  <2> QED BY <2>1, <2>2, <2>3 DEF Guarded
<1> HIDE DEF hs
<1>5. dpll'[n] = r.d /\ hos'[n] = hs /\ Frame(n)
  BY <1>2 DEF DpllInv, Frame
<1> QED BY <1>2, <1>4, <1>5 DEF NicStep, Offered

LEMMA MonitorStep ==
  ASSUME DpllInv, NEW n \in sc.nics, Monitor(n)
  PROVE  NicStep(n)
<1>0. Guarded(dpll[n], hos[n]) /\ IsDpll(dpll[n])
  BY DEF DpllInv, Guarded
<1>1. CASE Redial(n)
  <2> DEFINE d == [dpll[n] EXCEPT !.freq = hw[n].eec, !.phase = hw[n].pps]
  <2>1. IsDpll(d) /\ d.onHoldover = dpll[n].onHoldover /\ d.closing = dpll[n].closing
    BY <1>0 DEF IsDpll
  <2>2. applyStateUpdate(n, d)
    BY <1>1 DEF Redial
  <2> HIDE DEF d
  <2> QED BY <2>1, <2>2, ApplyStep
<1>2. ASSUME UNCHANGED <<dpll, hos>>,
             \/ UNCHANGED events
             \/ Offer([proc |-> "reset", iface |-> n, state |-> "NOTSET", lost |-> FALSE])
      PROVE  NicStep(n)
  BY <1>0, <1>2 DEF NicStep, Frame, Offered, Kept, Offer, DpllInv
<1>3. CASE Join(n) \/ ConnLost(n) \/ Stop(n) \/ \E x \in sc.hw[n] : HwChange(n, x)
  <2>1. /\ UNCHANGED <<dpll, hos>>
        /\ \/ UNCHANGED events
           \/ Offer([proc |-> "reset", iface |-> n, state |-> "NOTSET", lost |-> FALSE])
    BY <1>3 DEF Join, ConnLost, Stop, HwChange
  <2> QED BY <1>2, <2>1
<1>4. CASE Notified(n)
  <2>1. PICK k : \/ applyStateUpdate(n, nlUpdateState(dpll[n], ntf[n][k]))
                 \/ UNCHANGED <<dpll, hos, events>>
    BY <1>4 DEF Notified
  <2> DEFINE d == nlUpdateState(dpll[n], ntf[n][k])
  <2>2. IsDpll(d) /\ d.onHoldover = dpll[n].onHoldover /\ d.closing = dpll[n].closing
    BY <1>0 DEF IsDpll, nlUpdateState
  <2> HIDE DEF d
  <2>3. CASE applyStateUpdate(n, d)
    BY <2>2, <2>3, ApplyStep
  <2>4. CASE UNCHANGED <<dpll, hos, events>>
    BY <1>2, <2>4
  <2> QED BY <2>1, <2>3, <2>4 DEF d
<1>5. CASE Stopped(n)
  <2> DEFINE d == [dpll[n] EXCEPT !.onHoldover = FALSE, !.closing = TRUE]
  <2>1. IsDpll(d) /\ d.closing = TRUE /\ d.state = dpll[n].state
    BY <1>0 DEF IsDpll
  <2>2. /\ dpll' = [dpll EXCEPT ![n] = d] \/ dpll' = dpll
        /\ hos' = hos /\ events' = events
    BY <1>5 DEF Stopped, Set
  <2>3. Guarded(d, hos[n])
    BY <1>0, <2>1 DEF Guarded
  <2> HIDE DEF d
  <2>4. CASE dpll' = [dpll EXCEPT ![n] = d]
    <3>1. dpll'[n] = d /\ Frame(n)
      BY <2>2, <2>4 DEF DpllInv, Frame
    <3> QED BY <2>1, <2>2, <2>3, <3>1 DEF NicStep, Offered, Kept
  <2>5. CASE dpll' = dpll
    BY <1>2, <2>2, <2>5
  <2> QED BY <2>2, <2>4, <2>5
<1> QED BY <1>1, <1>3, <1>4, <1>5 DEF Monitor

(* The goroutine moves on, with DpllConfig as it leaves it. *)
LEMMA GoStep ==
  ASSUME DpllInv, NEW n \in sc.nics, NEW g \in hos[n], NEW d, NEW h, IsDpll(d), IsGo(h),
         d.onHoldover = dpll[n].onHoldover, d.closing = dpll[n].closing,
         dpll' = [dpll EXCEPT ![n] = d] \/ (dpll' = dpll /\ d = dpll[n]), Step(n, g, h),
         \/ events' = Append(events, DpllEvent(n, d))
         \/ events' = events /\ h.pc \in {"applied", "expired"}
         \/ events' = events /\ d.state = dpll[n].state /\ g.pc \notin {"applied", "expired"}
  PROVE  NicStep(n)
<1>1. hos[n] = {g} /\ (dpll[n].onHoldover \/ dpll[n].closing)
  BY DEF DpllInv, Guarded
<1>2. hos' = [hos EXCEPT ![n] = {h}]
  BY <1>1 DEF Step, DpllInv
<1>3. hos'[n] = {h} /\ dpll'[n] = d /\ Frame(n)
  BY <1>2 DEF DpllInv, Frame
<1>4. Guarded(d, {h})
  BY <1>1 DEF Guarded
<1>5. Offered(n)
  BY <1>1, <1>3 DEF Offered, Kept, Told
<1> QED BY <1>3, <1>4, <1>5 DEF NicStep

LEMMA HoldoverStep ==
  ASSUME DpllInv, NEW n \in sc.nics, Holdover(n)
  PROVE  NicStep(n)
<1>0. PICK g \in hos[n] :
        \/ HoStart(n, g) \/ HoTick(n, g) \/ HoApply(n, g) \/ HoTimeout(n, g)
        \/ HoSend(n, g) \/ HoClosed(n, g) \/ HoBackInSpec(n, g) \/ HoExit(n, g)
  BY DEF Holdover
<1>1. PICK c : c = dpll[n]
  OBVIOUS
<1>2. /\ hos[n] = {g} /\ IsGo(g) /\ IsDpll(c) /\ (c.onHoldover \/ c.closing)
  BY <1>0, <1>1 DEF DpllInv, Guarded
<1>3. \A x : IsGo([g EXCEPT !.pc = x]) /\ [g EXCEPT !.pc = x].pc = x
  BY <1>2 DEF IsGo
<1>4. CASE HoStart(n, g)
  <2>1. /\ Step(n, g, [g EXCEPT !.pc = "wait"]) /\ dpll' = dpll
        /\ events' = Append(events, DpllEvent(n, c))
    BY <1>1, <1>4 DEF HoStart, Offer
  <2> QED BY <1>1, <1>2, <1>3, <2>1, GoStep
<1>5. CASE HoTick(n, g)
  <2> DEFINE h == [g EXCEPT !.pc = "ticked", !.el = @ + 1]
  <2>1. Step(n, g, h) /\ dpll' = dpll /\ events' = events /\ g.pc = "wait"
    BY <1>5 DEF HoTick
  <2>2. IsGo(h)
    BY <1>2 DEF IsGo
  <2> HIDE DEF h
  <2> QED BY <1>1, <1>2, <2>1, <2>2, GoStep
<1>6. CASE HoApply(n, g)
  <2> DEFINE d == [c EXCEPT !.offset = Slope * g.el]
             within == isInSpecOffsetInRange(n, d)
             d1 == FreeRunning([d EXCEPT !.inSpec = FALSE])
             d2 == [d EXCEPT !.inSpec = @ /\ within, !.state = "HOLDOVER"]
  <2>1. \E x \in {d, d1, d2}, y \in {"applied", "expired"} :
          dpll' = [dpll EXCEPT ![n] = x] /\ Step(n, g, [g EXCEPT !.pc = y])
    BY <1>1, <1>6 DEF HoApply, Set
  <2>2. events' = events
    BY <1>6 DEF HoApply
  <2>3. /\ IsDpll(d) /\ d.onHoldover = c.onHoldover /\ d.closing = c.closing
        /\ IsDpll([d EXCEPT !.inSpec = FALSE])
        /\ [d EXCEPT !.inSpec = FALSE].onHoldover = c.onHoldover
        /\ [d EXCEPT !.inSpec = FALSE].closing = c.closing
        /\ IsDpll(d2) /\ d2.onHoldover = c.onHoldover /\ d2.closing = c.closing
    BY <1>2 DEF IsDpll
  <2>4. IsDpll(d1) /\ d1.onHoldover = c.onHoldover /\ d1.closing = c.closing
    BY <2>3, FreeRunningShape
  <2> HIDE DEF d, d1, d2
  <2>5. PICK x \in {d, d1, d2}, y \in {"applied", "expired"} :
          dpll' = [dpll EXCEPT ![n] = x] /\ Step(n, g, [g EXCEPT !.pc = y])
    BY <2>1
  <2>6. IsDpll(x) /\ x.onHoldover = c.onHoldover /\ x.closing = c.closing
    BY <2>3, <2>4
  <2> QED BY <1>1, <1>3, <2>2, <2>5, <2>6, GoStep
<1>7. CASE HoTimeout(n, g)
  <2> DEFINE e == [c EXCEPT !.inSpec = FALSE]
             d == FreeRunning(e)
  <2>1. IsDpll(e) /\ e.onHoldover = c.onHoldover /\ e.closing = c.closing
    BY <1>2 DEF IsDpll
  <2> HIDE DEF e
  <2>2. IsDpll(d) /\ d.onHoldover = c.onHoldover /\ d.closing = c.closing
    BY <2>1, FreeRunningShape
  <2>3. /\ dpll' = [dpll EXCEPT ![n] = d] /\ Step(n, g, [g EXCEPT !.pc = "expired"])
        /\ events' = events
    BY <1>1, <1>7 DEF HoTimeout, Set, e
  <2> HIDE DEF d
  <2> QED BY <1>1, <1>3, <2>2, <2>3, GoStep
<1>8. CASE HoSend(n, g)
  <2>1. PICK y : /\ Step(n, g, [g EXCEPT !.pc = y]) /\ dpll' = dpll
                 /\ events' = Append(events, DpllEvent(n, c))
    BY <1>1, <1>2, <1>8 DEF HoSend, Offer, IsGo
  <2> QED BY <1>1, <1>2, <1>3, <2>1, GoStep
<1>9. CASE HoClosed(n, g)
  <2>1. /\ Step(n, g, [g EXCEPT !.pc = "closed"]) /\ dpll' = dpll /\ events' = events
        /\ g.pc = "wait"
    BY <1>9 DEF HoClosed
  <2> QED BY <1>1, <1>2, <1>3, <2>1, GoStep
<1>10. CASE HoBackInSpec(n, g)
  <2> DEFINE d == [c EXCEPT !.inSpec = TRUE]
  <2>1. /\ IsDpll(d) /\ d.onHoldover = c.onHoldover /\ d.closing = c.closing
        /\ d.state = c.state
    BY <1>2 DEF IsDpll
  <2>2. /\ dpll' = [dpll EXCEPT ![n] = d] /\ Step(n, g, [g EXCEPT !.pc = "exit"])
        /\ events' = events /\ g.pc = "closed"
    BY <1>1, <1>10 DEF HoBackInSpec, Set
  <2> HIDE DEF d
  <2> QED BY <1>1, <1>3, <2>1, <2>2, GoStep
<1>11. CASE HoExit(n, g)
  <2> DEFINE d == [c EXCEPT !.onHoldover = FALSE]
  <2>1. IsDpll(d)
    BY <1>2 DEF IsDpll
  <2>2. /\ dpll' = [dpll EXCEPT ![n] = d] /\ hos' = [hos EXCEPT ![n] = @ \ {g}]
        /\ events' = Append(events, DpllEvent(n, d))
    BY <1>1, <1>11 DEF HoExit, Set, Offer
  <2> HIDE DEF d
  <2>3. dpll'[n] = d /\ hos'[n] = {} /\ Frame(n)
    BY <1>2, <2>2 DEF DpllInv, Frame
  <2> QED BY <2>1, <2>2, <2>3 DEF NicStep, Guarded, Offered
<1> QED BY <1>0, <1>4, <1>5, <1>6, <1>7, <1>8, <1>9, <1>10, <1>11

LEMMA DpllStep ==
  ASSUME DpllInv, DpllNext, UNCHANGED scenario
  PROVE  DpllInv' /\ \E n \in sc.nics : NicStep(n)
<1>1. PICK n \in sc.nics : Monitor(n) \/ Holdover(n)
  BY DEF DpllNext
<1>2. NicStep(n)
  BY <1>1, MonitorStep, HoldoverStep
<1>3. sc' = sc
  BY DEF sc
<1>4. \A m \in sc.nics : Guarded(dpll'[m], hos'[m])
  BY <1>2 DEF NicStep, Frame, DpllInv
<1> QED BY <1>2, <1>3, <1>4 DEF NicStep, Frame, DpllInv

LEMMA DpllStart == Init => DpllInv
<1> SUFFICES ASSUME Init PROVE DpllInv
  OBVIOUS
<1>1. IsDpll(NewDpll)
  BY DEF IsDpll, NewDpll
<1>2. dpll = [n \in sc.nics |-> NewDpll] /\ hos = [n \in sc.nics |-> {}]
  BY DEF Init, DpllInit
<1> QED BY <1>1, <1>2 DEF DpllInv, Guarded

(* The clock and the other reporters leave the DPLLs alone. *)
LEMMA OtherSteps ==
  ASSUME Samples \/ (\E ok \in BOOLEAN : Handle(ok)) \/ UNCHANGED vars
  PROVE  UNCHANGED <<scenario, dpll, hos>>
BY DEF Samples, Handle, GnssSample, Ts2phcSample, Ts2phcNoSource, OsClockSample, vars, dpllVars

LEMMA DpllInductive == DpllInv /\ [Next]_vars => DpllInv'
<1> SUFFICES ASSUME DpllInv, [Next]_vars PROVE DpllInv'
  OBVIOUS
<1>1. CASE DpllNext /\ UNCHANGED <<scenario, gmVars>>
  BY <1>1, DpllStep
<1>2. CASE UNCHANGED <<scenario, dpll, hos>>
  BY <1>2 DEF DpllInv, sc, Guarded
<1> QED BY <1>1, <1>2, OtherSteps DEF Next

(* OneHoldover, for every scenario: however the notifications, the ticks,  *)
(* the redials and the Stop of a NIC meet, no second goroutine is started  *)
(* in holdover() while one has not left (stateDecision of dpll.go).        *)
THEOREM OneHoldoverEach == Spec => []OneHoldover
<1>1. DpllInv => OneHoldover
  <2> SUFFICES ASSUME DpllInv, NEW n \in sc.nics
               PROVE  /\ Cardinality(hos[n]) <= 1
                      /\ hos[n] # {} => dpll[n].onHoldover \/ dpll[n].closing
    BY DEF OneHoldover
  <2>1. Guarded(dpll[n], hos[n])
    BY DEF DpllInv
  <2>2. CASE hos[n] = {}
    BY <2>2, FS_EmptySet
  <2>3. ASSUME NEW g, hos[n] = {g}, dpll[n].onHoldover \/ dpll[n].closing
        PROVE  /\ Cardinality(hos[n]) <= 1
               /\ hos[n] # {} => dpll[n].onHoldover \/ dpll[n].closing
    BY <2>3, FS_Singleton
  <2> QED BY <2>1, <2>2, <2>3 DEF Guarded
<1> QED BY <1>1, DpllStart, DpllInductive, PTL DEF Spec

-----------------------------------------------------------------------------
(* What the grandmaster publishes.  The cache is written only for a state  *)
(* and a class that replace one, so that it is empty until the first, and  *)
(* an announced class is the one ptp4l has.                                *)
IsGM(c)    == DOMAIN c = {"state", "class", "gnss", "announced"}
PublishedInv ==
  /\ IsGM(gm) /\ DOMAIN store = {"ptp", "class", "gnss", "sync"}
  /\ gm.announced # 0 => ptp4l = gm.announced
  /\ gm.state = "NOTSET" => store.ptp = "none"
  /\ gm.class = 0 => store.class = 0
  /\ store.ptp \in {"none", PtpStateToIPCState(gm.state)}
  /\ store.class \in {0, gm.class}
  /\ store.gnss \in {"none", PtpStateToIPCState(gm.gnss)}

(* The decision never unsets a state or a class. *)
Decided(c, e) ==
  /\ IsGM(e) /\ e.announced = c.announced
  /\ e.state = c.state \/ e.state # "NOTSET"
  /\ e.class = c.class \/ e.class # 0

LEMMA DecideShape ==
  ASSUME NEW c, IsGM(c), NEW dp, NEW gn, NEW ts, NEW lost
  PROVE  Decided(c, decide(c, dp, gn, ts, lost))
<1>1. /\ Decided(c, c) /\ Decided(c, [c EXCEPT !.state = "FREERUN"])
      /\ Decided(c, Now(c, "LOCKED", 6)) /\ Decided(c, Now(c, "HOLDOVER", 7))
      /\ Decided(c, Now(c, "FREERUN", 248))
  BY DEF Now, Decided, IsGM
<1>2. \A s : Decided(c, ByState(c, s))
  BY <1>1 DEF ByState
<1> QED BY <1>1, <1>2 DEF decide

LEMMA UpdateShape ==
  ASSUME NEW d, IsGM(gm)
  PROVE  Decided(gm, updateState(gm, d))
<1> DEFINE dp == IF hasNonLeadingDPLLFault(d) THEN "FREERUN" ELSE StateOf(d, "dpll", "NOTSET")
           gn == StateOf(d, "gnss", "FREERUN")
           ts == IF noSource = 2 THEN "FREERUN" ELSE StateOf(d, "ts2phc", "FREERUN")
           e  == decide(gm, dp, gn, ts, isSourceLost(d))
<1>1. Decided(gm, e)
  BY DecideShape
<1>2. updateState(gm, d) = [e EXCEPT !.gnss = gn]
  BY DEF updateState
<1> HIDE DEF e, gn
<1> QED BY <1>1, <1>2 DEF Decided, IsGM

LEMMA PublishStep ==
  ASSUME PublishedInv, NEW ev, NEW ok, AddGMEvent(ev, ok)
  PROVE  PublishedInv'
<1>1. PICK d : d = AddEvent(data, ev, FALSE)
  OBVIOUS
<1>2. PICK c : c = IF getLeadingInterface(d) = NoIface THEN gm ELSE updateState(gm, d)
  OBVIOUS
<1> DEFINE worst == worstOfState(c.state, osState)
           ipc == [store EXCEPT
                    !.ptp = IF c.state # gm.state /\ gm.state # "NOTSET"
                            THEN PtpStateToIPCState(c.state) ELSE @,
                    !.class = IF c.class # gm.class /\ gm.class # 0 THEN c.class ELSE @,
                    !.gnss = IF c.gnss # gm.gnss THEN PtpStateToIPCState(c.gnss) ELSE @,
                    !.sync = IF worst # overall THEN PtpStateToIPCState(worst) ELSE @]
<1>3. /\ store' = ipc
      /\ \/ gm' = c /\ ptp4l' = ptp4l
         \/ gm' = [c EXCEPT !.announced = c.class] /\ ptp4l' = c.class
  <2>1. /\ store' = ipc
        /\ IF getLeadingInterface(d) # NoIface THEN announceClockClassIfChanged(c, ok)
           ELSE gm' = c /\ UNCHANGED ptp4l
    BY ONLY AddGMEvent(ev, ok), <1>1, <1>2, Zenon DEF AddGMEvent
  <2> HIDE DEF ipc
  <2> QED BY <2>1 DEF announceClockClassIfChanged
<1>4. IsGM(gm) /\ Decided(gm, c)
  BY <1>2, UpdateShape DEF PublishedInv, Decided
<1>5. /\ DOMAIN ipc = {"ptp", "class", "gnss", "sync"}
      /\ ipc.ptp = IF c.state # gm.state /\ gm.state # "NOTSET"
                   THEN PtpStateToIPCState(c.state) ELSE store.ptp
      /\ ipc.class = IF c.class # gm.class /\ gm.class # 0 THEN c.class ELSE store.class
      /\ ipc.gnss = IF c.gnss # gm.gnss THEN PtpStateToIPCState(c.gnss) ELSE store.gnss
  BY DEF PublishedInv
<1> HIDE DEF ipc
<1>6. /\ IsGM(gm') /\ gm'.state = c.state /\ gm'.class = c.class /\ gm'.gnss = c.gnss
      /\ gm'.announced # 0 => ptp4l' = gm'.announced
  BY <1>3, <1>4 DEF Decided, IsGM, PublishedInv
<1>7. /\ c.state = "NOTSET" => ipc.ptp = "none"
      /\ ipc.ptp \in {"none", PtpStateToIPCState(c.state)}
  BY <1>4, <1>5 DEF Decided, PublishedInv
<1>8. /\ c.class = 0 => ipc.class = 0
      /\ ipc.class \in {0, c.class}
  BY <1>4, <1>5 DEF Decided, PublishedInv
<1>9. ipc.gnss \in {"none", PtpStateToIPCState(c.gnss)}
  BY <1>5 DEF PublishedInv
<1> QED BY <1>3, <1>5, <1>6, <1>7, <1>8, <1>9 DEF PublishedInv

LEMMA PublishedStart == Init => PublishedInv
BY DEF Init, PublishedInv, IsGM, NoStore

LEMMA PublishedInductive == PublishedInv /\ [Next]_vars => PublishedInv'
<1> SUFFICES ASSUME PublishedInv, [Next]_vars PROVE PublishedInv'
  OBVIOUS
<1>1. CASE UNCHANGED <<gm, store, ptp4l>>
  BY <1>1 DEF PublishedInv, IsGM
<1>2. ASSUME NEW s, OsClockSample(s) PROVE PublishedInv'
  <2>1. PICK v : store' = [store EXCEPT !.sync = v]
    BY <1>2 DEF OsClockSample
  <2>2. /\ DOMAIN store' = {"ptp", "class", "gnss", "sync"} /\ store'.ptp = store.ptp
        /\ store'.class = store.class /\ store'.gnss = store.gnss
    BY <2>1 DEF PublishedInv
  <2> QED BY <1>2, <2>2 DEF OsClockSample, PublishedInv, IsGM
<1>3. CASE GMReset
  BY <1>3 DEF GMReset, PublishedInv, IsGM, NoStore
<1>4. CASE \E ok \in BOOLEAN : Handle(ok)
  BY <1>1, <1>3, <1>4, PublishStep DEF Handle
<1>5. CASE Samples
  BY <1>1, <1>2, <1>5 DEF Samples, GnssSample, Ts2phcSample, Ts2phcNoSource, gmVars
<1>6. CASE (DpllNext /\ UNCHANGED <<scenario, gmVars>>) \/ UNCHANGED vars
  BY <1>1, <1>6 DEF vars, gmVars
<1> QED BY <1>4, <1>5, <1>6 DEF Next

(* PublishedCurrent, for every scenario: whatever order the events of the  *)
(* receiver, the DPLLs and ts2phc come in, and whichever PMC commands      *)
(* fail, the cache shows no state the clock has left and no class counts   *)
(* as announced that ptp4l does not have (AddEvent, Reset of gm.go).       *)
THEOREM PublishedIsCurrent == Spec => []PublishedCurrent
<1>1. PublishedInv => PublishedCurrent
  BY DEF PublishedInv, PublishedCurrent
<1> QED BY <1>1, PublishedStart, PublishedInductive, PTL DEF Spec

-----------------------------------------------------------------------------
(* What the clock has been told of a DPLL. *)

(* The last event of NIC n's DPLL that waits, if one does, has state s;    *)
(* if none does, the clock has no other.                                   *)
Of(ev, n) == ev.proc = "dpll" /\ ev.iface = n
Silent(evs, n) == \A k \in 1..Len(evs) : ~Of(evs[k], n)
LastIs(evs, n, s) ==
  \E k \in 1..Len(evs) :
    Of(evs[k], n) /\ evs[k].state = s /\ \A j \in 1..Len(evs) : j > k => ~Of(evs[j], n)
Delivers(evs, d, n, s) == LastIs(evs, n, s) \/ (Silent(evs, n) /\ Right(d, "dpll", n, s))

DeliveryInv ==
  /\ DpllInv /\ IsSeq(events) /\ IsData(data)
  /\ \A n \in sc.nics : Told(hos[n]) => Delivers(events, data, n, dpll[n].state)

LEMMA OfferedLast ==
  ASSUME NEW evs, IsSeq(evs), NEW ev, NEW n, Of(ev, n), NEW d
  PROVE  Delivers(Append(evs, ev), d, n, ev.state)
<1>1. PICK t : t = Append(evs, ev)
  OBVIOUS
<1>2. Len(evs) \in Nat /\ Len(t) = Len(evs) + 1 /\ t[Len(evs) + 1] = ev
  BY <1>1, Appended, SeqFacts
<1>3. Len(evs) + 1 \in 1..Len(t) /\ \A j \in 1..Len(t) : ~(j > Len(evs) + 1)
  BY <1>2
<1>4. LastIs(t, n, ev.state)
  BY <1>2, <1>3 DEF LastIs
<1> QED BY <1>1, <1>4 DEF Delivers

LEMMA OfferedOther ==
  ASSUME NEW evs, IsSeq(evs), NEW ev, NEW n, ~Of(ev, n), NEW d, NEW s, Delivers(evs, d, n, s)
  PROVE  Delivers(Append(evs, ev), d, n, s)
<1>1. PICK t : t = Append(evs, ev)
  OBVIOUS
<1>2. /\ Len(evs) \in Nat /\ Len(t) = Len(evs) + 1 /\ t[Len(evs) + 1] = ev
      /\ \A k \in 1..Len(evs) : t[k] = evs[k]
  BY <1>1, Appended, SeqFacts
<1>3. /\ \A k \in 1..Len(t) : k \in 1..Len(evs) \/ k = Len(evs) + 1
      /\ \A k \in 1..Len(evs) : k \in 1..Len(t)
  BY <1>2
<1>4. CASE LastIs(evs, n, s)
  <2>1. PICK k \in 1..Len(evs) :
          Of(evs[k], n) /\ evs[k].state = s /\ \A j \in 1..Len(evs) : j > k => ~Of(evs[j], n)
    BY <1>4 DEF LastIs
  <2>2. \A j \in 1..Len(t) : j > k => ~Of(t[j], n)
    BY <1>2, <1>3, <2>1
  <2>3. k \in 1..Len(t) /\ t[k] = evs[k]
    BY <1>2, <1>3
  <2> QED BY <1>1, <2>1, <2>2, <2>3 DEF Delivers, LastIs
<1>5. CASE Silent(evs, n) /\ Right(d, "dpll", n, s)
  <2>1. Silent(t, n)
    BY <1>2, <1>3, <1>5 DEF Silent
  <2> QED BY <1>1, <1>5, <2>1 DEF Delivers
<1> QED BY <1>4, <1>5 DEF Delivers

(* The clock takes the first event, and what waits is all it is owed. *)
LEMMA TakenFirst ==
  ASSUME NEW evs, IsSeq(evs), evs # <<>>, NEW n, NEW s, NEW d, NEW e, Delivers(evs, d, n, s),
         (IF Of(Head(evs), n) THEN Head(evs).state = s ELSE Right(d, "dpll", n, s)) => Right(e, "dpll", n, s)
  PROVE  Delivers(Tail(evs), e, n, s)
<1>1. PICK t : t = Tail(evs)
  OBVIOUS
<1>2. /\ Len(evs) \in Nat /\ Len(t) = Len(evs) - 1 /\ 1 \in 1..Len(evs)
      /\ Head(evs) = evs[1] /\ \A k \in 1..Len(t) : t[k] = evs[k + 1]
  BY <1>1 DEF IsSeq
<1>3. \A k \in 1..Len(t) : k + 1 \in 1..Len(evs)
  BY <1>2
<1>4. ASSUME LastIs(evs, n, s) PROVE Delivers(t, e, n, s)
  <2>1. PICK k \in 1..Len(evs) :
          Of(evs[k], n) /\ evs[k].state = s /\ \A j \in 1..Len(evs) : j > k => ~Of(evs[j], n)
    BY <1>4 DEF LastIs
  <2>2. CASE k = 1
    <3>1. Right(e, "dpll", n, s)
      BY <1>2, <2>1, <2>2
    <3>2. Silent(t, n)
      BY <1>2, <1>3, <2>1, <2>2 DEF Silent
    <3> QED BY <3>1, <3>2 DEF Delivers
  <2>3. CASE k # 1
    <3>1. PICK i : i = k - 1
      OBVIOUS
    <3>2. i \in 1..Len(t) /\ t[i] = evs[k]
      BY <1>2, <2>3, <3>1
    <3>3. \A j \in 1..Len(t) : j > i => ~Of(t[j], n)
      BY <1>2, <1>3, <2>1, <3>1
    <3> QED BY <2>1, <3>2, <3>3 DEF Delivers, LastIs
  <2> QED BY <2>2, <2>3
<1>5. ASSUME Silent(evs, n), Right(d, "dpll", n, s) PROVE Delivers(t, e, n, s)
  <2>1. Silent(t, n) /\ ~Of(Head(evs), n)
    BY <1>2, <1>3, <1>5 DEF Silent
  <2> QED BY <1>5, <2>1 DEF Delivers
<1> QED BY <1>1, <1>4, <1>5 DEF Delivers

LEMMA StillSeq ==
  ASSUME NEW evs, IsSeq(evs), NEW ev
  PROVE  IsSeq(Append(evs, ev))
BY Appended

LEMMA DeliveryDpll ==
  ASSUME DeliveryInv, DpllNext, UNCHANGED <<scenario, data>>
  PROVE  DeliveryInv'
<1>1. PICK n \in sc.nics : DpllInv' /\ NicStep(n)
  BY DpllStep DEF DeliveryInv
<1>2. Offered(n) /\ sc' = sc
  BY <1>1 DEF NicStep, sc
<1> DEFINE reset == [proc |-> "reset", iface |-> n, state |-> "NOTSET", lost |-> FALSE]
<1>3. /\ \A m : ~Of(reset, m)
      /\ Of(DpllEvent(n, dpll'[n]), n) /\ DpllEvent(n, dpll'[n]).state = dpll'[n].state
      /\ \A m : m # n => ~Of(DpllEvent(n, dpll'[n]), m)
  BY DEF Of, DpllEvent
<1> HIDE DEF reset
<1>4. IsSeq(events')
  BY <1>2, StillSeq DEF Offered, DeliveryInv
<1>5. ASSUME NEW m \in sc.nics, Told(hos'[m])
      PROVE  Delivers(events', data, m, dpll'[m].state)
  <2>1. CASE m = n
    <3>1. CASE events' = Append(events, DpllEvent(n, dpll'[n]))
      BY <1>3, <2>1, <3>1, OfferedLast DEF DeliveryInv
    <3>2. ASSUME Kept(n) PROVE Delivers(events, data, m, dpll'[m].state)
      BY <1>5, <2>1, <3>2 DEF Kept, DeliveryInv
    <3>3. CASE events' = Append(events, reset) /\ Kept(n)
      BY <1>3, <3>2, <3>3, OfferedOther DEF DeliveryInv
    <3>4. CASE events' = events /\ (Kept(n) \/ ~Told(hos'[n]))
      BY <1>5, <2>1, <3>2, <3>4
    <3> QED BY <1>2, <3>1, <3>3, <3>4 DEF Offered, reset
  <2>2. CASE m # n
    <3>1. dpll'[m] = dpll[m] /\ hos'[m] = hos[m]
      BY <1>1, <2>2 DEF NicStep, Frame
    <3>2. Delivers(events, data, m, dpll'[m].state)
      BY <1>5, <3>1 DEF DeliveryInv
    <3>3. PICK ev : events' = events \/ (events' = Append(events, ev) /\ ~Of(ev, m))
      BY <1>2, <1>3, <2>2 DEF Offered, reset
    <3> QED BY <3>2, <3>3, OfferedOther DEF DeliveryInv
  <2> QED BY <2>1, <2>2
<1> QED BY <1>1, <1>2, <1>4, <1>5 DEF DeliveryInv

LEMMA DeliveryHandle ==
  ASSUME DeliveryInv, NEW ok, Handle(ok)
  PROVE  DeliveryInv'
<1>1. PICK ev : ev = Head(events)
  OBVIOUS
<1>2. /\ events # <<>> /\ events' = Tail(events)
      /\ UNCHANGED <<scenario, dpll, hos>>
      /\ \/ data' = <<>> /\ ev.proc = "reset"
         \/ data' = AddEvent(data, Full(ev), FALSE)
  BY <1>1 DEF Handle, GMReset, AddGMEvent
<1>3. IsSeq(events')
  BY <1>2 DEF DeliveryInv, IsSeq
<1>4. /\ IsData(data')
      /\ \A n, s : (IF Of(ev, n) THEN ev.state = s ELSE Right(data, "dpll", n, s)) => Right(data', "dpll", n, s)
  <2>1. CASE data' = <<>>
    BY <2>1 DEF IsData, IsSeq, Right
  <2>2. CASE data' = AddEvent(data, Full(ev), FALSE)
    <3>1. /\ Full(ev).proc = ev.proc /\ Full(ev).iface = ev.iface /\ Full(ev).state = ev.state
      BY DEF Full
    <3> QED BY <2>2, <3>1, AddEventShape DEF Of, DeliveryInv
  <2> QED BY <1>2, <2>1, <2>2
<1>5. ASSUME NEW n \in sc.nics, Told(hos[n])
      PROVE  Delivers(events', data', n, dpll[n].state)
  BY <1>1, <1>2, <1>4, <1>5, TakenFirst DEF DeliveryInv
<1>6. sc' = sc /\ DpllInv'
  BY <1>2 DEF sc, DpllInv, DeliveryInv, Guarded
<1> QED BY <1>2, <1>3, <1>4, <1>5, <1>6 DEF DeliveryInv

LEMMA DeliverySamples ==
  ASSUME DeliveryInv, Samples \/ UNCHANGED vars
  PROVE  DeliveryInv'
<1>1. /\ UNCHANGED <<scenario, dpll, hos, data>>
      /\ \/ events' = events
         \/ \E ev : events' = Append(events, ev) /\ ev.proc # "dpll"
  <2>1. ASSUME NEW s, GnssSample(s)
        PROVE  /\ UNCHANGED <<scenario, dpll, hos, data>>
               /\ \E ev : events' = Append(events, ev) /\ ev.proc # "dpll"
    <3> DEFINE e == [proc |-> "gnss", iface |-> sc.gnss, state |-> s, lost |-> s # "LOCKED"]
    <3>1. e.proc # "dpll"
      OBVIOUS
    <3>2. UNCHANGED <<scenario, dpll, hos, data>> /\ events' = Append(events, e)
      BY <2>1 DEF GnssSample, Offer, gmVars
    <3> QED BY <3>1, <3>2
  <2>2. ASSUME NEW s, Ts2phcSample(s)
        PROVE  /\ UNCHANGED <<scenario, dpll, hos, data>>
               /\ \E ev : events' = Append(events, ev) /\ ev.proc # "dpll"
    <3> DEFINE e == [proc |-> "ts2phc", iface |-> sc.gnss, state |-> s, lost |-> FALSE]
    <3>1. e.proc # "dpll"
      OBVIOUS
    <3>2. UNCHANGED <<scenario, dpll, hos, data>> /\ events' = Append(events, e)
      BY <2>2 DEF Ts2phcSample, Offer
    <3> QED BY <3>1, <3>2
  <2>3. CASE Ts2phcNoSource \/ (\E s : OsClockSample(s)) \/ UNCHANGED vars
    BY <2>3 DEF Ts2phcNoSource, OsClockSample, vars, dpllVars, gmVars
  <2> QED BY <2>1, <2>2, <2>3 DEF Samples
<1>2. PICK ev : events' = events \/ (events' = Append(events, ev) /\ ev.proc # "dpll")
  BY <1>1
<1>3. IsSeq(events')
  BY <1>2, StillSeq DEF DeliveryInv
<1>4. \A n : ev.proc # "dpll" => ~Of(ev, n)
  BY DEF Of
<1>5. ASSUME NEW n \in sc.nics, Told(hos[n])
      PROVE  Delivers(events', data, n, dpll[n].state)
  BY <1>2, <1>4, <1>5, OfferedOther DEF DeliveryInv
<1>6. sc' = sc /\ DpllInv'
  BY <1>1 DEF sc, DpllInv, DeliveryInv, Guarded
<1> QED BY <1>1, <1>3, <1>5, <1>6 DEF DeliveryInv

(* StateDelivered, for every scenario: however the monitor, the goroutine, *)
(* a Reset and the clock interleave, the clock is never left with a state  *)
(* of a DPLL that the monitor has given up once the channel is empty       *)
(* (stateDecision, holdover and sendDpllEvent of dpll.go).                 *)
THEOREM StateIsDelivered == Spec => []StateDelivered
<1>1. Init => DeliveryInv
  <2> SUFFICES ASSUME Init PROVE DeliveryInv
    OBVIOUS
  <2>1. events = <<>> /\ data = <<>>
    BY DEF Init, DpllInit
  <2>2. IsSeq(events) /\ IsData(data)
    BY <2>1 DEF IsSeq, IsData
  <2>3. \A n, s : Delivers(events, data, n, s)
    BY <2>1 DEF Delivers, Silent, Right
  <2> QED BY <2>2, <2>3, DpllStart DEF DeliveryInv
<1>2. DeliveryInv /\ [Next]_vars => DeliveryInv'
  BY DeliveryDpll, DeliveryHandle, DeliverySamples DEF Next, gmVars
<1>3. DeliveryInv => StateDelivered
  <2> SUFFICES ASSUME DeliveryInv, events = <<>>, NEW n \in sc.nics,
                      \A g \in hos[n] : g.pc = "wait"
               PROVE  \A x \in DetailsOf(data, "dpll", n) : x.state = dpll[n].state
    BY DEF StateDelivered
  <2>1. Told(hos[n])
    BY DEF Told
  <2>2. Right(data, "dpll", n, dpll[n].state)
    BY <2>1 DEF DeliveryInv, Delivers, LastIs
  <2> QED BY <2>2 DEF DetailsOf, Details, Entries, Right
<1> QED BY <1>1, <1>2, <1>3, PTL DEF Spec
=============================================================================
