----------------------------- MODULE DpllMonitor -----------------------------
(***************************************************************************)
(* The DPLL monitor of linuxptp-daemon (pkg/dpll/dpll.go): per NIC a       *)
(* netlink connection that dumps the devices and then receives change      *)
(* notifications, the decision what the DPLL's lock status means, and the  *)
(* goroutine of a holdover, which lets the offset grow with time.          *)
(*                                                                         *)
(* Notifications are handled under the lock of DpllConfig; the goroutine   *)
(* writes the same fields without it, takes the lock only on its way out,  *)
(* and is asked to leave by a send that does not wait.  Both run beside    *)
(* each other, so the goroutine's steps are actions of their own.          *)
(***************************************************************************)
EXTENDS Integers, Sequences, FiniteSets, DpllSetup, TLC

CONSTANTS
  Timeout,     \* LocalHoldoverTimeout, in ticks
  Slope,       \* offset per tick; LocalMaxHoldoverOffSet is Slope * Timeout
  Backlog,     \* events that may wait when the environment moves on
  Scenarios    \* a sequence of records; of interest here
    \* profile   what setupDPLL makes nics, source, flags and inSpec of
    \* hw[n]     [kind, val] that the devices of n change to
    \* changes   bound on changes of the hardware not yet received
    \* batch     messages one Receive may return
    \* faults    subset of {"join", "conn", "stop"}

ASSUME DpllAssumption ==
  /\ {Timeout, Slope, Backlog} \subseteq Nat \ {0}
  /\ \A k \in DOMAIN Scenarios : Scenarios[k].profile.inSpec \subseteq 0..(Slope * Timeout)

VARIABLES
  scenario, \* the scenario of this behaviour, with its DPLLs
  hw,       \* per NIC: status of eec and pps, offset of the active pin
  mon,      \* per NIC: where MonitorDpllNetlink is
  ntf,      \* per NIC: notifications not yet received
  dpll,     \* per NIC: DpllConfig
  hos,      \* per NIC: goroutines in holdover()
  events    \* the daemon's event channel

dpllVars == <<hw, mon, ntf, dpll, hos, events>>

sc == scenario

Status == <<"UNKNOWN", "INVALID", "FREERUN", "HOLDOVER", "LOCKED", "HO_ACQ">>
Faulty == 999   \* FaultyPhaseOffset
MaxHoldoverOffset == Slope * Timeout

Size(o) == IF o < 0 THEN -o ELSE o

getStateQuality(s) == CHOOSE q \in DOMAIN Status : Status[q] = s

getWorseState(p, f) == IF getStateQuality(p) < getStateQuality(f) THEN p ELSE f

getDpllState(n, d) ==
  CASE sc.source[n] \in {"ptp", "pps"}   -> d.phase
    [] "noPhaseStatus" \in sc.flags[n]   -> d.freq
    [] "noFreqStatus" \in sc.flags[n]    -> d.phase
    [] OTHER                             -> getWorseState(d.phase, d.freq)

hasLeadingSource(n) == sc.source[n] \in {"gnss", "ptp"}

isOffsetInRange(n, d) ==
  "noPhaseOffset" \in sc.flags[n] \/ Size(d.offset) <= MaxHoldoverOffset

isInSpecOffsetInRange(n, d) == "noPhaseOffset" \in sc.flags[n] \/ d.offset <= sc.inSpec[n]

-----------------------------------------------------------------------------
(* nlUpdateState: one message of the kernel; an invalid lock status is     *)
(* discarded.                                                              *)
nlUpdateState(d, msg) ==
  CASE msg.kind = "eec" -> [d EXCEPT !.freq = msg.val]
    [] msg.kind = "pps" -> [d EXCEPT !.phase = msg.val]
    [] OTHER            -> [d EXCEPT !.offset = msg.val]

isValid(msg) == msg.kind = "pin" \/ msg.val # "INVALID"

FreeRunning(d) == [d EXCEPT !.state = "FREERUN", !.offset = Faulty]

(* Mutant: a goroutine is started whenever the DPLL says holdover. *)
stateDecision_StartAgain(n, d) ==
  IF getDpllState(n, d) = "HOLDOVER" /\ hasLeadingSource(n) /\ d.inSpec /\ Size(d.offset) <= MaxHoldoverOffset
  THEN [d |-> [d EXCEPT !.onHoldover = TRUE, !.state = "HOLDOVER"], close |-> FALSE, start |-> TRUE]
  ELSE LET s == getDpllState(n, d)
       IN  IF s \in {"LOCKED", "HO_ACQ"} /\ isOffsetInRange(n, d)
           THEN [d |-> [d EXCEPT !.inSpec = TRUE, !.lost = FALSE, !.state = "LOCKED"],
                 close |-> d.onHoldover, start |-> FALSE]
           ELSE [d |-> FreeRunning([d EXCEPT !.inSpec = FALSE]), close |-> TRUE, start |-> FALSE]

(* stateDecision: what becomes of DpllConfig, whether the goroutine is     *)
(* asked to leave and whether a new one is started.                        *)
stateDecision(n, d) ==
  LET s == getDpllState(n, d)
      outOfSpec == \/ ~d.inSpec
                   \/ sc.source[n] = "ptp" /\ Size(d.offset) > MaxHoldoverOffset
      plain(e)  == [d |-> e, close |-> FALSE, start |-> FALSE]
      close(e)  == [d |-> e, close |-> TRUE, start |-> FALSE]
  IN  CASE s \in {"FREERUN", "INVALID", "UNKNOWN"} ->
             [close(FreeRunning([d EXCEPT !.inSpec = FALSE, !.lost = TRUE]))
                EXCEPT !.close = hasLeadingSource(n) /\ d.onHoldover]
        [] s = "HOLDOVER" ->
             IF ~hasLeadingSource(n) THEN plain(FreeRunning(d))
             ELSE IF outOfSpec THEN close(FreeRunning([d EXCEPT !.lost = TRUE]))
             ELSE IF d.onHoldover \/ d.closing THEN plain(d)
             ELSE [plain([d EXCEPT !.onHoldover = TRUE, !.state = "HOLDOVER"])
                     EXCEPT !.start = TRUE]
        [] OTHER ->
             IF isOffsetInRange(n, d)
             THEN [close([d EXCEPT !.inSpec = TRUE, !.lost = FALSE, !.state = "LOCKED"])
                     EXCEPT !.close = hasLeadingSource(n) /\ d.onHoldover]
             ELSE close(FreeRunning([d EXCEPT !.inSpec = FALSE]))

-----------------------------------------------------------------------------
DpllEvent(n, d) == [proc |-> "dpll", iface |-> n, state |-> d.state, lost |-> d.lost]

(* sendDpllEvent does not wait and drops at a full channel; here the       *)
(* channel is never full (for the loss of an event see ClockManager).      *)
Offer(ev) == events' = Append(events, ev)

Set(n, d) == dpll' = [dpll EXCEPT ![n] = d]

(* A goroutine takes the request to leave only while it waits in its       *)
(* select.                                                                 *)
Asked(n, close) ==
  {IF close /\ g.pc = "wait" THEN [g EXCEPT !.pc = "closed"] ELSE g : g \in hos[n]}

NewId(n) == CHOOSE i \in 1..3 : \A g \in hos[n] : g.id # i

(* applyStateUpdate, under the lock. *)
applyStateUpdate(n, d) ==
  LET r == stateDecision(n, d)
  IN  /\ Set(n, r.d)
      /\ hos' = [hos EXCEPT ![n] = Asked(n, r.close) \cup
                   IF r.start THEN {[id |-> NewId(n), pc |-> "start", el |-> 0]} ELSE {}]
      /\ Offer(DpllEvent(n, r.d))

-----------------------------------------------------------------------------
(* MonitorDpllNetlink. *)

(* Dial and dump: the state of the devices is applied.  The loop pauses    *)
(* between two attempts, so their events do not pile up.                   *)
Redial(n) ==
  /\ mon[n] = "down" /\ Len(events) < Backlog
  /\ mon' = [mon EXCEPT ![n] = "dumped"]
  /\ applyStateUpdate(n, [dpll[n] EXCEPT !.freq = hw[n].eec, !.phase = hw[n].pps])
  /\ UNCHANGED <<hw, ntf>>

(* Join the multicast group: what changed since the dump goes unnoticed. *)
Join(n) ==
  /\ mon[n] = "dumped"
  /\ \E to \in {"joined"} \cup (IF "join" \in sc.faults THEN {"down"} ELSE {}) :
       mon' = [mon EXCEPT ![n] = to]
  /\ UNCHANGED <<hw, ntf, dpll, hos, events>>

(* monitorNtf leaves on an error of the connection. *)
ConnLost(n) ==
  /\ mon[n] = "joined" /\ "conn" \in sc.faults
  /\ mon' = [mon EXCEPT ![n] = "down"]
  /\ ntf' = [ntf EXCEPT ![n] = <<>>]
  /\ UNCHANGED <<hw, dpll, hos, events>>

(* monitorNtf: of the messages of one Receive the last is applied. *)
Notified(n) ==
  \E k \in 1..sc.batch :
    /\ mon[n] = "joined" /\ k <= Len(ntf[n])
    /\ ntf' = [ntf EXCEPT ![n] = SubSeq(@, k + 1, Len(@))]
    /\ IF isValid(ntf[n][k]) THEN applyStateUpdate(n, nlUpdateState(dpll[n], ntf[n][k]))
       ELSE UNCHANGED <<dpll, hos, events>>
    /\ UNCHANGED <<hw, mon>>

(* Stop: the clock is told with a Reset, the connection is closed; a       *)
(* second later a holdover is closed for good.                             *)
Stop(n) ==
  /\ "stop" \in sc.faults /\ mon[n] \in {"down", "dumped", "joined"}
  /\ mon' = [mon EXCEPT ![n] = "stopping"]
  /\ ntf' = [ntf EXCEPT ![n] = <<>>]
  /\ Offer([proc |-> "reset", iface |-> n, state |-> "NOTSET", lost |-> FALSE])
  /\ UNCHANGED <<hw, dpll, hos>>

Stopped(n) ==
  /\ mon[n] = "stopping"
  /\ mon' = [mon EXCEPT ![n] = "stopped"]
  /\ IF dpll[n].onHoldover
     THEN Set(n, [dpll[n] EXCEPT !.onHoldover = FALSE, !.closing = TRUE])
     ELSE UNCHANGED dpll
  /\ UNCHANGED <<hw, ntf, hos, events>>

(* The devices change; the kernel notifies who has joined. *)
HwChange(n, x) ==
  /\ x.kind = "pin" \/ x.val # hw[n][x.kind]
  /\ Len(ntf[n]) < sc.changes /\ Len(events) < Backlog
  /\ hw' = [hw EXCEPT ![n][x.kind] = x.val]
  /\ ntf' = [ntf EXCEPT ![n] = IF mon[n] = "joined" THEN Append(@, x) ELSE @]
  /\ UNCHANGED <<mon, dpll, hos, events>>

-----------------------------------------------------------------------------
(* holdover(): the steps of goroutine g. *)

Step(n, g, h) == hos' = [hos EXCEPT ![n] = (@ \ {g}) \cup {h}]

HoStart(n, g) ==
  /\ g.pc = "start"
  /\ Step(n, g, [g EXCEPT !.pc = "wait"])
  /\ Offer(DpllEvent(n, dpll[n]))
  /\ UNCHANGED <<hw, mon, ntf, dpll>>

HoTick(n, g) ==
  /\ g.pc = "wait" /\ g.el < Timeout
  /\ Step(n, g, [g EXCEPT !.pc = "ticked", !.el = @ + 1])
  /\ UNCHANGED <<hw, mon, ntf, dpll, events>>

(* The offset of the tick, without the lock. *)
HoApply(n, g) ==
  LET d == [dpll[n] EXCEPT !.offset = Slope * g.el]
      within == isInSpecOffsetInRange(n, d)
  IN  /\ g.pc = "ticked"
      /\ IF sc.source[n] = "gnss" /\ ~within
         THEN /\ Set(n, FreeRunning([d EXCEPT !.inSpec = FALSE]))
              /\ Step(n, g, [g EXCEPT !.pc = "expired"])
         ELSE /\ Set(n, IF sc.source[n] = "gnss" THEN d
                        ELSE [d EXCEPT !.inSpec = @ /\ within, !.state = "HOLDOVER"])
              /\ Step(n, g, [g EXCEPT !.pc = "applied"])
      /\ UNCHANGED <<hw, mon, ntf, events>>

(* Mutant: the end of the holdover leaves the state. *)
HoTimeout_Stay(n, g) ==
  /\ g.pc = "wait" /\ g.el = Timeout
  /\ Step(n, g, [g EXCEPT !.pc = "expired"])
  /\ UNCHANGED <<hw, mon, ntf, dpll, events>>

HoTimeout(n, g) ==
  /\ g.pc = "wait" /\ g.el = Timeout
  /\ Set(n, FreeRunning([dpll[n] EXCEPT !.inSpec = FALSE]))
  /\ Step(n, g, [g EXCEPT !.pc = "expired"])
  /\ UNCHANGED <<hw, mon, ntf, events>>

(* Mutant: the goroutine keeps its events to itself. *)
HoSend_Mute(n, g) ==
  /\ g.pc \in {"applied", "expired"}
  /\ Step(n, g, [g EXCEPT !.pc = IF @ = "applied" THEN "wait" ELSE "exit"])
  /\ UNCHANGED <<hw, mon, ntf, dpll, events>>

HoSend(n, g) ==
  /\ g.pc \in {"applied", "expired"}
  /\ Step(n, g, [g EXCEPT !.pc = IF @ = "applied" THEN "wait" ELSE "exit"])
  /\ Offer(DpllEvent(n, dpll[n]))
  /\ UNCHANGED <<hw, mon, ntf, dpll>>

(* Stop has closed the channel. *)
HoClosed(n, g) ==
  /\ g.pc = "wait" /\ dpll[n].closing
  /\ Step(n, g, [g EXCEPT !.pc = "closed"])
  /\ UNCHANGED <<hw, mon, ntf, dpll, events>>

HoBackInSpec(n, g) ==
  /\ g.pc = "closed"
  /\ Set(n, [dpll[n] EXCEPT !.inSpec = TRUE])
  /\ Step(n, g, [g EXCEPT !.pc = "exit"])
  /\ UNCHANGED <<hw, mon, ntf, events>>

(* The deferred function, under the lock. *)
HoExit(n, g) ==
  LET d == [dpll[n] EXCEPT !.onHoldover = FALSE]
  IN  /\ g.pc = "exit"
      /\ Set(n, d)
      /\ hos' = [hos EXCEPT ![n] = @ \ {g}]
      /\ Offer(DpllEvent(n, d))
      /\ UNCHANGED <<hw, mon, ntf>>

-----------------------------------------------------------------------------
NewDpll ==
  [phase |-> "INVALID", freq |-> "INVALID", offset |-> Faulty, inSpec |-> FALSE, lost |-> FALSE,
   state |-> "FREERUN", onHoldover |-> FALSE, closing |-> FALSE]

DpllInit ==
  /\ \E k \in DOMAIN Scenarios : scenario = setupDPLL(Scenarios[k].profile) @@ Scenarios[k]
  /\ hw = [n \in sc.nics |-> [eec |-> "LOCKED", pps |-> "LOCKED", pin |-> Faulty]]
  /\ mon = [n \in sc.nics |-> "down"]
  /\ ntf = [n \in sc.nics |-> <<>>]
  /\ dpll = [n \in sc.nics |-> NewDpll]
  /\ hos = [n \in sc.nics |-> {}]
  /\ events = <<>>

Holdover(n) ==
  \E g \in hos[n] :
    \/ HoStart(n, g)
    \/ HoTick(n, g)
    \/ HoApply(n, g)
    \/ HoTimeout(n, g)
    \/ HoSend(n, g)
    \/ HoClosed(n, g)
    \/ HoBackInSpec(n, g)
    \/ HoExit(n, g)

Monitor(n) ==
  \/ Redial(n)
  \/ Join(n)
  \/ ConnLost(n)
  \/ Notified(n)
  \/ Stop(n)
  \/ Stopped(n)
  \/ \E x \in sc.hw[n] : HwChange(n, x)

DpllNext == \E n \in sc.nics : Monitor(n) \/ Holdover(n)
=============================================================================
