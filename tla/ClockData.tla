------------------------------ MODULE ClockData ------------------------------
(***************************************************************************)
(* What the processes have reported to a clock: pkg/event/stats.go, the    *)
(* DataHolder of pkg/clock/baseclock.go and the offset window of           *)
(* pkg/utils/window.go.                                                    *)
(*                                                                         *)
(* data is a sequence of entries, one per reporting process in the order   *)
(* of their first event; an entry has a sequence of details, one per       *)
(* interface, and a window of the last offsets.                            *)
(***************************************************************************)
EXTENDS Integers, Sequences, FiniteSets

CONSTANT WindowSize   \* event.WindowSize (10 in the code)

ASSUME WindowAssumption == WindowSize \in Nat \ {0}

Abs(n) == IF n < 0 THEN -n ELSE n

(* Window.Insert: the buffer is circular, so the oldest value goes.  The   *)
(* code keeps the values in a different order, which no statistic sees.    *)
Insert(w, v) == IF Len(w) < WindowSize THEN Append(w, v) ELSE Append(Tail(w), v)

IsEmpty(w) == w = <<>>
IsFull(w)  == Len(w) = WindowSize

Total(w) ==
  LET sum[n \in 0..Len(w)] == IF n = 0 THEN 0 ELSE sum[n - 1] + w[n]
  IN  sum[Len(w)]

(* int64(Mean()) of a window that is not empty: rounded towards zero. *)
Mean(w) == IF Total(w) < 0 THEN -((-Total(w)) \div Len(w)) ELSE Total(w) \div Len(w)

(* GetData: the entry of a process is created by its first event. *)
GetData(data, p) ==
  IF \E k \in 1..Len(data) : data[k].proc = p THEN data
  ELSE Append(data, [proc |-> p, details |-> <<>>, window |-> <<>>])

Entries(data, p)    == {k \in 1..Len(data) : data[k].proc = p}
Details(data, p)    == UNION {{data[k].details[j] : j \in 1..Len(data[k].details)} :
                                k \in Entries(data, p)}
DetailsOf(data, p, i) == {d \in Details(data, p) : d.iface = i}

(* Data.AddEvent.  The first event of an interface creates its detail and  *)
(* leaves the offset out; later ones update it, unless they are older than *)
(* what is there (the wall clock was stepped back).                        *)
AddDetail(e, ev, older) ==
  LET at == {j \in 1..Len(e.details) : e.details[j].iface = ev.iface}
      upd(d) == [d EXCEPT !.state = ev.state, !.lost = ev.lost, !.outOfSpec = ev.outOfSpec,
                          !.stale = FALSE,
                          !.offset = IF ev.hasOffset THEN ev.offset ELSE @]
  IN  IF at = {}
      THEN [e EXCEPT !.details = Append(@, [iface |-> ev.iface, state |-> ev.state,
              lost |-> ev.lost, outOfSpec |-> ev.outOfSpec, offset |-> 0, stale |-> FALSE])]
      ELSE IF older THEN e
      ELSE [e EXCEPT !.details = [j \in 1..Len(@) |-> IF j \in at THEN upd(@[j]) ELSE @[j]],
                     !.window = IF ev.hasOffset THEN Insert(@, ev.offset) ELSE @]

AddEvent(data, ev, older) ==
  LET d == GetData(data, ev.proc)
  IN  [k \in 1..Len(d) |-> IF d[k].proc = ev.proc THEN AddDetail(d[k], ev, older) ELSE d[k]]

(* Data.UpdateState: the worst state any interface of the process is in. *)
UpdateState(details) ==
  LET states == {details[j].state : j \in 1..Len(details)}
  IN  IF "FREERUN" \in states THEN "FREERUN"
      ELSE IF "HOLDOVER" \in states THEN "HOLDOVER"
      ELSE IF "LOCKED" \in states THEN "LOCKED"
      ELSE "UNKNOWN"

(* Data.State of process p, absent while p has not reported. *)
StateOf(data, p, absent) ==
  IF Entries(data, p) = {} THEN absent
  ELSE UpdateState(data[CHOOSE k \in Entries(data, p) : TRUE].details)

(* A detail that has not been updated for StaleEventAfter. *)
Expire(data, p, i) ==
  [k \in 1..Len(data) |->
     IF data[k].proc = p
     THEN [data[k] EXCEPT !.details =
             [j \in 1..Len(@) |-> IF @[j].iface = i THEN [@[j] EXCEPT !.stale = TRUE] ELSE @[j]]]
     ELSE data[k]]
=============================================================================
