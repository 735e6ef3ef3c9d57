----------------------------- MODULE UbxCommand -----------------------------
(***************************************************************************)
(* How linuxptp-daemon configures a u-blox receiver (pkg/ublox/command.go, *)
(* Init of ublox.go): every command is a ubxtool of its own, and its       *)
(* answers (ACK-ACK, ACK-NAK) are picked out of what the long-running      *)
(* ubxtool reads, by their number alone.                                   *)
(***************************************************************************)
EXTENDS Integers, Sequences, FiniteSets

CONSTANTS
  CommandLists,   \* sequences of commands, a command is a sequence of arguments
  MaxExtra        \* bound: answers beyond two to an indeterminate operation

Flags == {"-z", "-e", "-d"}

(* A value is never a flag, and nothing is saved twice by one command. *)
IsCommand(args) ==
  /\ args \in Seq(STRING)
  /\ \A i \in 1..(Len(args) - 1) : args[i] \in Flags => args[i + 1] \notin Flags
  /\ \A i, j \in 1..Len(args) : args[i] = "SAVE" /\ args[j] = "SAVE" => i = j

ASSUME UbxAssumption ==
  /\ \A l \in CommandLists : l \in Seq(Seq(STRING)) /\ \A k \in 1..Len(l) : IsCommand(l[k])
  /\ MaxExtra \in Nat

VARIABLES
  list,       \* the commands to run
  at,         \* how many have been run or are being run
  phase,      \* "idle" or "collect"
  air,        \* answers on their way, oldest first: [cmd, ack]
  responses,  \* those collected for the command being run
  seenNonAckNak,
  truth, results,   \* what became of each command, and what Run returned
  leaked            \* a command was given up while its answers were under way

ubxVars == <<list, at, phase, air, responses, seenNonAckNak, truth, results, leaked>>

Indeterminate == -1     \* indeterminateAckCount

(* ackResponseCount *)
ResponseCount(name) ==
  IF name = "GPS" THEN 2
  ELSE IF name \in {"GALILEO", "GLONASS", "BEIDOU", "SBAS"} THEN 1
  ELSE Indeterminate

isSaveCommand(args) == \E i \in 1..(Len(args) - 1) : args[i] = "-p" /\ args[i + 1] = "SAVE"
isPollCommand(args) == \E i \in 1..Len(args) : args[i] = "-p"

(* The place behind a flag and its value. *)
SkipValue(args, i) == IF i + 2 > Len(args) + 1 THEN Len(args) + 1 ELSE i + 2

(* Mutant: every -z is an operation of its own. *)
ackCommandGroups_EveryZ(args) ==
  LET n == Len(args)
      groups[i \in 1..(n + 1)] ==
        IF i > n THEN <<>>
        ELSE IF args[i] = "-z" THEN <<1>> \o groups[i + 1]
        ELSE IF args[i] \in {"-e", "-d"}
        THEN <<IF i < n THEN ResponseCount(args[i + 1]) ELSE Indeterminate>> \o groups[i + 1]
        ELSE groups[i + 1]
  IN  IF groups[1] = <<>> /\ isSaveCommand(args) THEN <<1>> ELSE groups[1]

(* Where the run of -z that begins at a place ends.                         *)
EndFrom(args) ==
  LET n == Len(args)
      end[i \in 1..(n + 1)] == IF i > n \/ args[i] # "-z" THEN i ELSE end[SkipValue(args, i)]
  IN  end

(* The number of answers to expect of each operation from a place on: a    *)
(* run of -z is one operation, every -e and -d one of its own.             *)
GroupsFrom(args) ==
  LET n == Len(args)
      groups[i \in 1..(n + 1)] ==
        IF i > n THEN <<>>
        ELSE IF args[i] = "-z" THEN <<1>> \o groups[EndFrom(args)[i]]
        ELSE IF args[i] \in {"-e", "-d"}
        THEN <<IF i < n THEN ResponseCount(args[i + 1]) ELSE Indeterminate>>
             \o groups[SkipValue(args, i)]
        ELSE groups[i + 1]
  IN  groups

ackCommandGroups(args) ==
  LET groups == GroupsFrom(args)[1]
  IN  IF groups = <<>> /\ isSaveCommand(args) THEN <<1>> ELSE groups

HasIndeterminate(gs) == \E k \in 1..Len(gs) : gs[k] = Indeterminate

(* validateAckCommandBatch: an indeterminate operation must be alone. *)
validateAckCommandBatch(args) ==
  LET gs == ackCommandGroups(args)
  IN  HasIndeterminate(gs) =>
        Len(gs) + (IF isSaveCommand(args) \/ isPollCommand(args) THEN 1 ELSE 0) <= 1

Least(g) == IF g = Indeterminate THEN 1 ELSE g

(* ackBatchExpectation: the least number of answers of the first k groups. *)
Expected(gs) ==
  LET sum[k \in 0..Len(gs)] == IF k = 0 THEN 0 ELSE sum[k - 1] + Least(gs[k])
  IN  sum[Len(gs)]

(* ackBatchError: answers go to the operations in order. *)
ackBatchError(gs, acks) ==
  LET from(k) == Expected(SubSeq(gs, 1, k - 1))
      Bad(k)  == IF gs[k] = Indeterminate
                 THEN \A i \in (from(k) + 1)..Len(acks) : ~acks[i]
                 ELSE from(k) + gs[k] > Len(acks)
                      \/ \E i \in (from(k) + 1)..(from(k) + gs[k]) : ~acks[i]
      Short(k) == gs[k] # Indeterminate /\ from(k) + gs[k] > Len(acks)
      bad == {k \in 1..Len(gs) : Bad(k)}
  IN  IF bad = {} THEN "ok"
      ELSE LET k == CHOOSE x \in bad : \A y \in bad : x <= y
           IN  IF Short(k) THEN "short" ELSE "nak"

-----------------------------------------------------------------------------
Groups == ackCommandGroups(list[at])

UbxInit ==
  /\ list \in CommandLists /\ at = 0 /\ phase = "idle"
  /\ air = <<>> /\ responses = <<>> /\ seenNonAckNak = FALSE
  /\ truth = <<>> /\ results = <<>> /\ leaked = FALSE

(* The receiver: the places in the arguments where an operation begins,    *)
(* and how many answers it gives to it.  (A value is never a flag.)        *)
Operations(args) ==
  LET ops == {i \in 1..Len(args) :
                args[i] \in {"-e", "-d"} \/ (args[i] = "-z" /\ ~(i > 2 /\ args[i - 2] = "-z"))}
  IN  IF ops = {} THEN {i \in 1..Len(args) : args[i] = "SAVE"} ELSE ops

Answers(args, i) ==
  IF args[i] \in {"-e", "-d"} /\ i < Len(args) THEN ResponseCount(args[i + 1])
  ELSE IF args[i] \in {"-e", "-d"} THEN Indeterminate ELSE 1

Flat(args, acks) ==   \* the answers to all operations, in order
  LET f[i \in 0..Len(args)] ==
        IF i = 0 THEN <<>> ELSE IF i \in Operations(args) THEN f[i - 1] \o acks[i] ELSE f[i - 1]
  IN  f[Len(args)]

(* Whether the receiver took the command: an operation with a known number *)
(* of answers fails with one of them, another one only with all.           *)
Verdict(args, acks) ==
  IF \E i \in Operations(args) :
       IF Answers(args, i) = Indeterminate
       THEN \A k \in 1..Len(acks[i]) : ~acks[i][k]
       ELSE \E k \in 1..Len(acks[i]) : ~acks[i][k]
  THEN "nak" ELSE "ok"

(* Run subscribes and starts a ubxtool; what the receiver answers is taken *)
(* to be known from now on.  A batch that cannot be attributed is refused; *)
(* a poll has no answers of this kind and is left out.                     *)
Issue ==
  /\ phase = "idle" /\ at < Len(list)
  /\ at' = at + 1
  /\ \E args \in {list[at + 1]} :
       IF ~validateAckCommandBatch(args) \/ ackCommandGroups(args) = <<>>
       THEN /\ truth' = Append(truth, "refused") /\ results' = Append(results, "refused")
            /\ UNCHANGED <<phase, air>>
       ELSE \E acks \in [Operations(args) -> UNION {[1..n -> BOOLEAN] : n \in 1..(2 + MaxExtra)}] :
              /\ \A i \in Operations(args) :
                   Answers(args, i) # Indeterminate => Len(acks[i]) = Answers(args, i)
              /\ truth' = Append(truth, Verdict(args, acks))
              /\ \E all \in {Flat(args, acks)} :
                   air' = air \o [k \in 1..Len(all) |-> [cmd |-> at + 1, ack |-> all[k]]]
              /\ phase' = "collect" /\ UNCHANGED results
  /\ responses' = <<>> /\ seenNonAckNak' = FALSE
  /\ UNCHANGED <<list, leaked>>

(* Run has its answers: their verdict is the result. *)
Finish(rs, rest) ==
  /\ results' = Append(results, IF rs = <<>> THEN "timeout"
                                ELSE ackBatchError(Groups, [i \in 1..Len(rs) |-> rs[i].ack]))
  /\ phase' = "idle"
  /\ leaked' = (leaked \/ rest # <<>>)

(* collectAckResponses stops when all answers are there; an indeterminate  *)
(* batch has another message seen, before or after them.                   *)
Enough(rs, nonAck) ==
  Len(rs) >= Expected(Groups) /\ (HasIndeterminate(Groups) => nonAck)

AckArrives ==
  /\ phase = "collect" /\ air # <<>>
  /\ air' = Tail(air)
  /\ responses' = Append(responses, Head(air))
  /\ IF Enough(responses', seenNonAckNak) THEN Finish(responses', Tail(air))
     ELSE UNCHANGED <<results, phase, leaked>>
  /\ UNCHANGED <<list, at, seenNonAckNak, truth>>

(* A navigation message. *)
OtherArrives ==
  /\ phase = "collect" /\ ~seenNonAckNak
  /\ seenNonAckNak' = TRUE
  /\ IF Enough(responses, TRUE) THEN Finish(responses, air)
     ELSE UNCHANGED <<results, phase, leaked>>
  /\ UNCHANGED <<list, at, air, responses, truth>>

(* Two seconds are over, or ubxtool fails and nothing has come. *)
TimesOut ==
  /\ phase = "collect"
  /\ Finish(responses, air)
  /\ UNCHANGED <<list, at, air, responses, seenNonAckNak, truth>>

(* Nobody has subscribed. *)
AckMissed ==
  /\ phase = "idle" /\ air # <<>>
  /\ air' = Tail(air)
  /\ UNCHANGED <<list, at, phase, responses, seenNonAckNak, truth, results, leaked>>

UbxNext == Issue \/ AckArrives \/ OtherArrives \/ TimesOut \/ AckMissed

UbxSpec == UbxInit /\ [][UbxNext]_ubxVars

-----------------------------------------------------------------------------
(* What Run returns is the receiver's verdict on that very command, however *)
(* answers and navigation messages interleave, as long as no command is    *)
(* given up before all its answers are there (an indeterminate batch is    *)
(* given up at its first answer when a navigation message came before it). *)
(* Nor is a command left waiting for answers that will not come.           *)
AckAttributed ==
  ~leaked => /\ \A c \in 1..Len(results) : results[c] = truth[c]
             /\ phase = "collect" /\ air = <<>> => HasIndeterminate(Groups)
=============================================================================
