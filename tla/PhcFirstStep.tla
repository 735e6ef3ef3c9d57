---------------------------- MODULE PhcFirstStep ----------------------------
(***************************************************************************)
(* The plugin phc-first-step of linuxptp-daemon (addons/phcfirststep): it  *)
(* steps the hardware clock of a NIC before the processes of a profile     *)
(* start.  A free-running ptp4l measures the offset, phc_ctl reads the     *)
(* clock and sets it to the corrected time; a second measurement decides   *)
(* whether to do it once more.                                             *)
(*                                                                         *)
(* The ports that are measured and the leading interface share one clock.  *)
(* Both clocks run on between the steps.  Times are 64-bit counts of       *)
(* nanoseconds, here -Half .. Half - 1, which phc_ctl prints and reads as  *)
(* seconds with a fraction that is never negative.                         *)
(***************************************************************************)
EXTENDS Integers, Sequences

CONSTANTS
  Half,          \* 2^63 in the code
  Second,        \* nanosecondsPerSecond; also the residual that is accepted
  NoDevice,
  StepProfiles,  \* records [selected, lines, timeout, leading, devices]
  PhcOf,         \* interface -> its PHC, NoDevice for none
  Domain,        \* domain of the master that can be heard
  MaxSteps       \* bound: nanoseconds that pass

ASSUME PhcFirstStepAssumption ==
  Half \in Nat \ {0} /\ Second \in 1..Half /\ MaxSteps \in Nat

VARIABLES
  stepProfile,
  stepPc,       \* "start", "measure", "read", "set" or the outcome
  adjustment,   \* adjustments made
  phcTime, masterTime,
  offset,       \* the last sample
  readTime,     \* what phc_ctl has read
  late,         \* nanoseconds since the clock was read
  passed        \* nanoseconds that have passed
stepVars == <<stepProfile, stepPc, adjustment, phcTime, masterTime, offset, readTime, late, passed>>

Int64 == -Half .. Half - 1

-----------------------------------------------------------------------------
(* The profile.  A line of ptp4lConf is [section, key, value]. *)

NoPorts == {"global", "nmea", "unicast_master_table"}

timeReceiverInterfaces(p) ==
  {p.lines[n].section : n \in {m \in DOMAIN p.lines :
      /\ p.lines[m].section \notin NoPorts
      /\ p.lines[m].key = "masterOnly" /\ p.lines[m].value = 0}}

leadingInterface(p) ==
  IF p.leading # NoDevice THEN p.leading
  ELSE IF p.devices # <<>> THEN Head(p.devices) ELSE NoDevice

leadingPHC(p) ==
  LET i == leadingInterface(p) IN IF i = NoDevice THEN NoDevice ELSE PhcOf[i]

(* The measuring ptp4l takes the domain of the profile, the last one set. *)
renderMeasurementConfig(p) ==
  LET ds == {n \in DOMAIN p.lines :
               p.lines[n].section = "global" /\ p.lines[n].key = "domainNumber"}
  IN  IF ds = {} THEN 0 ELSE p.lines[CHOOSE n \in ds : \A m \in ds : m <= n].value

-----------------------------------------------------------------------------
(* Numbers.  Quotient and remainder of Go round towards zero. *)

Quot(a, b) == IF a >= 0 THEN a \div b ELSE -((-a) \div b)
Rem(a, b)  == a - b * Quot(a, b)

formatNS(v) ==
  LET s == Quot(v, Second)
      r == Rem(v, Second)
  IN  IF r < 0 THEN [sec |-> s - 1, ns |-> r + Second] ELSE [sec |-> s, ns |-> r]

(* Mutant: the part of a second below the smallest quotient is refused. *)
phcSecondsToNS_Truncated(t) ==
  IF t.sec < Quot(-Half, Second) \/ t.sec * Second > Half - 1 - t.ns THEN {}
  ELSE {t.sec * Second + t.ns}

(* A set that is empty when the value overflows nanoseconds.  The second   *)
(* below the smallest quotient is computed from its end, as its start is   *)
(* not representable.                                                      *)
phcSecondsToNS(t) ==
  LET minSeconds == Quot(-Half, Second)
      maxSeconds == Quot(Half - 1, Second)
      minNanoseconds == Second + Rem(-Half, Second)
  IN  IF t.sec < minSeconds - 1 \/ t.sec > maxSeconds THEN {}
      ELSE IF t.sec = minSeconds - 1
      THEN IF t.ns < minNanoseconds THEN {} ELSE {-Half + t.ns - minNanoseconds}
      ELSE IF t.sec * Second > Half - 1 - t.ns THEN {} ELSE {t.sec * Second + t.ns}

(* The same for the time to set. *)
correctedTime(phc, o) ==
  IF (o > 0 /\ phc < -Half + o) \/ (o < 0 /\ phc > Half - 1 + o) THEN {} ELSE {phc - o}

(* phc_ctl: seconds and nanoseconds of a clock, and back. *)
Printed(t) == [sec |-> t \div Second, ns |-> t % Second]
Clock(t)   == t.sec * Second + t.ns

-----------------------------------------------------------------------------
StepInit ==
  /\ stepProfile \in StepProfiles /\ stepPc = "start" /\ adjustment = 0
  /\ phcTime \in Int64 /\ masterTime \in Int64
  /\ offset = 0 /\ readTime = 0 /\ late = 0 /\ passed = 0

clocks == <<stepProfile, phcTime, masterTime, passed>>

(* onPTPConfigChange: every check before the first measurement. *)
onPTPConfigChange ==
  LET ok == /\ timeReceiverInterfaces(stepProfile) # {}
            /\ stepProfile.timeout # "invalid"
            /\ leadingPHC(stepProfile) # NoDevice
  IN  /\ stepPc = "start"
      /\ stepPc' = IF ~stepProfile.selected THEN "skipped" ELSE IF ok THEN "measure" ELSE "failed"
      /\ UNCHANGED <<clocks, adjustment, offset, readTime, late>>

(* A sample: an offset that is a 64-bit number, from a master in the       *)
(* domain.  From the second measurement on a small one ends the work.      *)
measureOffset ==
  LET o == phcTime - masterTime
  IN  /\ stepPc = "measure"
      /\ renderMeasurementConfig(stepProfile) = Domain /\ o \in Int64
      /\ offset' = o
      /\ stepPc' = IF adjustment > 0 /\ o <= Second /\ o >= -Second THEN "done" ELSE "read"
      /\ UNCHANGED <<clocks, adjustment, readTime, late>>

(* ptp4l exits or cannot be started, or the timeout of the profile ends    *)
(* the wait.  Without a timeout ptp4l is waited for without end.           *)
MeasureFails ==
  /\ stepPc = "measure"
  /\ stepPc' = "failed"
  /\ UNCHANGED <<clocks, adjustment, offset, readTime, late>>

readPHCTime ==
  LET ts == phcSecondsToNS(Printed(phcTime))
  IN  /\ stepPc = "read"
      /\ readTime' = IF ts = {} THEN readTime ELSE CHOOSE t \in ts : TRUE
      /\ stepPc' = IF ts = {} THEN "unread"
                   ELSE IF correctedTime(readTime', offset) = {} THEN "overflow" ELSE "set"
      /\ late' = 0
      /\ UNCHANGED <<clocks, adjustment, offset>>

(* setPHCTime and the end of the loop of updatePHC. *)
setPHCTime ==
  /\ stepPc = "set"
  /\ \E t \in correctedTime(readTime, offset) : phcTime' = Clock(formatNS(t))
  /\ adjustment' = adjustment + 1
  /\ stepPc' = IF adjustment = 1 THEN "done" ELSE "measure"
  /\ UNCHANGED <<stepProfile, masterTime, passed, offset, readTime, late>>

(* phc_ctl fails. *)
CommandFails ==
  /\ stepPc \in {"read", "set"}
  /\ stepPc' = "failed"
  /\ UNCHANGED <<clocks, adjustment, offset, readTime, late>>

ClocksRun ==
  /\ stepPc \in {"measure", "read", "set"} /\ passed < MaxSteps
  /\ phcTime < Half - 1 /\ masterTime < Half - 1
  /\ phcTime' = phcTime + 1 /\ masterTime' = masterTime + 1 /\ passed' = passed + 1
  /\ late' = IF stepPc = "set" THEN late + 1 ELSE late
  /\ UNCHANGED <<stepProfile, stepPc, adjustment, offset, readTime>>

StepNext ==
  \/ onPTPConfigChange
  \/ measureOffset
  \/ MeasureFails
  \/ readPHCTime
  \/ setPHCTime
  \/ CommandFails
  \/ ClocksRun

StepSpec == StepInit /\ [][StepNext]_stepVars

-----------------------------------------------------------------------------
(* When the plugin reports success, the clock is within a second of the    *)
(* master or behind it by no more than the time between its last reading   *)
(* and its last setting; it gives up for the size of a number only if the  *)
(* time to set, or the time read, is none that 64 bits can hold, at either *)
(* end of the range (updatePHC, correctedTime, phcSecondsToNS, formatNS).  *)
FirstStepLands ==
  /\ stepPc = "done" =>
       phcTime - masterTime \in -(IF late > Second THEN late ELSE Second) .. Second
  /\ stepPc = "overflow" => readTime - offset \notin Int64
  /\ stepPc # "unread"
=============================================================================
