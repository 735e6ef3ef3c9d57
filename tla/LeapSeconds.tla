---------------------------- MODULE LeapSeconds ----------------------------
(***************************************************************************)
(* The leap-second manager of linuxptp-daemon (pkg/leap/leap-file.go): the *)
(* leap file and its copy in a configmap, the indications of the receiver  *)
(* (NAV-TIMELS), the leap flag handed to ptp4l in the hours before a leap, *)
(* and the UTC offset the clocks ask for.                                  *)
(*                                                                         *)
(* Time is counted in maintenance periods.  A leap second is                *)
(* [time, sec]: from time on, TAI is sec ahead of UTC.                     *)
(***************************************************************************)
EXTENDS Integers, SequencesExt

CONSTANTS
  MaxTime,              \* bound: the time of the run
  StartOff, EndOff,     \* pmcWindowStartHours, pmcWindowEndSeconds
  LeapTimes,            \* when the leap second of the run may be
  MaxFailures           \* bound: failed API and pmc calls, restarts, losses

ASSUME LeapAssumption ==
  /\ {MaxTime, StartOff, EndOff, MaxFailures} \subseteq Nat /\ EndOff < StartOff
  /\ LeapTimes \subseteq Int

VARIABLES
  now,
  leap,        \* the leap second to come: [time, change], with change 0 for none
  inds,       \* UbloxLsInd, a channel of capacity 2
  leaps,       \* leapFile.LeapEvents
  configmap,  \* the file of this node in the configmap
  retryUpdate, pmcLeapSent,
  flag,       \* leap flag of ptp4l: "none", "59", "61"
  ptpOffset,  \* currentUtcOffset of ptp4l
  ticked,     \* the maintenance of this period is done
  fails,      \* failures so far
  unread      \* a command was made from settings that pmc had not told

leapVars == <<now, leap, inds, leaps, configmap, retryUpdate, pmcLeapSent, flag, ptpOffset,
              ticked, fails, unread>>

Base == 37     \* seconds before the leap of this run

(* TAI - UTC as it is, and the date of the last leap. *)
TrueOffset == Base + (IF now > leap.time THEN leap.change ELSE 0)
LastLeap == IF now > leap.time /\ leap.change # 0 THEN leap.time ELSE -7

LeapInit ==
  /\ now = 0
  /\ leap \in {[time |-> t, change |-> c] : t \in LeapTimes, c \in {-1, 0, 1}}
  /\ inds = <<>>
  /\ leaps \in {<<[time |-> -8, sec |-> Base - 1], [time |-> -7, sec |-> Base]>>,
               <<[time |-> -9, sec |-> Base - 2], [time |-> -8, sec |-> Base - 1]>>}
  /\ configmap = leaps /\ retryUpdate = FALSE /\ pmcLeapSent = FALSE
  /\ flag = "none" /\ ptpOffset = Last(leaps).sec /\ ticked = FALSE /\ fails = 0
  /\ unread = FALSE

Fail == fails < MaxFailures /\ fails' = fails + 1

-----------------------------------------------------------------------------
(* What NAV-TIMELS may say: of the leap to come, once the receiver has     *)
(* heard of it, how far it is; or of no change, and then when the last leap *)
(* was, or a date to come about which nothing is known.                    *)
Indicated ==
  LET said(change, date) == [curr |-> TrueOffset, change |-> change, at |-> date,
                             timeToLsEvent |-> date - now]
  IN  {said(0, d) : d \in {LastLeap} \cup {t \in LeapTimes : t >= now}}
        \cup (IF now <= leap.time THEN {said(leap.change, leap.time)} ELSE {})

(* An indication is dropped when the channel stays full. *)
Indication ==
  /\ inds = <<>>     \* bound: one indication at a time
  /\ \E i \in Indicated : inds' = IF Len(inds) < 2 THEN Append(inds, i) ELSE inds
  /\ UNCHANGED <<now, leap, leaps, configmap, retryUpdate, pmcLeapSent, flag, ptpOffset,
                 ticked, fails, unread>>

(* updateLeapConfigmap: a failure is retried at the next maintenance. *)
updateLeapConfigmap(f) ==
  \/ configmap' = f /\ retryUpdate' = FALSE /\ UNCHANGED fails
  \/ Fail /\ retryUpdate' = TRUE /\ UNCHANGED configmap

(* Mutant: every event is dated by the receiver. *)
NewEvent_ByReceiver(i) == [time |-> i.at, sec |-> i.curr + i.change]

(* A change that has happened unnoticed is dated by the receiver when it   *)
(* tells of the past, and otherwise out of the window, "so no pmc commands *)
(* will be sent".                                                          *)
NewEvent(i) == [time |-> IF i.change = 0 /\ i.timeToLsEvent >= 0 THEN now - EndOff ELSE i.at,
                sec |-> i.curr + i.change]

(* processLeapIndication: valid flags, a known source, a last leap on file *)
(* that is over, and another number of seconds.                            *)
handleLeapIndication ==
  /\ inds # <<>> /\ inds' = Tail(inds)
  /\ \E i \in {Head(inds)} :
       IF i.curr + i.change # Last(leaps).sec /\ Last(leaps).time < now
       THEN /\ leaps' = Append(leaps, NewEvent(i))
            /\ updateLeapConfigmap(leaps')
       ELSE UNCHANGED <<leaps, configmap, retryUpdate, fails>>
  /\ UNCHANGED <<now, leap, pmcLeapSent, flag, ptpOffset, ticked, unread>>

IsLeapInWindow == now > Last(leaps).time - StartOff /\ now < Last(leaps).time - EndOff

(* RunPMCExpGetGMSettings: when every attempt times out, the settings are  *)
(* all zero and there is no error.                                         *)
GMSettings == {[offset |-> ptpOffset, silent |-> FALSE], [offset |-> 0, silent |-> TRUE]}

(* The direction comes from the difference to the offset of ptp4l. *)
Direction(offset) == IF Last(leaps).sec > offset THEN "61"
                     ELSE IF Last(leaps).sec < offset THEN "59" ELSE flag

(* Run, once a period.  A failed pmc is tried again. *)
Maintenance ==
  /\ ~ticked /\ ticked' = TRUE
  /\ IF retryUpdate THEN updateLeapConfigmap(leaps)
     ELSE UNCHANGED <<configmap, retryUpdate, fails>>
  /\ IF IsLeapInWindow
     THEN IF pmcLeapSent THEN UNCHANGED <<pmcLeapSent, flag, ptpOffset, unread>>
          ELSE \/ \E g \in GMSettings :
                    /\ g.silent => fails' < MaxFailures
                    /\ unread' = (unread \/ g.silent)
                    /\ flag' = Direction(g.offset) /\ ptpOffset' = g.offset
                    /\ pmcLeapSent' = TRUE
               \/ fails' < MaxFailures /\ UNCHANGED <<pmcLeapSent, flag, ptpOffset, unread>>
     ELSE pmcLeapSent' = FALSE /\ UNCHANGED <<flag, ptpOffset, unread>>
  /\ UNCHANGED <<now, leap, inds, leaps>>

(* The daemon starts again: populateLeapData reads the configmap. *)
Restart ==
  /\ Fail
  /\ leaps' = configmap /\ retryUpdate' = FALSE /\ pmcLeapSent' = FALSE /\ inds' = <<>>
  /\ UNCHANGED <<now, leap, configmap, flag, ptpOffset, ticked, unread>>

(* GetUtcOffset: until the last leap on file, the seconds of the one before. *)
GetUtcOffset ==
  IF now > Last(leaps).time THEN Last(leaps).sec ELSE leaps[Len(leaps) - 1].sec

(* A grandmaster announces its class, and the offset with it. *)
Announce ==
  /\ ptpOffset # GetUtcOffset /\ ptpOffset' = GetUtcOffset
  /\ UNCHANGED <<now, leap, inds, leaps, configmap, retryUpdate, pmcLeapSent, flag, ticked,
                 fails, unread>>

(* With the leap ptp4l counts it and drops the flag. *)
TimePasses ==
  /\ now < MaxTime /\ ticked
  /\ now' = now + 1 /\ ticked' = FALSE
  /\ IF now = leap.time
     THEN /\ flag' = "none"
          /\ ptpOffset' = ptpOffset + (IF flag = "61" THEN 1 ELSE IF flag = "59" THEN -1 ELSE 0)
     ELSE UNCHANGED <<flag, ptpOffset>>
  /\ UNCHANGED <<leap, inds, leaps, configmap, retryUpdate, pmcLeapSent, fails, unread>>

LeapNext ==
  Indication \/ handleLeapIndication \/ Maintenance \/ Restart
  \/ Announce \/ TimePasses

LeapFairness ==
  WF_leapVars(Maintenance) /\ WF_leapVars(TimePasses) /\ WF_leapVars(handleLeapIndication)

LeapSpec == LeapInit /\ [][LeapNext]_leapVars /\ LeapFairness

-----------------------------------------------------------------------------
(* ptp4l is told of a leap second only when there is one to come, and of   *)
(* the right direction, whatever the manager missed before, however the    *)
(* configmap and pmc fail, and over restarts (Run); unless pmc was silent  *)
(* and the settings were taken for zero (RunPMCExpGetGMSettings).          *)
NoFalseLeap ==
  (flag # "none" /\ ~unread) =>
                   /\ now <= leap.time
                   /\ flag = IF leap.change = 1 THEN "61" ELSE "59"
=============================================================================
