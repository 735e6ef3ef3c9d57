----------------------------- MODULE MCServices -----------------------------
(***************************************************************************)
(* The services of the daemon that do not share state, checked in one run: *)
(* an initial state picks one of them, the others stay as they are.        *)
(***************************************************************************)
EXTENDS PMCMonitor, SubscriptionStore, GNSSReceiver, UbxCommand, LeapSeconds, HAClock, SyncE,
        PhcFirstStep

VARIABLE which

vars == <<which, pmcVars, storeVars, gnssVars, ubxVars, leapVars, haVars, synceVars, stepVars>>

Services == {"pmc", "store", "gnss", "ubx", "leap", "ha", "synce", "step"}

(* Commands as Init and profiles issue them. *)
MCCommandLists ==
  { << <<"-d", "BINARY">>, <<"-z", "v", "-z", "v">>, <<"-e", "GPS", "-z", "v">>,
       <<"-e", "NMEA", "-p", "SAVE">>, <<"-p", "SAVE">> >>,
    << <<"-e", "GPS", "-d", "SBAS">>, <<"-z", "v", "-e", "GPS">>, <<"-p", "MON">>,
       <<"-z">> >> }

MCLevels == {<<2, 33>>, <<4, 255>>}

(* A profile that can be measured, and one for every check that fails. *)
Line(section, key, value) == [section |-> section, key |-> key, value |-> value]
StepProfile ==
  [selected |-> TRUE, timeout |-> "some", leading |-> NoDevice, devices |-> <<"e1", "e2">>,
   lines |-> <<Line("global", "domainNumber", 0), Line("global", "domainNumber", 24),
               Line("e1", "masterOnly", 0), Line("e2", "masterOnly", 1)>>]
MCStepProfiles ==
  {StepProfile, [StepProfile EXCEPT !.selected = FALSE],
   [StepProfile EXCEPT !.lines = <<Line("global", "masterOnly", 0)>>],
   [StepProfile EXCEPT !.lines = <<Line("e1", "masterOnly", 0)>>],
   [StepProfile EXCEPT !.timeout = "invalid"],
   [StepProfile EXCEPT !.devices = <<>>],
   [StepProfile EXCEPT !.leading = "e2"]}
MCPhcOf == [e1 |-> "ptp0", e2 |-> NoDevice]

(* A service that is not picked has one initial state only. *)
Init ==
  /\ which \in Services
  /\ PmcInit /\ StoreInit /\ GnssInit /\ UbxInit /\ LeapInit /\ HAInit /\ SynceInit
  /\ StepInit
  /\ which # "pmc" => wire = CHOOSE v \in DataSets : TRUE
  /\ which # "gnss" => sky
  /\ which # "ubx" => list = CHOOSE l \in CommandLists : TRUE
  /\ which # "leap" => /\ leap = [time |-> CHOOSE t \in LeapTimes : TRUE, change |-> 0]
                       /\ Last(leaps).sec = Base
  /\ which # "synce" => option = 1 /\ extended
  /\ which # "step" => stepProfile = StepProfile /\ phcTime = 0 /\ masterTime = 0

Next ==
  \/ which = "pmc" /\ PmcNext
     /\ UNCHANGED <<which, storeVars, gnssVars, ubxVars, leapVars, haVars, synceVars, stepVars>>
  \/ which = "store" /\ StoreNext
     /\ UNCHANGED <<which, pmcVars, gnssVars, ubxVars, leapVars, haVars, synceVars, stepVars>>
  \/ which = "gnss" /\ GnssNext
     /\ UNCHANGED <<which, pmcVars, storeVars, ubxVars, leapVars, haVars, synceVars, stepVars>>
  \/ which = "ubx" /\ UbxNext
     /\ UNCHANGED <<which, pmcVars, storeVars, gnssVars, leapVars, haVars, synceVars, stepVars>>
  \/ which = "leap" /\ LeapNext
     /\ UNCHANGED <<which, pmcVars, storeVars, gnssVars, ubxVars, haVars, synceVars, stepVars>>
  \/ which = "ha" /\ HANext
     /\ UNCHANGED <<which, pmcVars, storeVars, gnssVars, ubxVars, leapVars, synceVars, stepVars>>
  \/ which = "synce" /\ SynceNext
     /\ UNCHANGED <<which, pmcVars, storeVars, gnssVars, ubxVars, leapVars, haVars, stepVars>>
  \/ which = "step" /\ StepNext
     /\ UNCHANGED <<which, pmcVars, storeVars, gnssVars, ubxVars, leapVars, haVars, synceVars>>

Pmc(A) == which = "pmc" /\ A
Gnss(A) == which = "gnss" /\ A

(* PmcFairness and GnssFairness, where that is the service picked. *)
Fairness ==
  /\ WF_pmcVars(Pmc(WorkerStep)) /\ WF_pmcVars(Pmc(MonitorStep))
  /\ WF_pmcVars(Pmc(ClockTakesParentDS))
  /\ WF_pmcVars(Pmc(PollStep)) /\ WF_pmcVars(Pmc(HandlerStep))
  /\ WF_gnssVars(Gnss(GpsdStep)) /\ WF_gnssVars(Gnss(MonStep))
  /\ WF_gnssVars(Gnss(ClockTakesGnss))
  /\ SF_gnssVars(Gnss(MonTick)) /\ SF_gnssVars(Gnss(MonMessage))
  /\ SF_gnssVars(Gnss(ReceiverSends))

Spec == Init /\ [][Next]_vars /\ Fairness

(* RecoversIfClean of PMCMonitor, where that is the service picked: failed *)
(* polls, lost notifications and pmc processes that exit are made up for   *)
(* by the next poll (expectWorker).                                        *)
ParentDSRecovers == (which = "pmc") => RecoversIfClean
=============================================================================
