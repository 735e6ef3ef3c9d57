----------------------------- MODULE MCPlatform -----------------------------
(***************************************************************************)
(* Three parts of the platform that share no state, checked in one run: an *)
(* initial state picks one of them, the others stay as they are.  They are *)
(* the pins of a node whose NICs are an E825 pair (HardwarePins), the      *)
(* conditions under which the processes of a telecom boundary clock and of *)
(* a grandmaster with NTP failover start (StartConditions), and the events *)
(* of the proxy (EventCache).                                              *)
(***************************************************************************)
EXTENDS HardwarePins, StartConditions, EventCache, TLC

Side(state, prio) == [state |-> state, prio |-> prio]
NoSide == Side(None, None)
Pin(clock, board, package, module, parents, over) ==
  [clock |-> clock, board |-> board, package |-> package, module |-> module,
   parents |-> parents, over |-> over, gran |-> 10, min |-> -50, max |-> 50]

(* A NIC pin over an input and an output pin of the DPLL chip. *)
MCPins == [p1 |-> Pin("c1", "SDP0", "REF0P", "zl3073x", <<"in", "in">>, <<>>),
           p2 |-> Pin("c1", "OCP", None, "zl3073x", <<"out", "out">>, <<>>),
           p3 |-> Pin("c2", None, None, "ice", <<>>, <<"p1">>)]
MCNics == [e1 |-> [e825 |-> TRUE, direct |-> "d1", eui64 |-> "u1", pin |-> "p3", leading |-> "e1"],
           e2 |-> [e825 |-> TRUE, direct |-> "d2", eui64 |-> "u2", pin |-> None, leading |-> "e1"]]
MCTemplate ==
  [ptpInput |-> "SDP0",
   sources |-> <<[name |-> "PTP", type |-> "ptpTimeReceiver", sub |-> "{subsystem}", rx |-> <<>>]>>,
   conditions |-> <<
     [name |-> "init", triggers |-> {[type |-> "init", src |-> "PTP"]}, states |-> <<
        [kind |-> "file", sub |-> None, label |-> "SDP2", src |-> "PTP", value |-> "off"],
        [kind |-> "dpll", sub |-> "{subsystem}", label |-> "{ptpInputPin}",
         eec |-> Side("disconnected", None), pps |-> Side("selectable", None)]>>],
     [name |-> "lost", triggers |-> {[type |-> "lost", src |-> "PTP"]}, states |-> <<
        [kind |-> "dpll", sub |-> "{subsystem}", label |-> "{ptpInputPin}",
         eec |-> NoSide, pps |-> Side("disconnected", None)]>>] >>]
MCVendor ==
  [v |-> [method |-> "devlinkPinChain", flags |-> FALSE,
          pins |-> [SDP0 |-> [eec |-> Side(None, 14), pps |-> Side("disconnected", 6)],
                    OCP |-> [eec |-> Side("disconnected", None), pps |-> NoSide]],
          esync |-> <<"frequency", "eSyncFrequency", "enable">>, conns |-> {"SMA1"},
          points |-> {[label |-> "SDP0", input |-> TRUE], [label |-> "OCP", input |-> FALSE]},
          routes |-> <<[path |-> <<"nac", "dpll">>, label |-> "SDP0"],
                       [path |-> <<"dpll", "cf", "nowhere">>, label |-> "OCP"]>>,
          delays |-> (<<"nac", "dpll">> :> 17) @@ (<<"dpll", "cf">> :> 8),
          templates |-> ("T-BC" :> MCTemplate)]]
MCProfiles == [tbc |-> <<[iface |-> "e1", upstream |-> TRUE], [iface |-> "e2", upstream |-> FALSE]>>]
Sub(name, iface, in, out) ==
  [name |-> name, iface |-> iface, ports |-> <<>>, def |-> "v", in |-> in, out |-> out]
OcpOut == [OCP |-> [freq |-> 10, esync |-> 1, phase |-> 12, conn |-> "SMA1"]]
UserCondition ==
  [name |-> "dlocked", triggers |-> {[type |-> "locked", src |-> "dpll"]}, states |-> <<
     [kind |-> "dpll", sub |-> "lead", label |-> "OCP",
      eec |-> Side("connected", None), pps |-> Side("connected", None)]>>]
Config(name, out, subs) ==
  [name |-> name, profile |-> "tbc", type |-> "T-BC",
   subs |-> <<Sub("lead", None, << >>, out)>> \o subs,
   sources |-> <<[name |-> "dpll", type |-> "dpll", sub |-> "lead", rx |-> <<>>]>>,
   conditions |-> <<UserCondition>>]
MCConfigSets == {<<>>, <<Config("h1", OcpOut, <<>>)>>, <<Config("h2", << >>, <<>>)>>}
MCTwoSubsystems == {<<Config("h1", << >>, <<Sub("second", "e2", << >>, << >>)>>)>>}

StartProfile(t, f) == [type |-> t, failover |-> f, phc2sys |-> TRUE]
MCStartProfiles == {StartProfile("T-BC", FALSE), StartProfile("T-GM", TRUE)}

MCMsgTypeSets == {{"clock_class", "sync_state"}} \cup
  {{t} : t \in {"ptp_state", "synce_clock_quality", "gnss_state", "os_clock_state", "synce_state"}}
MCIFacesOf ==
  [ptp_state |-> {"e1", "e2"}, clock_class |-> {"", "e1"}, sync_state |-> {""},
   synce_clock_quality |-> {"e1", "e2"}, gnss_state |-> {"e1", "e2"},
   os_clock_state |-> {"e1"}, synce_state |-> {"e1", "e2"}]

VARIABLE which

vars == <<which, pinVars, startVars, eventVars>>

(* A part that is not picked has one initial state only. *)
Init ==
  /\ which \in {"pins", "start", "events"}
  /\ PinInit /\ StartInit /\ EventInit
  /\ which # "start" => startProfile = StartProfile("T-BC", FALSE) /\ stable
  /\ which # "events" => MsgTypes = {"ptp_state"}

Next ==
  \/ which = "pins" /\ PinNext /\ UNCHANGED <<which, startVars, eventVars>>
  \/ which = "start" /\ StartNext /\ UNCHANGED <<which, pinVars, eventVars>>
  \/ which = "events" /\ EventNext /\ UNCHANGED <<which, pinVars, startVars>>

InStart(A) == which = "start" /\ A

(* StartFairness, where that is the part picked. *)
Fairness ==
  /\ WF_startVars(InStart(processEvents)) /\ WF_startVars(InStart(TimePasses))
  /\ SF_startVars(InStart(StatusLine))
  /\ \A p \in Sources : SF_startVars(InStart(OffsetLine(p)))

Spec == Init /\ [][Next]_vars /\ Fairness

(* ChainStarts and LossHandsOver of StartConditions, where that is the     *)
(* part picked: a chain of waiting processes runs in the end, and chronyd  *)
(* has the system clock while GNSS stays lost.                             *)
PlatformStarts == (which = "start") => ChainStarts /\ LossHandsOver
=============================================================================
