------------------------------- MODULE SyncE -------------------------------
(***************************************************************************)
(* How linuxptp-daemon reads synce4l (pkg/synce/synce.go, and              *)
(* processSynceEvents of pkg/daemon/ptp_process.go): lines with the state  *)
(* of the clock or with one half of a quality level, for one interface     *)
(* each.  A quality level is a pair of codes, SSM and extended SSM; with   *)
(* extended TLVs the two come on lines of their own and are put together   *)
(* again, per interface.                                                   *)
(***************************************************************************)
EXTENDS Naturals, Sequences, PTPStates

CONSTANTS
  SynceIfaces,     \* interfaces of the device
  Levels,          \* quality levels synce4l may announce: <<ssm, ext>>
  NetworkOptions   \* 1, 2

VARIABLES
  option, extended,   \* NetworkOption and ExtendedTlv of the device
  level, due,         \* per interface: the level announced, the lines still due
  lastQL,             \* LastQLState of each interface
  lastState,          \* LastClockState of the device
  synceTold                \* per interface: the last event

synceVars == <<option, extended, level, due, lastQL, lastState, synceTold>>

DefaultSSM == 3        \* QL_DEFAULT_SSM: used by no SSM
NoExt      == 255      \* QL_DEFAULT_ENHSSM

ASSUME SynceAssumption ==
  /\ NetworkOptions \subseteq {1, 2}
  /\ Levels \subseteq (Nat \ {DefaultSSM}) \X (Nat \ {DefaultSSM})

(* qualityLevelInfoOption1 and qualityLevelInfoOption2 *)
QualityLevels(opt) ==
  IF opt = 1
  THEN [EPRTC |-> <<2, 33>>, PRTC |-> <<2, 32>>, PRC |-> <<2, 255>>, SSUA |-> <<4, 255>>,
        SSUB |-> <<8, 255>>, EEC1 |-> <<11, 255>>, DNU |-> <<15, 255>>]
  ELSE [EPRTC |-> <<1, 33>>, PRTC |-> <<1, 32>>, PRS |-> <<1, 255>>, STU |-> <<0, 255>>,
        ST2 |-> <<7, 255>>, TNC |-> <<4, 255>>, ST3E |-> <<13, 255>>, EEC2 |-> <<10, 255>>,
        PROV |-> <<14, 255>>, DUS |-> <<15, 255>>]

(* Compare: an extended code that was not read matches any. *)
Compare(info, ssm, ext) == info[1] = ssm /\ (ext = DefaultSSM \/ info[2] = ext)

(* ClockQuality: the name of a level, "do not use" for an unknown one. *)
ClockQuality(ssm, ext) ==
  LET table == QualityLevels(option)
      e     == IF extended THEN ext ELSE NoExt
      names == {q \in DOMAIN table : Compare(table[q], ssm, e)}
  IN  IF extended /\ ext = DefaultSSM THEN ""
      ELSE IF names # {} THEN CHOOSE q \in names : TRUE
      ELSE IF option = 1 THEN "DNU" ELSE "DUS"

(* StringToEECState, ToPTPState *)
ToPTPState(s) ==
  CASE s \in {"EEC_LOCKED", "EEC_LOCKED_HO_ACQ"} -> "LOCKED"
    [] s = "EEC_HOLDOVER" -> "HOLDOVER"
    [] s = "EEC_FREERUN" -> "FREERUN"
    [] OTHER -> "UNKNOWN"

NoLevel == [ssm |-> DefaultSSM, ext |-> DefaultSSM]

SynceInit ==
  /\ option \in NetworkOptions /\ extended \in BOOLEAN
  /\ level = [i \in SynceIfaces |-> <<DefaultSSM, DefaultSSM>>]
  /\ due = [i \in SynceIfaces |-> <<>>]
  /\ lastQL = [i \in SynceIfaces |-> NoLevel] /\ lastState = "UNKNOWN"
  /\ synceTold = [i \in SynceIfaces |-> [state |-> "UNKNOWN", level |-> NoLevel, quality |-> ""]]

-----------------------------------------------------------------------------
(* synce4l has a new level for an interface: two lines, which those of     *)
(* other interfaces may come between.                                      *)
Announces(i, l) ==
  /\ due[i] = <<>>
  /\ level' = [level EXCEPT ![i] = l]
  /\ due' = [due EXCEPT ![i] = IF extended THEN <<"QL", "EXT">> ELSE <<"QL">>]
  /\ UNCHANGED <<option, extended, lastQL, lastState, synceTold>>

(* The event offered to the event channel, which drops it when it is full. *)
sendSynceEvent(i, state, l, q) ==
  synceTold' = [synceTold EXCEPT ![i] = [state |-> state, level |-> l, quality |-> q]]

(* Mutant: the SSM last read is kept for the whole device. *)
Remember_Device(i, l) == lastQL' = [x \in SynceIfaces |-> l]

Remember(i, l) == lastQL' = [lastQL EXCEPT ![i] = l]

(* ParseLog and processSynceEvents, for the line "act on STATE for IFACE", *)
(* which the whole device takes its state from, ...                        *)
StateLine(i, s) ==
  /\ lastState' = ToPTPState(s)
  /\ sendSynceEvent(i, lastState', NoLevel, "")
  /\ UNCHANGED <<option, extended, level, due, lastQL>>

(* ... for a SSM, which is reported at once without extended TLVs and      *)
(* waits for its other half with them, ...                                 *)
QLLine(i) ==
  /\ due[i] # <<>> /\ Head(due[i]) = "QL"
  /\ due' = [due EXCEPT ![i] = Tail(@)]
  /\ \E ssm \in {level[i][1]} :
       IF extended
       THEN Remember(i, [lastQL[i] EXCEPT !.ssm = ssm]) /\ UNCHANGED synceTold
       ELSE /\ Remember(i, [ssm |-> ssm, ext |-> NoExt])
            /\ sendSynceEvent(i, lastState, [ssm |-> ssm, ext |-> NoExt], ClockQuality(ssm, NoExt))
  /\ UNCHANGED <<option, extended, level, lastState>>

(* ... and for an extended SSM. *)
ExtQLLine(i) ==
  /\ due[i] # <<>> /\ Head(due[i]) = "EXT"
  /\ due' = [due EXCEPT ![i] = Tail(@)]
  /\ \E l \in {[lastQL[i] EXCEPT !.ext = level[i][2]]} :
       /\ Remember(i, l)
       /\ IF lastQL[i].ssm # DefaultSSM
          THEN sendSynceEvent(i, lastState, l, ClockQuality(l.ssm, l.ext)) ELSE UNCHANGED synceTold
  /\ UNCHANGED <<option, extended, level, lastState>>

SynceNext ==
  \E i \in SynceIfaces :
    \/ \E l \in Levels : Announces(i, l)
    \/ \E s \in {"EEC_LOCKED", "EEC_LOCKED_HO_ACQ", "EEC_HOLDOVER", "EEC_FREERUN"} : StateLine(i, s)
    \/ QLLine(i) \/ ExtQLLine(i)

SynceSpec == SynceInit /\ [][SynceNext]_synceVars

-----------------------------------------------------------------------------
(* Once its lines are read, the level reported for an interface is the one *)
(* synce4l has announced for it, both halves of the same announcement,     *)
(* however the lines of the interfaces follow each other, and under its    *)
(* name if it has one (processSynceEvents, ClockQuality).                  *)
LevelAnnounced ==
  \A i \in SynceIfaces :
    synceTold[i].level # NoLevel /\ due[i] = <<>> =>
      /\ synceTold[i].level = [ssm |-> level[i][1], ext |-> IF extended THEN level[i][2] ELSE NoExt]
      /\ \A q \in DOMAIN QualityLevels(option) :
           QualityLevels(option)[q] = <<synceTold[i].level.ssm, synceTold[i].level.ext>>
             => synceTold[i].quality = q
=============================================================================
