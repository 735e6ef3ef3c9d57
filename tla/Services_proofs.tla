-------------------------- MODULE Services_proofs ---------------------------
(***************************************************************************)
(* Theorems about services of the daemon and the operator that stand on    *)
(* their own: the high-availability clock, the reading of synce4l, the     *)
(* first step of a hardware clock, the leap-second manager, the            *)
(* subscription store, the controllers and the u-blox commands, for every  *)
(* set of members, interfaces, levels, leap times, resources, secrets and  *)
(* commands, every width of a number and length of a second, and any       *)
(* number of failures and crashes.                                         *)
(***************************************************************************)
EXTENDS HAClock, SyncE, PhcFirstStep, LeapSeconds, SubscriptionStore, OperatorSync,
        UbxCommand, Data_proofs

-----------------------------------------------------------------------------
(* The high-availability clock.  Its state is up to date after every step, *)
(* not only when it has published one.                                     *)
HATypes ==
  /\ member \in [Members -> PTPState]
  /\ os \in {"FREERUN", "HOLDOVER", "LOCKED"}
HAInv ==
  /\ HATypes
  /\ syncState = bestMemberState(member)
  /\ overallSyncState = worstOfState(syncState, os)
  /\ published # "none" => published = PtpStateToIPCState(overallSyncState)
  /\ \A x \in memberMsgs : x[1] # "sync_state"

LEMMA HAInitial == HAInit => HAInv
BY DEF HAInit, HAInv, HATypes, bestMemberState, worstOfState, PTPState

LEMMA HAStep == HAInv /\ [HANext]_haVars => HAInv'
<1> SUFFICES ASSUME HAInv, [HANext]_haVars PROVE HAInv'
  OBVIOUS
<1> USE DEF HAInv
<1>1. ASSUME NEW m \in Members, NEW e \in {"in", "out", "lost", "expired"}, HAAddEvent(m, e)
      PROVE HAInv'
  <2>1. member' = [member EXCEPT ![m] = MemberState(@, e)] /\ MemberState(member[m], e) \in PTPState
    BY <1>1 DEF HAAddEvent, MemberState, PTPState, HATypes
  <2>2. HATypes'
    BY <1>1, <2>1 DEF HAAddEvent, HATypes
  <2>3. syncState' = bestMemberState(member')
    BY <1>1 DEF HAAddEvent
  <2>4. /\ overallSyncState' = worstOfState(syncState', os')
        /\ published' # "none" => published' = PtpStateToIPCState(overallSyncState')
    BY <1>1 DEF HAAddEvent, Emit
  <2>5. \A x \in memberMsgs' : x[1] # "sync_state"
    BY <1>1 DEF HAAddEvent, interceptMemberIPC
  <2> QED BY <2>2, <2>3, <2>4, <2>5
<1>2. ASSUME NEW m \in Members, SelectedSource(m) PROVE HAInv'
  BY <1>2 DEF SelectedSource, HATypes
<1>3. ASSUME NEW s \in {"FREERUN", "HOLDOVER", "LOCKED"}, SystemClockUpdate(s) PROVE HAInv'
  <2>1. HATypes' /\ syncState' = bestMemberState(member')
    BY <1>3 DEF SystemClockUpdate, HATypes
  <2>2. /\ overallSyncState' = worstOfState(syncState', os')
        /\ published' # "none" => published' = PtpStateToIPCState(overallSyncState')
    BY <1>3 DEF SystemClockUpdate, Emit
  <2>3. \A x \in memberMsgs' : x[1] # "sync_state"
    BY <1>3 DEF SystemClockUpdate, interceptMemberIPC
  <2> QED BY <2>1, <2>2, <2>3
<1>4. CASE Reset
  <2>1. Members # {}
    BY <1>4 DEF Reset, bestMemberState
  <2>2. bestMemberState(member') = "FREERUN"
    BY <1>4, <2>1 DEF Reset, bestMemberState
  <2> QED BY <1>4, <2>2 DEF Reset, HATypes, PTPState, worstOfState
<1>5. CASE UNCHANGED haVars
  BY <1>5 DEF haVars, HATypes
<1> QED BY <1>1, <1>2, <1>3, <1>4, <1>5 DEF HANext

(* After any order of samples, losses, selections, OS clock updates and    *)
(* resets, with any number of members, the state last published is the     *)
(* worse of the best member and the OS clock, and no member publishes its  *)
(* own (AddEvent, SystemClockUpdate, interceptMemberIPC).                  *)
THEOREM BestMemberIsPublished == HASpec => []BestMemberPublished
<1>1. HAInv => BestMemberPublished
  BY DEF HAInv, BestMemberPublished
<1>2. HASpec => []HAInv
  BY HAInitial, HAStep, PTL DEF HASpec
<1> QED BY <1>1, <1>2, PTL

-----------------------------------------------------------------------------
(* The reading of synce4l.  Between the two lines of a level the half that *)
(* has been read is the announced one; a level that was told is told under *)
(* its name.                                                               *)
QualityRecord == [ssm : Nat, ext : Nat]
Lines == IF extended THEN {<<>>, <<"QL", "EXT">>, <<"EXT">>} ELSE {<<>>, <<"QL">>}

SynceTypes ==
  /\ option \in {1, 2} /\ extended \in BOOLEAN
  /\ level \in [SynceIfaces -> Nat \X Nat]
  /\ due \in [SynceIfaces -> Lines]
  /\ lastQL \in [SynceIfaces -> QualityRecord]
  /\ DOMAIN synceTold = SynceIfaces

Named(t) ==
  \A q \in DOMAIN QualityLevels(option) :
    QualityLevels(option)[q] = <<t.level.ssm, t.level.ext>> => t.quality = q
Announced(i) == [ssm |-> level[i][1], ext |-> IF extended THEN level[i][2] ELSE NoExt]

HalfRead(i) ==
  due[i] # <<>> => /\ level[i][1] # DefaultSSM
                   /\ due[i] = <<"EXT">> => lastQL[i].ssm = level[i][1]
ToldRight(i) ==
  synceTold[i].level # NoLevel =>
    /\ Named(synceTold[i])
    /\ due[i] = <<>> => synceTold[i].level = Announced(i)

SynceInv == SynceTypes /\ \A i \in SynceIfaces : HalfRead(i) /\ ToldRight(i)

(* No two names of a table stand for the same codes. *)
LEMMA NamesDiffer ==
  ASSUME NEW opt \in {1, 2}
  PROVE  \A q, r \in DOMAIN QualityLevels(opt) :
           QualityLevels(opt)[q] = QualityLevels(opt)[r] => q = r
<1>1. CASE opt = 1
  BY <1>1 DEF QualityLevels
<1>2. CASE opt = 2
  BY <1>2 DEF QualityLevels
<1> QED BY <1>1, <1>2

(* ClockQuality finds the name of a pair of codes that has one. *)
LEMMA QualityNamed ==
  ASSUME option \in {1, 2}, extended \in BOOLEAN, NEW ssm \in Nat, NEW ext \in Nat,
         ~extended => ext = NoExt,
         NEW q \in DOMAIN QualityLevels(option), QualityLevels(option)[q] = <<ssm, ext>>
  PROVE  ClockQuality(ssm, ext) = q
<1> DEFINE table == QualityLevels(option)
           names == {x \in DOMAIN table : Compare(table[x], ssm, IF extended THEN ext ELSE NoExt)}
<1>1. ext # DefaultSSM /\ \A x \in DOMAIN table : table[x] = <<table[x][1], table[x][2]>>
  BY DEF QualityLevels, DefaultSSM
<1>2. \A x \in DOMAIN table : table[x] = table[q] => x = q
  BY NamesDiffer
<1> HIDE DEF table
<1>3. names = {q}
  BY <1>1, <1>2 DEF Compare, NoExt, DefaultSSM, table
<1>4. (CHOOSE x \in names : TRUE) = q
  BY <1>3
<1> QED BY <1>1, <1>3, <1>4 DEF ClockQuality, table

LEMMA SynceInitial == SynceInit => SynceInv
<1> SUFFICES ASSUME SynceInit PROVE SynceInv
  OBVIOUS
<1> USE DEF SynceInit
<1>1. NoLevel \in QualityRecord /\ <<DefaultSSM, DefaultSSM>> \in Nat \X Nat
  BY DEF NoLevel, QualityRecord, DefaultSSM
<1>4. option \in {1, 2} /\ extended \in BOOLEAN /\ DOMAIN synceTold = SynceIfaces
  BY SynceAssumption
<1>5. due \in [SynceIfaces -> Lines]
  BY DEF Lines
<1>6. level \in [SynceIfaces -> Nat \X Nat] /\ lastQL \in [SynceIfaces -> QualityRecord]
  BY <1>1
<1>2. SynceTypes
  BY <1>4, <1>5, <1>6 DEF SynceTypes
<1>3. \A i \in SynceIfaces : HalfRead(i) /\ ToldRight(i)
  BY DEF HalfRead, ToldRight
<1> QED BY <1>2, <1>3 DEF SynceInv

(* A step is about one interface; what is known of the others stays. *)
LEMMA OtherInterfaces ==
  ASSUME SynceInv, NEW i \in SynceIfaces, UNCHANGED <<option, extended>>,
         \A x \in SynceIfaces \ {i} :
           /\ level'[x] = level[x] /\ due'[x] = due[x] /\ lastQL'[x] = lastQL[x]
           /\ synceTold'[x] = synceTold[x],
         SynceTypes', HalfRead(i)', ToldRight(i)'
  PROVE  SynceInv'
<1>1. ASSUME NEW x \in SynceIfaces, x # i PROVE HalfRead(x)' /\ ToldRight(x)'
  <2>1. HalfRead(x) /\ ToldRight(x)
    BY DEF SynceInv
  <2> QED BY <1>1, <2>1 DEF HalfRead, ToldRight, Named, Announced
<1> QED BY <1>1 DEF SynceInv

LEMMA StepAnnounces ==
  ASSUME SynceInv, NEW i \in SynceIfaces, NEW l \in Levels, Announces(i, l)
  PROVE  SynceInv'
<1> DEFINE d == IF extended THEN <<"QL", "EXT">> ELSE <<"QL">>
<1>1. /\ level' = [level EXCEPT ![i] = l] /\ due' = [due EXCEPT ![i] = d]
      /\ UNCHANGED <<option, extended, lastQL, lastState, synceTold>>
  BY DEF Announces
<1>2. d \in Lines /\ d # <<>> /\ d # <<"EXT">>
  BY DEF Lines
<1>3. l \in Nat \X Nat /\ l[1] # DefaultSSM
  BY SynceAssumption
<1> HIDE DEF d
<1>4. SynceTypes'
  BY <1>1, <1>2, <1>3 DEF SynceInv, SynceTypes, Lines
<1>5. due'[i] = d /\ level'[i] = l /\ ToldRight(i)
  BY <1>1 DEF SynceInv, SynceTypes
<1>6. HalfRead(i)' /\ ToldRight(i)'
  BY <1>1, <1>2, <1>3, <1>5 DEF HalfRead, ToldRight, Named
<1> QED BY <1>1, <1>4, <1>6, OtherInterfaces DEF SynceInv, SynceTypes

LEMMA StepStateLine ==
  ASSUME SynceInv, NEW i \in SynceIfaces,
         NEW s \in {"EEC_LOCKED", "EEC_LOCKED_HO_ACQ", "EEC_HOLDOVER", "EEC_FREERUN"},
         StateLine(i, s)
  PROVE  SynceInv'
<1> DEFINE t == [state |-> ToPTPState(s), level |-> NoLevel, quality |-> ""]
<1>1. /\ synceTold' = [synceTold EXCEPT ![i] = t] /\ lastState' = ToPTPState(s)
      /\ UNCHANGED <<option, extended, level, due, lastQL>>
  BY DEF StateLine, sendSynceEvent
<1>2. t.level = NoLevel
  OBVIOUS
<1>3. SynceTypes'
  BY <1>1, <1>2 DEF SynceInv, SynceTypes, Lines
<1> HIDE DEF t
<1>4. synceTold'[i] = t /\ HalfRead(i)
  BY <1>1 DEF SynceInv, SynceTypes
<1>5. HalfRead(i)' /\ ToldRight(i)'
  BY <1>1, <1>2, <1>4 DEF HalfRead, ToldRight
<1> QED BY <1>1, <1>3, <1>5, OtherInterfaces DEF SynceInv, SynceTypes

(* An event with a level that is the announced one, under its name. *)
LEMMA SentRight ==
  ASSUME SynceTypes, NEW i \in SynceIfaces, NEW l \in QualityRecord,
         ~extended => l.ext = NoExt,
         sendSynceEvent(i, lastState, l, ClockQuality(l.ssm, l.ext))
  PROVE  /\ synceTold'[i].level = l /\ Named(synceTold'[i])
         /\ DOMAIN synceTold' = SynceIfaces
         /\ \A x \in SynceIfaces \ {i} : synceTold'[x] = synceTold[x]
<1> DEFINE t == [state |-> lastState, level |-> l, quality |-> ClockQuality(l.ssm, l.ext)]
<1>1. synceTold' = [synceTold EXCEPT ![i] = t]
  BY DEF sendSynceEvent
<1>2. l.ssm \in Nat /\ l.ext \in Nat /\ option \in {1, 2} /\ extended \in BOOLEAN
  BY DEF QualityRecord, SynceTypes
<1>4. Named(t)
  BY <1>2, QualityNamed DEF Named
<1>5. t.level = l
  OBVIOUS
<1> HIDE DEF t
<1> QED BY <1>1, <1>4, <1>5 DEF SynceTypes

LEMMA LineTails ==
  /\ Head(<<"QL", "EXT">>) = "QL" /\ Tail(<<"QL", "EXT">>) = <<"EXT">>
  /\ Head(<<"QL">>) = "QL" /\ Tail(<<"QL">>) = <<>>
  /\ Head(<<"EXT">>) = "EXT" /\ Tail(<<"EXT">>) = <<>>
OBVIOUS

LEMMA StepQLLine ==
  ASSUME SynceInv, NEW i \in SynceIfaces, QLLine(i)
  PROVE  SynceInv'
<1> DEFINE ssm == level[i][1]
<1>1. /\ due[i] # <<>> /\ Head(due[i]) = "QL" /\ due' = [due EXCEPT ![i] = Tail(@)]
      /\ UNCHANGED <<option, extended, level, lastState>>
      /\ level[i] \in Nat \X Nat /\ ssm \in Nat /\ lastQL[i] \in QualityRecord
      /\ extended \in BOOLEAN
  BY DEF QLLine, SynceInv, SynceTypes
<1>2. /\ due[i] = IF extended THEN <<"QL", "EXT">> ELSE <<"QL">>
      /\ Tail(due[i]) = IF extended THEN <<"EXT">> ELSE <<>>
      /\ Tail(due[i]) \in Lines
  <2>1. due[i] \in Lines
    BY DEF SynceInv, SynceTypes
  <2> QED BY <1>1, <2>1, LineTails DEF Lines
<1>3. /\ due' \in [SynceIfaces -> Lines'] /\ due'[i] = Tail(due[i])
      /\ \A x \in SynceIfaces \ {i} : due'[x] = due[x]
  BY <1>1, <1>2 DEF SynceInv, SynceTypes, Lines
<1>4. HalfRead(i) /\ ToldRight(i) /\ SynceTypes
  BY DEF SynceInv
<1>5. CASE extended
  <2> DEFINE l == [lastQL[i] EXCEPT !.ssm = ssm]
  <2>1. l \in QualityRecord /\ l.ssm = ssm
    BY <1>1 DEF QualityRecord
  <2>2. lastQL' = [lastQL EXCEPT ![i] = l] /\ synceTold' = synceTold
    BY <1>5 DEF QLLine, Remember
  <2> HIDE DEF l
  <2>3. lastQL'[i] = l /\ \A x \in SynceIfaces \ {i} : lastQL'[x] = lastQL[x]
    BY <2>2, <1>4 DEF SynceTypes
  <2>4. SynceTypes'
    BY <1>1, <1>3, <1>4, <2>1, <2>2 DEF SynceTypes
  <2>5. due'[i] # <<>>
    BY <1>2, <1>3, <1>5
  <2>6. HalfRead(i)' /\ ToldRight(i)'
    BY <1>1, <1>4, <2>1, <2>2, <2>3, <2>5 DEF HalfRead, ToldRight, Named
  <2> QED BY <1>1, <1>3, <2>2, <2>3, <2>4, <2>6, OtherInterfaces
<1>6. CASE ~extended
  <2> DEFINE l == [ssm |-> ssm, ext |-> NoExt]
  <2>1. l \in QualityRecord /\ l.ssm = ssm /\ l.ext = NoExt /\ l = Announced(i)
    BY <1>1, <1>6 DEF QualityRecord, NoExt, Announced
  <2>2. /\ lastQL' = [lastQL EXCEPT ![i] = l]
        /\ sendSynceEvent(i, lastState, l, ClockQuality(l.ssm, l.ext))
    BY <1>6 DEF QLLine, Remember
  <2> HIDE DEF l
  <2>3. /\ synceTold'[i].level = l /\ Named(synceTold'[i])
        /\ DOMAIN synceTold' = SynceIfaces
        /\ \A x \in SynceIfaces \ {i} : synceTold'[x] = synceTold[x]
    BY <1>4, <2>1, <2>2, SentRight
  <2>4. SynceTypes' /\ \A x \in SynceIfaces \ {i} : lastQL'[x] = lastQL[x]
    BY <1>1, <1>3, <1>4, <2>1, <2>2, <2>3 DEF SynceTypes
  <2>5. due'[i] = <<>>
    BY <1>2, <1>3, <1>6
  <2>6. HalfRead(i)' /\ ToldRight(i)'
    BY <1>1, <2>1, <2>3, <2>5 DEF HalfRead, ToldRight, Named, Announced
  <2> QED BY <1>1, <1>3, <2>3, <2>4, <2>6, OtherInterfaces
<1> QED BY <1>1, <1>5, <1>6

LEMMA StepExtQLLine ==
  ASSUME SynceInv, NEW i \in SynceIfaces, ExtQLLine(i)
  PROVE  SynceInv'
<1> DEFINE l == [lastQL[i] EXCEPT !.ext = level[i][2]]
<1>1. /\ due[i] # <<>> /\ Head(due[i]) = "EXT" /\ due' = [due EXCEPT ![i] = Tail(@)]
      /\ UNCHANGED <<option, extended, level, lastState>>
      /\ level[i] \in Nat \X Nat /\ lastQL[i] \in QualityRecord /\ extended \in BOOLEAN
  BY DEF ExtQLLine, SynceInv, SynceTypes
<1>2. extended /\ due[i] = <<"EXT">> /\ Tail(due[i]) = <<>> /\ <<>> \in Lines
  <2>1. due[i] \in Lines
    BY DEF SynceInv, SynceTypes
  <2> QED BY <1>1, <2>1, LineTails DEF Lines
<1>3. /\ due' \in [SynceIfaces -> Lines'] /\ due'[i] = <<>>
      /\ \A x \in SynceIfaces \ {i} : due'[x] = due[x]
  BY <1>1, <1>2 DEF SynceInv, SynceTypes, Lines
<1>4. HalfRead(i) /\ SynceTypes
  BY DEF SynceInv
<1>5. lastQL[i].ssm = level[i][1] /\ lastQL[i].ssm # DefaultSSM
  BY <1>1, <1>2, <1>4 DEF HalfRead
<1>6. l \in QualityRecord /\ l = Announced(i)
  BY <1>1, <1>2, <1>5 DEF QualityRecord, Announced
<1>7. /\ lastQL' = [lastQL EXCEPT ![i] = l]
      /\ sendSynceEvent(i, lastState, l, ClockQuality(l.ssm, l.ext))
  BY <1>5 DEF ExtQLLine, Remember
<1> HIDE DEF l
<1>8. /\ synceTold'[i].level = l /\ Named(synceTold'[i])
      /\ DOMAIN synceTold' = SynceIfaces
      /\ \A x \in SynceIfaces \ {i} : synceTold'[x] = synceTold[x]
  BY <1>2, <1>4, <1>6, <1>7, SentRight
<1>9. SynceTypes' /\ \A x \in SynceIfaces \ {i} : lastQL'[x] = lastQL[x]
  BY <1>1, <1>3, <1>4, <1>6, <1>7, <1>8 DEF SynceTypes
<1>10. HalfRead(i)' /\ ToldRight(i)'
  BY <1>1, <1>3, <1>6, <1>8 DEF HalfRead, ToldRight, Named, Announced
<1> QED BY <1>1, <1>3, <1>8, <1>9, <1>10, OtherInterfaces

LEMMA SynceStep == SynceInv /\ [SynceNext]_synceVars => SynceInv'
<1> SUFFICES ASSUME SynceInv, [SynceNext]_synceVars PROVE SynceInv'
  OBVIOUS
<1>1. CASE UNCHANGED synceVars
  BY <1>1 DEF synceVars, SynceInv, SynceTypes, Lines, HalfRead, ToldRight, Named, Announced
<1>2. CASE SynceNext
  BY <1>2, StepAnnounces, StepStateLine, StepQLLine, StepExtQLLine DEF SynceNext
<1> QED BY <1>1, <1>2

(* However the lines of the interfaces follow each other, an interface     *)
(* whose lines have been read is reported with the level announced for it, *)
(* both halves of one announcement, and under its name, for either network *)
(* option, with and without extended TLVs (processSynceEvents,             *)
(* ClockQuality).                                                          *)
THEOREM LevelIsAnnounced == SynceSpec => []LevelAnnounced
<1>1. SynceInv => LevelAnnounced
  BY DEF SynceInv, ToldRight, Named, Announced, LevelAnnounced
<1>2. SynceSpec => []SynceInv
  BY SynceInitial, SynceStep, PTL DEF SynceSpec
<1> QED BY <1>1, <1>2, PTL

-----------------------------------------------------------------------------
(* The first step of a hardware clock.  First the numbers: nonlinear facts *)
(* the provers need one at a time.                                         *)

LEMMA DivMod ==
  ASSUME NEW a \in Int, NEW b \in Nat \ {0}
  PROVE  a \div b \in Int /\ (a % b) \in 0..(b - 1) /\ a = (a \div b) * b + (a % b)
OBVIOUS

LEMMA Scaled ==
  ASSUME NEW a \in Int, NEW b \in Int, NEW s \in Nat, a <= b
  PROVE  a * s <= b * s
OBVIOUS

LEMMA Multiples ==
  ASSUME NEW a \in Int, NEW s \in Nat
  PROVE  /\ a * s \in Int /\ s * a = a * s /\ (a + 1) * s = a * s + s
         /\ (a - 1) * s = a * s - s /\ (-a) * s = -(a * s)
OBVIOUS

(* Quotient and remainder of Go: the remainder has the sign of the number. *)
LEMMA QuotRem ==
  ASSUME NEW a \in Int, NEW b \in Nat \ {0}
  PROVE  /\ Quot(a, b) \in Int /\ Rem(a, b) \in Int
         /\ a = Quot(a, b) * b + Rem(a, b)
         /\ a >= 0 => Rem(a, b) \in 0..(b - 1)
         /\ a < 0 => -Rem(a, b) \in 0..(b - 1)
<1>1. CASE a >= 0
  <2>1. Quot(a, b) = a \div b
    BY <1>1 DEF Quot
  <2>2. /\ a \div b \in Int /\ (a % b) \in 0..(b - 1) /\ a = (a \div b) * b + (a % b)
    BY DivMod
  <2>3. b * Quot(a, b) = Quot(a, b) * b /\ Quot(a, b) * b \in Int
    BY <2>1, <2>2, Multiples
  <2> QED BY <1>1, <2>1, <2>2, <2>3 DEF Rem
<1>2. CASE a < 0
  <2>0. PICK c \in Int : c = -a
    OBVIOUS
  <2> DEFINE q == c \div b
  <2>1. Quot(a, b) = -q
    BY <1>2, <2>0 DEF Quot
  <2>2. q \in Int /\ (c % b) \in 0..(b - 1) /\ c = q * b + (c % b)
    BY DivMod
  <2> HIDE DEF q
  <2>3. /\ b * (-q) = (-q) * b /\ (-q) * b = -(q * b) /\ q * b \in Int
    BY <2>2, Multiples
  <2> QED BY <1>2, <2>0, <2>1, <2>2, <2>3 DEF Rem
<1> QED BY <1>1, <1>2

(* What phc_ctl is given is the time that was meant, ... *)
LEMMA FormatExact ==
  ASSUME NEW t \in Int
  PROVE  Clock(formatNS(t)) = t
<1> DEFINE s == Quot(t, Second)
           r == Rem(t, Second)
<1>1. Second \in Nat \ {0}
  BY PhcFirstStepAssumption
<1>2. s \in Int /\ r \in Int /\ t = s * Second + r
  BY <1>1, QuotRem
<1>3. (s - 1) * Second = s * Second - Second /\ s * Second \in Int
  BY <1>1, <1>2, Multiples
<1>4. formatNS(t) = IF r < 0 THEN [sec |-> s - 1, ns |-> r + Second] ELSE [sec |-> s, ns |-> r]
  BY DEF formatNS
<1> HIDE DEF s, r
<1>5. CASE r < 0
  <2>1. Clock(formatNS(t)) = (s - 1) * Second + (r + Second)
    BY <1>4, <1>5 DEF Clock
  <2> QED BY <1>1, <1>2, <1>3, <2>1
<1>6. CASE ~(r < 0)
  <2>1. Clock(formatNS(t)) = s * Second + r
    BY <1>4, <1>6 DEF Clock
  <2> QED BY <1>2, <2>1
<1> QED BY <1>5, <1>6

(* ... and every time of a 64-bit clock is read as it is, from the first   *)
(* second of the range to the last.                                        *)
LEMMA ReadExact ==
  ASSUME NEW t \in Int64
  PROVE  phcSecondsToNS(Printed(t)) = {t}
<1> DEFINE q == t \div Second
           r == t % Second
           min == Quot(-Half, Second)
           max == Quot(Half - 1, Second)
           low == Rem(-Half, Second)
           high == Rem(Half - 1, Second)
<1>1. Second \in Nat \ {0} /\ Half \in Nat \ {0} /\ t \in Int /\ -Half <= t /\ t <= Half - 1
      /\ -Half \in Int /\ Half - 1 \in Nat /\ -Half < 0
  BY PhcFirstStepAssumption DEF Int64
<1>2. q \in Int /\ r \in 0..(Second - 1) /\ t = q * Second + r
  BY <1>1, DivMod
<1>3. min \in Int /\ -low \in 0..(Second - 1) /\ -Half = min * Second + low /\ low \in Int
  BY <1>1, QuotRem
<1>4. max \in Int /\ high \in 0..(Second - 1) /\ Half - 1 = max * Second + high
  BY <1>1, QuotRem
<1>5. phcSecondsToNS(Printed(t)) =
        IF q < min - 1 \/ q > max THEN {}
        ELSE IF q = min - 1
        THEN IF r < Second + low THEN {} ELSE {-Half + r - (Second + low)}
        ELSE IF q * Second > Half - 1 - r THEN {} ELSE {q * Second + r}
  BY DEF phcSecondsToNS, Printed
<1> HIDE DEF q, r, min, max, low, high
<1>6. q * Second \in Int /\ min * Second \in Int /\ max * Second \in Int
      /\ (min - 1) * Second = min * Second - Second
      /\ (q + 1) * Second = q * Second + Second
      /\ (max + 1) * Second = max * Second + Second
  BY <1>1, <1>2, <1>3, <1>4, Multiples
<1>7. ~(q < min - 1)
  <2> SUFFICES ASSUME q < min - 1 PROVE FALSE
    OBVIOUS
  <2>1. q + 1 <= min - 1 /\ q + 1 \in Int /\ min - 1 \in Int
    BY <1>2, <1>3
  <2>2. (q + 1) * Second <= (min - 1) * Second
    BY <1>1, <2>1, Scaled
  <2> QED BY <1>1, <1>2, <1>3, <1>6, <2>2
<1>8. ~(q > max)
  <2> SUFFICES ASSUME q > max PROVE FALSE
    OBVIOUS
  <2>1. max + 1 <= q /\ max + 1 \in Int
    BY <1>2, <1>4
  <2>2. (max + 1) * Second <= q * Second
    BY <1>1, <1>2, <2>1, Scaled
  <2> QED BY <1>1, <1>2, <1>4, <1>6, <2>2
<1>9. CASE q = min - 1
  <2>1. q * Second = min * Second - Second
    BY <1>6, <1>9
  <2>2. ~(r < Second + low) /\ -Half + r - (Second + low) = t
    BY <1>1, <1>2, <1>3, <1>6, <2>1
  <2> QED BY <1>5, <1>7, <1>8, <1>9, <2>2
<1>10. CASE q # min - 1
  <2>1. ~(q * Second > Half - 1 - r)
    BY <1>1, <1>2, <1>6
  <2> QED BY <1>2, <1>5, <1>7, <1>8, <1>10, <2>1
<1> QED BY <1>9, <1>10

(* Both clocks run at the same pace: until the clock is set the last       *)
(* sample is its offset, and the time read is behind by the time since.    *)
StepInv ==
  /\ phcTime \in Int64 /\ masterTime \in Int /\ offset \in Int /\ readTime \in Int
  /\ late \in Nat /\ adjustment \in Nat /\ passed \in Nat
  /\ stepPc \in {"start", "skipped", "failed", "measure", "read", "set", "done", "overflow"}
  /\ stepPc \in {"read", "set"} => offset = phcTime - masterTime
  /\ stepPc = "set" => readTime = phcTime - late /\ readTime - offset \in Int64
  /\ stepPc = "overflow" => readTime - offset \notin Int64
  /\ stepPc = "done" => /\ phcTime - masterTime <= Second
                        /\ phcTime - masterTime >= -Second \/ phcTime - masterTime >= -late

(* correctedTime refuses exactly the times that do not fit. *)
LEMMA CorrectedExact ==
  ASSUME NEW t \in Int64, NEW o \in Int
  PROVE  correctedTime(t, o) = IF t - o \in Int64 THEN {t - o} ELSE {}
<1>1. Half \in Nat \ {0}
  BY PhcFirstStepAssumption
<1> QED BY <1>1 DEF correctedTime, Int64

LEMMA StepInitial == StepInit => StepInv
BY PhcFirstStepAssumption DEF StepInit, StepInv, Int64

LEMMA StepStep == StepInv /\ [StepNext]_stepVars => StepInv'
<1> SUFFICES ASSUME StepInv, [StepNext]_stepVars PROVE StepInv'
  OBVIOUS
<1>0. Second \in Nat \ {0} /\ Half \in Nat \ {0}
  BY PhcFirstStepAssumption
<1> USE DEF StepInv, clocks
<1>1. CASE onPTPConfigChange
  <2>1. stepPc' \in {"skipped", "measure", "failed"}
    BY <1>1 DEF onPTPConfigChange
  <2> QED BY <1>1, <2>1 DEF onPTPConfigChange
<1>2. CASE measureOffset
  <2>1. /\ offset' = phcTime - masterTime
        /\ UNCHANGED <<clocks, adjustment, readTime, late>>
        /\ stepPc' \in {"done", "read"}
        /\ stepPc' = "done" => offset' <= Second /\ offset' >= -Second
    BY <1>2 DEF measureOffset
  <2> QED BY <1>0, <2>1 DEF Int64
<1>3. CASE MeasureFails
  BY <1>3 DEF MeasureFails
<1>4. CASE readPHCTime
  <2>1. phcSecondsToNS(Printed(phcTime)) = {phcTime}
    BY ReadExact
  <2>2. /\ readTime' = phcTime /\ late' = 0
        /\ stepPc = "read" /\ UNCHANGED <<clocks, adjustment, offset>>
        /\ stepPc' = IF correctedTime(phcTime, offset) = {} THEN "overflow" ELSE "set"
    BY <1>4, <2>1 DEF readPHCTime
  <2>3. correctedTime(phcTime, offset) = {} <=> phcTime - offset \notin Int64
    BY CorrectedExact
  <2> QED BY <2>2, <2>3 DEF Int64
<1>5. CASE setPHCTime
  <2>1. /\ stepPc = "set" /\ adjustment' = adjustment + 1
        /\ stepPc' \in {"done", "measure"}
        /\ UNCHANGED <<stepProfile, masterTime, passed, offset, readTime, late>>
        /\ readTime - offset \in Int64 /\ readTime = phcTime - late
        /\ offset = phcTime - masterTime
    BY <1>5 DEF setPHCTime
  <2>2. PICK t \in correctedTime(readTime, offset) : phcTime' = Clock(formatNS(t))
    BY <1>5 DEF setPHCTime
  <2>3. t = readTime - offset
    BY <2>2 DEF correctedTime
  <2>4. t \in Int /\ t \in Int64
    BY <2>1, <2>3
  <2>5. phcTime' = t
    BY <2>2, <2>4, FormatExact
  <2>6. phcTime' - masterTime' = -late
    BY <2>1, <2>3, <2>5 DEF Int64
  <2> QED BY <1>0, <2>1, <2>4, <2>5, <2>6 DEF Int64
<1>6. CASE CommandFails
  BY <1>6 DEF CommandFails
<1>7. CASE ClocksRun
  BY <1>0, <1>7 DEF ClocksRun, Int64
<1>8. CASE UNCHANGED stepVars
  BY <1>8 DEF stepVars
<1> QED BY <1>1, <1>2, <1>3, <1>4, <1>5, <1>6, <1>7, <1>8 DEF StepNext

(* For every width of a number and every length of a second, from any two  *)
(* times of the clocks: when the plugin reports success the clock is       *)
(* within a second of the master or behind it by the time between reading  *)
(* and setting it, and it gives up for the size of a number only when the  *)
(* result does not fit (updatePHC, correctedTime, phcSecondsToNS,          *)
(* formatNS).                                                              *)
THEOREM FirstStepAlwaysLands == StepSpec => []FirstStepLands
<1>1. StepInv => FirstStepLands
  <2> SUFFICES ASSUME StepInv PROVE FirstStepLands
    OBVIOUS
  <2>1. Second \in Nat /\ Half \in Nat
    BY PhcFirstStepAssumption
  <2> QED BY <2>1 DEF StepInv, FirstStepLands, Int64
<1>2. StepSpec => []StepInv
  BY StepInitial, StepStep, PTL DEF StepSpec
<1> QED BY <1>1, <1>2, PTL

-----------------------------------------------------------------------------
(* The leap-second manager.  An event on file that is not over is the leap *)
(* to come, and it is the last; the ones before the leap leave TAI - UTC   *)
(* where it is, or one second behind.                                      *)
LeapEvent == [time : Int, sec : Int]
TheLeap(x) == x.time = leap.time /\ leap.change # 0 /\ x.sec = Base + leap.change
Past(x) == x.time <= now /\ (now <= leap.time => x.sec \in {Base - 1, Base})
FileRight(q) ==
  /\ q \in Seq(LeapEvent) /\ Len(q) >= 2
  /\ \A k \in 2..Len(q) : TheLeap(q[k]) \/ Past(q[k])
  /\ \A k \in 1..Len(q) : k < Len(q) \/ k = 2 => q[k].time < now

Indications == [curr : Int, at : Int, change : {-1, 0, 1}, timeToLsEvent : Int]
IndRight(i) ==
  /\ i \in Indications
  /\ i.change # 0 => i.change = leap.change /\ i.at = leap.time /\ i.curr = Base
  /\ i.change = 0 /\ now <= leap.time => i.curr = Base
  /\ i.timeToLsEvent < 0 => i.at <= now \/ i.change # 0

LeapTypes ==
  /\ now \in Nat /\ leap \in [time : Int, change : {-1, 0, 1}]
  /\ inds \in Seq(Indications)
  /\ flag \in {"none", "59", "61"} /\ ptpOffset \in Int /\ unread \in BOOLEAN
IndsRight == \A k \in 1..Len(inds) : IndRight(inds[k])
OffsetRight == now <= leap.time /\ ~unread => ptpOffset \in {Base - 1, Base}

LeapInv ==
  /\ LeapTypes /\ FileRight(leaps) /\ FileRight(configmap)
  /\ IndsRight /\ OffsetRight /\ NoFalseLeap

LEMMA LeapConstants == StartOff \in Nat /\ EndOff \in Nat /\ Base \in Nat
BY LeapAssumption DEF Base

(* What is known of an event. *)
LEMMA OnFile ==
  ASSUME NEW q, FileRight(q)
  PROVE  /\ Len(q) \in Nat /\ Len(q) >= 2
         /\ \A k \in 1..Len(q) : q[k] \in LeapEvent /\ q[k].time \in Int /\ q[k].sec \in Int
         /\ \A k \in 1..Len(q) : k < Len(q) \/ k = 2 => q[k].time < now
<1>1. \A x \in LeapEvent : x.time \in Int /\ x.sec \in Int
  BY DEF LeapEvent
<1>2. q \in Seq(LeapEvent) /\ Len(q) >= 2
  BY DEF FileRight
<1>3. \A k \in 1..Len(q) : q[k] \in LeapEvent
  BY <1>2
<1> QED BY <1>1, <1>2, <1>3 DEF FileRight

(* A file that was right stays so as time passes. *)
LEMMA FileLasts ==
  ASSUME LeapTypes, NEW q, FileRight(q), leap' = leap, now' \in Nat, now' >= now
  PROVE  FileRight(q)'
<1>1. ASSUME NEW k \in 2..Len(q) PROVE (TheLeap(q[k]) \/ Past(q[k]))'
  <2>1. k \in 1..Len(q) /\ (TheLeap(q[k]) \/ Past(q[k]))
    BY OnFile DEF FileRight
  <2>2. q[k].time \in Int
    BY <2>1, OnFile
  <2> QED BY <2>1, <2>2 DEF TheLeap, Past, LeapTypes
<1>2. \A k \in 1..Len(q) : k < Len(q) \/ k = 2 => q[k].time < now'
  <2> TAKE k \in 1..Len(q)
  <2>1. q[k].time \in Int /\ (k < Len(q) \/ k = 2 => q[k].time < now)
    BY OnFile
  <2> QED BY <2>1 DEF LeapTypes
<1> QED BY <1>1, <1>2 DEF FileRight

LEMMA FilesStay ==
  ASSUME LeapTypes, FileRight(leaps), FileRight(configmap), leap' = leap,
         now' \in Nat, now' >= now,
         leaps' \in {leaps, configmap}, configmap' \in {leaps, configmap}
  PROVE  FileRight(leaps)' /\ FileRight(configmap)'
<1>1. PICK q, c : q = leaps /\ c = configmap
  OBVIOUS
<1>2. FileRight(q)' /\ FileRight(c)'
  BY <1>1, FileLasts
<1>3. leaps' \in {q, c} /\ configmap' \in {q, c}
  BY <1>1
<1> QED BY <1>2, <1>3

LEMMA IndsStay ==
  ASSUME LeapTypes, IndsRight, leap' = leap, now' \in Nat, now' >= now, inds' = inds
  PROVE  IndsRight'
<1>1. now \in Nat /\ leap.time \in Int
  BY DEF LeapTypes
<1>2. ASSUME NEW i, IndRight(i) PROVE IndRight(i)'
  BY <1>1, <1>2 DEF IndRight, Indications
<1> QED BY <1>2 DEF IndsRight

LEMMA LeapInitial == LeapInit => LeapInv
<1> SUFFICES ASSUME LeapInit PROVE LeapInv
  OBVIOUS
<1> USE DEF LeapInit
<1>1. PICK b \in {Base - 1, Base}, t \in {-8, -7} :
        leaps = <<[time |-> t - 1, sec |-> b - 1], [time |-> t, sec |-> b]>>
  BY DEF Base
<1>2. b \in Int /\ b \in {Base - 1, Base}
  BY DEF Base
<1>3. /\ leaps \in Seq(LeapEvent) /\ Len(leaps) = 2 /\ leaps[1].time = t - 1
      /\ leaps[2].time = t /\ t \in {-8, -7} /\ leaps[2].sec = b
  BY <1>1, <1>2 DEF LeapEvent
<1>4. leap \in [time : Int, change : {-1, 0, 1}]
  BY LeapAssumption
<1>5. FileRight(leaps)
  BY <1>2, <1>3 DEF FileRight, Past
<1>6. ptpOffset = b
  BY <1>3 DEF Last
<1>7. LeapTypes
  <2>1. inds \in Seq(Indications)
    OBVIOUS
  <2>2. now \in Nat /\ flag \in {"none", "59", "61"} /\ unread \in BOOLEAN
    OBVIOUS
  <2>3. ptpOffset \in Int
    BY <1>2, <1>6
  <2> QED BY <1>4, <2>1, <2>2, <2>3 DEF LeapTypes
<1>8. OffsetRight
  BY <1>2, <1>6 DEF OffsetRight
<1>9. NoFalseLeap /\ IndsRight
  BY DEF NoFalseLeap, IndsRight
<1> QED BY <1>5, <1>7, <1>8, <1>9 DEF LeapInv

LEMMA StepIndication ==
  ASSUME LeapInv, Indication
  PROVE  LeapInv'
<1>1. PICK i \in Indicated :
        /\ inds = <<>> /\ inds' = Append(inds, i)
        /\ UNCHANGED <<now, leap, leaps, configmap, flag, ptpOffset, unread>>
  BY DEF Indication
<1>0. now \in Nat /\ leap.time \in Int /\ leap.change \in {-1, 0, 1} /\ Base \in Int
  BY DEF LeapInv, LeapTypes, Base
<1>2. IndRight(i)
  <2>1. TrueOffset \in Int /\ (now <= leap.time => TrueOffset = Base)
    BY <1>0 DEF TrueOffset
  <2>2. LastLeap \in Int /\ LastLeap <= now
    BY <1>0 DEF LastLeap
  <2>3. ASSUME NEW d \in {LastLeap} \cup {t \in LeapTimes : t >= now},
               i = [curr |-> TrueOffset, change |-> 0, at |-> d, timeToLsEvent |-> d - now]
        PROVE  IndRight(i)
    <3>1. d \in Int /\ d - now \in Int /\ (d - now < 0 => d <= now)
      BY <1>0, <2>2, LeapAssumption
    <3>2. i.curr = TrueOffset /\ i.change = 0 /\ i.at = d /\ i.timeToLsEvent = d - now
      BY <2>3
    <3>3. i \in Indications
      BY <2>1, <2>3, <3>1 DEF Indications
    <3> QED BY <2>1, <3>1, <3>2, <3>3 DEF IndRight
  <2>4. ASSUME now <= leap.time,
               i = [curr |-> TrueOffset, change |-> leap.change, at |-> leap.time,
                    timeToLsEvent |-> leap.time - now]
        PROVE  IndRight(i)
    <3>1. /\ i.curr = TrueOffset /\ i.change = leap.change /\ i.at = leap.time
          /\ i.timeToLsEvent = leap.time - now /\ ~(leap.time - now < 0)
      BY <1>0, <2>4
    <3>2. i \in Indications
      BY <1>0, <2>1, <2>4 DEF Indications
    <3> QED BY <2>1, <2>4, <3>1, <3>2 DEF IndRight
  <2> QED BY <1>1, <2>3, <2>4 DEF Indicated
<1>3. /\ inds' \in Seq(Indications)
      /\ \A k \in 1..Len(inds') : inds'[k] = i
  BY <1>1, <1>2 DEF IndRight
<1>4. LeapTypes' /\ OffsetRight' /\ NoFalseLeap'
  BY <1>1, <1>3 DEF LeapInv, LeapTypes, OffsetRight, NoFalseLeap
<1>5. FileRight(leaps)' /\ FileRight(configmap)'
  BY <1>1, FilesStay DEF LeapInv, LeapTypes
<1>6. IndsRight'
  BY <1>1, <1>2, <1>3 DEF IndsRight, IndRight
<1> QED BY <1>4, <1>5, <1>6 DEF LeapInv

(* What is put on file: the leap to come, or a change that is over. *)
LEMMA StepHandle ==
  ASSUME LeapInv, handleLeapIndication
  PROVE  LeapInv'
<1> DEFINE i == Head(inds)
<1>0. LeapTypes /\ FileRight(leaps) /\ FileRight(configmap)
  BY DEF LeapInv
<1>1. /\ inds # <<>> /\ inds' = Tail(inds)
      /\ UNCHANGED <<now, leap, flag, ptpOffset, unread>>
      /\ \/ UNCHANGED <<leaps, configmap>>
         \/ /\ Last(leaps).time < now /\ leaps' = Append(leaps, NewEvent(i))
            /\ configmap' \in {leaps', configmap}
  BY DEF handleLeapIndication, updateLeapConfigmap, Fail
<1>2. IndRight(i)
  BY <1>1 DEF LeapInv, LeapTypes, IndsRight
<1>3. inds' \in Seq(Indications)
      /\ \A k \in 1..Len(inds') : IndRight(inds'[k])
  <2>1. /\ inds' \in Seq(Indications)
        /\ \A k \in 1..Len(inds') : k + 1 \in 1..Len(inds) /\ inds'[k] = inds[k + 1]
    BY <1>0, <1>1 DEF LeapTypes
  <2> QED BY <2>1 DEF LeapInv, IndsRight
<1>4. IndsRight'
  BY <1>1, <1>3 DEF IndsRight, IndRight
<1>5. LeapTypes' /\ OffsetRight' /\ NoFalseLeap'
  BY <1>1, <1>3 DEF LeapInv, LeapTypes, OffsetRight, NoFalseLeap
<1>7. FileRight(leaps') /\ FileRight(configmap')
  <2>1. CASE UNCHANGED <<leaps, configmap>>
    BY <1>0, <2>1
  <2>2. CASE /\ Last(leaps).time < now /\ leaps' = Append(leaps, NewEvent(i))
             /\ configmap' \in {leaps', configmap}
    <3> DEFINE x == NewEvent(i)
    <3>1. x \in LeapEvent /\ (TheLeap(x) \/ Past(x))
      BY <1>0, <1>2, LeapConstants
         DEF NewEvent, LeapEvent, IndRight, Indications, LeapTypes, TheLeap, Past
    <3> HIDE DEF x
    <3>2. leaps \in Seq(LeapEvent) /\ Len(leaps) >= 2 /\ leaps' = Append(leaps, x)
      BY <1>0, <2>2 DEF FileRight, x
    <3>3. /\ leaps' \in Seq(LeapEvent) /\ Len(leaps') = Len(leaps) + 1
          /\ \A k \in 1..Len(leaps) : leaps'[k] = leaps[k]
          /\ leaps'[Len(leaps) + 1] = x
      BY <3>1, <3>2
    <3>4. \A k \in 1..Len(leaps) : leaps[k].time < now
      BY <1>0, <2>2, <3>2 DEF FileRight, Last
    <3>5. \A k \in 2..Len(leaps') : TheLeap(leaps'[k]) \/ Past(leaps'[k])
      BY <1>0, <3>1, <3>2, <3>3 DEF FileRight
    <3>6. \A k \in 1..Len(leaps') : k < Len(leaps') \/ k = 2 => leaps'[k].time < now
      BY <3>2, <3>3, <3>4
    <3>7. FileRight(leaps')
      BY <3>2, <3>3, <3>5, <3>6 DEF FileRight
    <3> QED BY <1>0, <2>2, <3>7
  <2> QED BY <1>1, <2>1, <2>2
<1>8. FileRight(leaps)' /\ FileRight(configmap)'
  BY <1>1, <1>7 DEF FileRight, TheLeap, Past
<1> QED BY <1>4, <1>5, <1>8 DEF LeapInv

(* A flag is set in the window before the event on file, which then is the *)
(* leap to come.                                                           *)
LEMMA StepMaintenance ==
  ASSUME LeapInv, Maintenance
  PROVE  LeapInv'
<1>0. LeapTypes /\ FileRight(leaps) /\ FileRight(configmap)
  BY DEF LeapInv
<1>1. /\ UNCHANGED <<now, leap, inds, leaps>> /\ configmap' \in {leaps, configmap}
  BY DEF Maintenance, updateLeapConfigmap
<1>2. \/ UNCHANGED <<flag, ptpOffset, unread>>
      \/ /\ IsLeapInWindow
         /\ \E g \in GMSettings : /\ unread' = (unread \/ g.silent)
                                  /\ flag' = Direction(g.offset) /\ ptpOffset' = g.offset
  BY DEF Maintenance
<1>3. FileRight(leaps)' /\ FileRight(configmap)' /\ IndsRight'
  BY <1>0, <1>1, FilesStay, IndsStay DEF LeapInv, LeapTypes
<1>4. CASE UNCHANGED <<flag, ptpOffset, unread>>
  <2>1. LeapTypes' /\ OffsetRight' /\ NoFalseLeap'
    BY <1>1, <1>4 DEF LeapInv, LeapTypes, OffsetRight, NoFalseLeap
  <2> QED BY <1>3, <2>1 DEF LeapInv
<1>5. ASSUME IsLeapInWindow, NEW g \in GMSettings, unread' = (unread \/ g.silent),
             flag' = Direction(g.offset), ptpOffset' = g.offset
      PROVE  LeapInv'
  <2>1. /\ g.offset \in Int /\ g.silent \in BOOLEAN /\ (~g.silent => g.offset = ptpOffset)
    <3>1. \/ g = [offset |-> ptpOffset, silent |-> FALSE]
          \/ g = [offset |-> 0, silent |-> TRUE]
      BY DEF GMSettings
    <3>2. ptpOffset \in Int
      BY <1>0 DEF LeapTypes
    <3>3. CASE g = [offset |-> ptpOffset, silent |-> FALSE]
      BY <3>2, <3>3
    <3>4. CASE g = [offset |-> 0, silent |-> TRUE]
      <4>1. g.offset = 0 /\ g.silent = TRUE
        BY <3>4
      <4>2. g.offset \in Int
        BY <4>1
      <4>3. g.silent \in BOOLEAN /\ (~g.silent => g.offset = ptpOffset)
        BY <4>1, Zenon
      <4> QED BY <4>2, <4>3
    <3> QED BY <3>1, <3>3, <3>4
  <2>2. Last(leaps) \in LeapEvent /\ (TheLeap(Last(leaps)) \/ Past(Last(leaps)))
    BY <1>0 DEF FileRight, Last
  <2>3. Last(leaps).time > now
    BY <1>0, <1>5, <2>2, LeapConstants DEF IsLeapInWindow, LeapEvent, LeapTypes
  <2>4. TheLeap(Last(leaps)) /\ now < leap.time
    BY <1>0, <2>2, <2>3 DEF Past, TheLeap, LeapEvent, LeapTypes
  <2>5. /\ leap.change \in {-1, 1} /\ Last(leaps).sec = Base + leap.change
    BY <1>0, <2>4 DEF TheLeap, LeapTypes
  <2>6. unread' \in BOOLEAN /\ flag' \in {"none", "59", "61"}
    BY <1>0, <1>5, <2>1 DEF Direction, LeapTypes
  <2>7. LeapTypes'
    BY <1>0, <1>1, <1>5, <2>1, <2>6 DEF LeapTypes
  <2>8. ~unread' => ~unread /\ g.offset = ptpOffset /\ ptpOffset \in {Base - 1, Base}
    BY <1>0, <1>5, <2>1, <2>4 DEF LeapInv, OffsetRight, LeapTypes
  <2>9. OffsetRight'
    BY <1>1, <1>5, <2>8 DEF OffsetRight
  <2>10. ASSUME flag' # "none", ~unread'
         PROVE  flag' = IF leap.change = 1 THEN "61" ELSE "59"
    <3>1. CASE Last(leaps).sec = g.offset
      <4>1. flag' = flag
        BY <1>5, <2>1, <3>1 DEF Direction
      <4> QED BY <2>8, <2>10, <4>1 DEF LeapInv, NoFalseLeap
    <3>2. CASE Last(leaps).sec # g.offset
      BY <1>5, <2>5, <2>8, <2>10, <3>2 DEF Direction, Base
    <3> QED BY <3>1, <3>2
  <2>11. NoFalseLeap'
    BY <1>0, <1>1, <2>4, <2>10 DEF NoFalseLeap, LeapTypes
  <2> QED BY <1>3, <2>7, <2>9, <2>11 DEF LeapInv
<1> QED BY <1>2, <1>4, <1>5

LEMMA StepRestart ==
  ASSUME LeapInv, Restart
  PROVE  LeapInv'
<1>1. /\ leaps' = configmap /\ inds' = <<>>
      /\ UNCHANGED <<now, leap, configmap, flag, ptpOffset, unread>>
  BY DEF Restart
<1>2. LeapTypes' /\ OffsetRight' /\ NoFalseLeap'
  BY <1>1 DEF LeapInv, LeapTypes, OffsetRight, NoFalseLeap
<1>3. FileRight(configmap) /\ FileRight(configmap)'
  BY <1>1 DEF LeapInv, FileRight, TheLeap, Past
<1>4. FileRight(leaps)' /\ IndsRight'
  BY <1>1, <1>3 DEF IndsRight
<1> QED BY <1>2, <1>3, <1>4 DEF LeapInv

LEMMA StepAnnounce ==
  ASSUME LeapInv, Announce
  PROVE  LeapInv'
<1>0. LeapTypes /\ FileRight(leaps)
  BY DEF LeapInv
<1>1. /\ ptpOffset' = GetUtcOffset
      /\ UNCHANGED <<now, leap, inds, leaps, configmap, flag, unread>>
  BY DEF Announce
<1>2. /\ leaps \in Seq(LeapEvent) /\ Len(leaps) \in Nat /\ Len(leaps) >= 2
      /\ leaps[Len(leaps)] \in LeapEvent /\ leaps[Len(leaps) - 1] \in LeapEvent
  BY <1>0 DEF FileRight
<1>3. GetUtcOffset \in Int
  BY <1>2 DEF GetUtcOffset, Last, LeapEvent
<1>4. ASSUME now <= leap.time PROVE GetUtcOffset \in {Base - 1, Base}
  <2>1. CASE now > Last(leaps).time
    <3>1. PICK x \in LeapEvent : x = Last(leaps)
      BY <1>2 DEF Last
    <3>2. TheLeap(x) \/ Past(x)
      BY <1>0, <1>2, <3>1 DEF FileRight, Last
    <3>3. now \in Int /\ leap.time \in Int /\ x.time \in Int
      BY <1>0, <3>1 DEF LeapEvent, LeapTypes
    <3>4. Past(x)
      BY <1>4, <2>1, <3>1, <3>2, <3>3 DEF TheLeap
    <3> QED BY <1>4, <2>1, <3>1, <3>4 DEF Past, GetUtcOffset
  <2>2. CASE ~(now > Last(leaps).time)
    <3>0. \A k \in 1..Len(leaps) : k < Len(leaps) \/ k = 2 => leaps[k].time < now
      BY <1>0, OnFile
    <3>1. Len(leaps) # 2
      BY <1>0, <1>2, <2>2, <3>0 DEF Last
    <3>2. PICK n \in Nat : n = Len(leaps)
      BY <1>2
    <3>3. n - 1 \in 1..n /\ n - 1 < n /\ n - 1 \in 2..n
      BY <1>2, <3>1, <3>2
    <3>4. leaps[n - 1].time < now /\ leaps[n - 1] \in LeapEvent
      BY <1>2, <3>0, <3>2, <3>3
    <3>5. now \in Int /\ leap.time \in Int /\ leaps[n - 1].time \in Int
      BY <1>0, <3>4 DEF LeapEvent, LeapTypes
    <3>6. TheLeap(leaps[n - 1]) \/ Past(leaps[n - 1])
      BY <1>0, <3>2, <3>3 DEF FileRight
    <3>7. Past(leaps[n - 1])
      BY <1>4, <3>4, <3>5, <3>6 DEF TheLeap
    <3> QED BY <1>4, <2>2, <3>2, <3>7 DEF Past, GetUtcOffset
  <2> QED BY <2>1, <2>2
<1>5. LeapTypes' /\ OffsetRight' /\ NoFalseLeap'
  BY <1>1, <1>3, <1>4 DEF LeapInv, LeapTypes, OffsetRight, NoFalseLeap
<1>6. FileRight(leaps)' /\ FileRight(configmap)' /\ IndsRight'
  BY <1>1, FilesStay, IndsStay DEF LeapInv, LeapTypes
<1> QED BY <1>5, <1>6 DEF LeapInv

LEMMA StepTimePasses ==
  ASSUME LeapInv, TimePasses
  PROVE  LeapInv'
<1>0. LeapTypes /\ FileRight(leaps) /\ FileRight(configmap)
  BY DEF LeapInv
<1>1. /\ now' = now + 1 /\ UNCHANGED <<leap, inds, leaps, configmap, unread>>
      /\ now # leap.time => UNCHANGED <<flag, ptpOffset>>
      /\ now = leap.time => flag' = "none" /\ ptpOffset' \in {ptpOffset, ptpOffset + 1, ptpOffset - 1}
  BY <1>0 DEF TimePasses, LeapTypes
<1>2. now \in Nat /\ now' \in Nat /\ now' >= now /\ leap.time \in Int
  BY <1>0, <1>1 DEF LeapTypes
<1>3. FileRight(leaps)' /\ FileRight(configmap)'
  BY <1>0, <1>1, <1>2, FilesStay
<1>4. IndsRight'
  BY <1>0, <1>1, <1>2, IndsStay DEF LeapInv
<1>5. LeapTypes'
  BY <1>0, <1>1, <1>2 DEF LeapTypes
<1>6. OffsetRight' /\ NoFalseLeap'
  BY <1>1, <1>2 DEF LeapInv, OffsetRight, NoFalseLeap
<1> QED BY <1>3, <1>4, <1>5, <1>6 DEF LeapInv

LEMMA LeapStep == LeapInv /\ [LeapNext]_leapVars => LeapInv'
<1> SUFFICES ASSUME LeapInv, [LeapNext]_leapVars PROVE LeapInv'
  OBVIOUS
<1>1. CASE UNCHANGED leapVars
  BY <1>1 DEF leapVars, LeapInv, LeapTypes, FileRight, TheLeap, Past, IndsRight,
              IndRight, OffsetRight, NoFalseLeap
<1>2. CASE LeapNext
  BY <1>2, StepIndication, StepHandle, StepMaintenance, StepRestart, StepAnnounce,
     StepTimePasses DEF LeapNext
<1> QED BY <1>1, <1>2

(* Whenever the leap is, however often the configmap and pmc fail and the  *)
(* daemon restarts, and with a file that may have missed the last leap:    *)
(* ptp4l is told of a leap only before one and with its direction, unless  *)
(* pmc was silent (Run, processLeapIndication, GetUtcOffset).              *)
THEOREM NeverFalseLeap == LeapSpec => []NoFalseLeap
<1>1. LeapInv => NoFalseLeap
  BY DEF LeapInv
<1>2. LeapSpec => []LeapInv
  BY LeapInitial, LeapStep, PTL DEF LeapSpec
<1> QED BY <1>1, <1>2, PTL

-----------------------------------------------------------------------------
(* The subscription store. *)

(* A slot, and one with a subscription in it. *)
Slot == [id : Nat, res : Resources \cup {"none"}]
Whole(x) == x.id \in 1..ids /\ x.res \in Resources

StoreTypes ==
  /\ ids \in Nat
  /\ subs \in Seq(Slot) /\ file \in Seq(Slot)
  /\ free \in Seq(Nat) /\ index \in [Resources -> Seq(Nat)]

SlotsWhole == \A n \in 1..Len(subs) : subs[n].id # 0 => Whole(subs[n])
RecordsWhole == \A n \in 1..Len(file) : Whole(file[n])

(* The free list has the inactive slots, the index the active ones. *)
FreeAgrees == Once(free) /\ ToSet(free) = (1..Len(subs)) \ Active(subs)
Found(r) == {n \in Active(subs) : subs[n].res = r}
IndexAgrees == \A r \in Resources : Once(index[r]) /\ ToSet(index[r]) = Found(r)

(* A save that has written the temporary file has written what is there. *)
TmpAgrees == saving = "rename" => tmp = Records(subs)
FileAgrees == (saving = "idle" /\ saved) => file = Records(subs)

StoreInv ==
  /\ StoreTypes /\ SlotsWhole /\ RecordsWhole
  /\ FreeAgrees /\ IndexAgrees /\ TmpAgrees /\ FileAgrees

-----------------------------------------------------------------------------
(* Stacks and sets kept in slices. *)

LEMMA EmptyOnce == Once(<<>>) /\ ToSet(<<>>) = {}
BY DEF Once, ToSet

LEMMA FrontOnce ==
  ASSUME NEW S, NEW q \in Seq(S), q # <<>>, Once(q)
  PROVE  /\ SubSeq(q, 1, Len(q) - 1) \in Seq(S) /\ Once(SubSeq(q, 1, Len(q) - 1))
         /\ ToSet(SubSeq(q, 1, Len(q) - 1)) = ToSet(q) \ {q[Len(q)]}
<1> DEFINE f == SubSeq(q, 1, Len(q) - 1)
<1>0. Len(q) \in Nat /\ Len(q) # 0 /\ DOMAIN q = 1..Len(q)
  OBVIOUS
<1>1. /\ f \in Seq(S) /\ Len(f) = Len(q) - 1
      /\ \A i \in 1..(Len(q) - 1) : f[i] = q[i]
      /\ DOMAIN f = 1..(Len(q) - 1)
  BY <1>0
<1> HIDE DEF f
<1>2. Once(f)
  BY <1>0, <1>1 DEF Once
<1>3. ToSet(f) = ToSet(q) \ {q[Len(q)]}
  BY <1>0, <1>1 DEF Once, ToSet
<1> QED BY <1>1, <1>2, <1>3 DEF f

(* SwapRemove takes one index out of a list that has it once. *)
LEMMA SwapRemoved ==
  ASSUME NEW S, NEW q \in Seq(S), Once(q), NEW x \in ToSet(q)
  PROVE  /\ SwapRemove(q, x) \in Seq(S) /\ Once(SwapRemove(q, x))
         /\ ToSet(SwapRemove(q, x)) = ToSet(q) \ {x}
<1> DEFINE place == CHOOSE n \in 1..Len(q) : q[n] = x
           m == [q EXCEPT ![place] = q[Len(q)]]
           f == SubSeq(m, 1, Len(m) - 1)
<1>1. place \in 1..Len(q) /\ q[place] = x
  BY DEF ToSet
<1> HIDE DEF place
<1>2. /\ m \in Seq(S) /\ Len(m) = Len(q) /\ Len(q) \in Nat /\ Len(q) # 0
      /\ \A i \in 1..Len(q) : m[i] = IF i = place THEN q[Len(q)] ELSE q[i]
  BY <1>1
<1> HIDE DEF m
<1>3. /\ f \in Seq(S) /\ Len(f) = Len(q) - 1 /\ DOMAIN f = 1..(Len(q) - 1)
      /\ \A i \in 1..(Len(q) - 1) : f[i] = IF i = place THEN q[Len(q)] ELSE q[i]
  BY <1>2
<1> HIDE DEF f
<1>4. SwapRemove(q, x) = f
  BY <1>2 DEF SwapRemove, f, m, place
<1> DEFINE from(i) == IF i = place THEN Len(q) ELSE i
<1>7. ASSUME NEW i \in 1..Len(f)
      PROVE  i \in Nat /\ from(i) \in 1..Len(q) /\ from(i) # place /\ f[i] = q[from(i)]
  BY <1>1, <1>2, <1>3
<1>5. Once(f)
  <2> SUFFICES ASSUME NEW i \in 1..Len(f), NEW j \in 1..Len(f), i # j PROVE f[i] # f[j]
    BY DEF Once
  <2>1. from(i) # from(j)
    BY <1>1, <1>2, <1>3
  <2> HIDE DEF from
  <2> QED BY <1>7, <2>1 DEF Once
<1>6. ToSet(f) = ToSet(q) \ {x}
  <2>1. DOMAIN q = 1..Len(q)
    OBVIOUS
  <2>2. ASSUME NEW y \in ToSet(f) PROVE y \in ToSet(q) \ {x}
    <3>1. PICK i \in 1..Len(f) : f[i] = y
      BY <1>3 DEF ToSet
    <3> HIDE DEF from
    <3>2. from(i) \in 1..Len(q) /\ from(i) # place /\ q[from(i)] = y
      BY <1>7, <3>1
    <3> QED BY <1>1, <2>1, <3>2 DEF Once, ToSet
  <2>3. ASSUME NEW y \in ToSet(q), y # x PROVE y \in ToSet(f)
    <3>1. PICK i \in 1..Len(q) : q[i] = y
      BY <2>1 DEF ToSet
    <3>2. i # place
      BY <1>1, <2>3, <3>1
    <3>3. CASE i = Len(q)
      <4>1. place \in 1..(Len(q) - 1) /\ f[place] = y
        BY <1>1, <1>2, <1>3, <3>1, <3>2, <3>3
      <4> QED BY <1>3, <4>1 DEF ToSet
    <3>4. CASE i # Len(q)
      <4>1. i \in 1..(Len(q) - 1) /\ f[i] = y
        BY <1>2, <1>3, <3>1, <3>2, <3>4
      <4> QED BY <1>3, <4>1 DEF ToSet
    <3> QED BY <3>3, <3>4
  <2> QED BY <2>2, <2>3
<1> QED BY <1>3, <1>4, <1>5, <1>6

-----------------------------------------------------------------------------
(* What a save writes and a restart reads. *)

LEMMA SavedRecords ==
  ASSUME StoreTypes, SlotsWhole
  PROVE  /\ Records(subs) \in Seq(Slot)
         /\ \A n \in 1..Len(Records(subs)) : Whole(Records(subs)[n])
<1> DEFINE T == {subs[n] : n \in Active(subs)}
<1>1. /\ Records(subs) \in Seq(Slot \cap T) /\ Records(subs) = SelectIn(subs, T)
  BY SelectInElements DEF Records, StoreTypes
<1>2. \A x \in T : Whole(x)
  BY DEF SlotsWhole, Active
<1> HIDE DEF T
<1>3. \A n \in 1..Len(Records(subs)) : Records(subs)[n] \in Slot \cap T
  BY <1>1
<1> QED BY <1>1, <1>2, <1>3

LEMMA LoadedRecords ==
  ASSUME StoreTypes, RecordsWhole
  PROVE  /\ Active(file) = 1..Len(file) /\ Records(file) = file
<1>1. file \in Seq(Slot) /\ \A n \in 1..Len(file) : file[n].id # 0
  BY DEF StoreTypes, RecordsWhole, Whole
<1>2. Active(file) = 1..Len(file)
  BY <1>1 DEF Active
<1>3. \A n \in 1..Len(file) : file[n] \in {file[k] : k \in Active(file)}
  BY <1>2
<1> QED BY <1>1, <1>2, <1>3, SelectInAll DEF Records

(* The index built from a file lists the slots of a resource once each. *)
LEMMA LoadedIndex ==
  ASSUME NEW k \in Nat, NEW T
  PROVE  LET q == SelectIn([n \in 1..k |-> n], T)
         IN  q \in Seq(Nat) /\ Once(q) /\ ToSet(q) = (1..k) \cap T
<1> DEFINE s == [n \in 1..k |-> n]
<1>1. /\ s \in Seq(Nat) /\ Len(s) = k /\ DOMAIN s = 1..k /\ \A i \in 1..k : s[i] = i
  OBVIOUS
<1> HIDE DEF s
<1>2. Once(s) /\ ToSet(s) = 1..k
  BY <1>1 DEF Once, ToSet
<1>3. /\ SelectIn(s, T) \in Seq(Nat \cap T) /\ Once(SelectIn(s, T))
      /\ ToSet(SelectIn(s, T)) = ToSet(s) \cap T
  BY <1>1, <1>2, SelectInElements, SelectInOnce
<1>4. SelectIn(s, T) \in Seq(Nat)
  BY <1>3
<1> QED BY <1>2, <1>3, <1>4 DEF s

-----------------------------------------------------------------------------
(* The steps.  What each leaves alone is taken from the invariant. *)

LEMMA StoreInitial == StoreInit => StoreInv
<1> SUFFICES ASSUME StoreInit PROVE StoreInv
  OBVIOUS
<1> USE DEF StoreInit
<1>1. StoreTypes
  BY DEF StoreTypes
<1>2. SlotsWhole /\ RecordsWhole /\ Active(subs) = {} /\ TmpAgrees
  BY DEF SlotsWhole, RecordsWhole, Active, TmpAgrees
<1>3. FreeAgrees /\ IndexAgrees
  BY <1>2, EmptyOnce DEF FreeAgrees, IndexAgrees, Found
<1>4. Records(<<>>) = <<>>
  <2>1. <<>> \in Seq(Slot) /\ \A n \in 1..Len(<<>>) : <<>>[n] \in {<<>>[k] : k \in Active(<<>>)}
    OBVIOUS
  <2> QED BY <2>1, SelectInAll DEF Records
<1> QED BY <1>1, <1>2, <1>3, <1>4 DEF StoreInv, FileAgrees

(* A subscription takes the slot on top of the free list, or a new one. *)
LEMMA StepSubscribe ==
  ASSUME StoreInv, NEW r \in Resources, Subscribe(r)
  PROVE  StoreInv'
<1> DEFINE new == [id |-> ids + 1, res |-> r]
           idx == IF free # <<>> THEN free[Len(free)] ELSE Len(subs) + 1
<1> USE DEF StoreInv, StoreTypes
<1>1. /\ ids' = ids + 1 /\ ids \in Nat /\ new \in Slot /\ new.id # 0
      /\ new.res = r /\ new.id = ids + 1 /\ file' = file
      /\ saving' = "write"
  BY DEF Subscribe, Slot
<1>2. index' = [index EXCEPT ![r] = Append(@, idx)]
  BY DEF Subscribe
<1>3. /\ subs' \in Seq(Slot) /\ idx \in Nat /\ idx \notin Active(subs)
      /\ \A n \in 1..Len(subs') : subs'[n] = IF n = idx THEN new ELSE subs[n]
      /\ 1..Len(subs') = (1..Len(subs)) \cup {idx}
      /\ free' \in Seq(Nat) /\ Once(free') /\ ToSet(free') = ToSet(free) \ {idx}
  <2>1. CASE free = <<>>
    <3>1. idx = Len(subs) + 1 /\ subs' = Append(subs, new) /\ free' = free
      BY <2>1 DEF Subscribe
    <3>2. idx \notin 1..Len(subs) /\ idx \in Nat /\ ToSet(free) = {}
      BY <3>1, <2>1, EmptyOnce
    <3> HIDE DEF idx, new
    <3>3. /\ subs' \in Seq(Slot) /\ 1..Len(subs') = (1..Len(subs)) \cup {idx}
          /\ \A n \in 1..Len(subs') : subs'[n] = IF n = idx THEN new ELSE subs[n]
      BY <3>1, <1>1
    <3> QED BY <3>1, <3>2, <3>3 DEF Active, FreeAgrees
  <2>2. CASE free # <<>>
    <3>1. /\ idx = free[Len(free)] /\ subs' = [subs EXCEPT ![idx] = new]
          /\ free' = SubSeq(free, 1, Len(free) - 1)
      BY <2>2 DEF Subscribe
    <3>2. idx \in ToSet(free)
      BY <3>1, <2>2 DEF ToSet
    <3>3. idx \in 1..Len(subs) /\ idx \notin Active(subs)
      BY <3>2 DEF FreeAgrees
    <3>4. free' \in Seq(Nat) /\ Once(free') /\ ToSet(free') = ToSet(free) \ {idx}
      BY <3>1, <2>2, FrontOnce DEF FreeAgrees
    <3> HIDE DEF idx, new
    <3>5. /\ subs' \in Seq(Slot) /\ Len(subs') = Len(subs)
          /\ \A n \in 1..Len(subs') : subs'[n] = IF n = idx THEN new ELSE subs[n]
      BY <3>1, <3>3, <1>1
    <3> QED BY <3>3, <3>4, <3>5
  <2> QED BY <2>1, <2>2
<1> HIDE DEF idx, new
<1>4. Active(subs') = Active(subs) \cup {idx}
  BY <1>1, <1>3 DEF Active
<1>5. FreeAgrees'
  BY <1>3, <1>4 DEF FreeAgrees
<1>6. /\ index' \in [Resources -> Seq(Nat)]
      /\ index'[r] = Append(index[r], idx)
      /\ \A x \in Resources : x # r => index'[x] = index[x]
  BY <1>2, <1>3
<1>7. IndexAgrees'
  <2> SUFFICES ASSUME NEW x \in Resources
               PROVE  Once(index'[x]) /\ ToSet(index'[x]) = Found(x)'
    BY DEF IndexAgrees
  <2>1. Once(index[x]) /\ ToSet(index[x]) = Found(x) /\ index[x] \in Seq(Nat)
    BY DEF IndexAgrees
  <2>2. Found(x)' = Found(x) \cup (IF x = r THEN {idx} ELSE {})
    BY <1>1, <1>3, <1>4 DEF Found, Active
  <2>3. idx \notin ToSet(index[x])
    BY <1>3, <2>1 DEF Found
  <2>4. CASE x = r
    <3>1. idx \in Nat /\ index'[x] = Append(index[x], idx)
      BY <1>3, <1>6, <2>4
    <3>2. Once(Append(index[x], idx))
      BY <2>1, <2>3, <3>1, AppendedOnce
    <3>3. ToSet(Append(index[x], idx)) = ToSet(index[x]) \cup {idx}
      BY <2>1, <3>1, AppendedSet
    <3> QED BY <2>1, <2>2, <2>4, <3>1, <3>2, <3>3
  <2>5. CASE x # r
    BY <1>6, <2>1, <2>2, <2>5
  <2> QED BY <2>4, <2>5
<1>8. SlotsWhole' /\ RecordsWhole'
  <2>1. 1..ids \subseteq 1..ids' /\ new.id \in 1..ids'
    BY <1>1
  <2>2. RecordsWhole'
    BY <1>1, <2>1 DEF RecordsWhole, Whole
  <2>3. ASSUME NEW n \in 1..Len(subs'), subs'[n].id # 0
        PROVE  subs'[n].id \in 1..ids' /\ subs'[n].res \in Resources
    <3>1. CASE n = idx
      BY <1>1, <1>3, <2>1, <3>1
    <3>2. CASE n # idx
      BY <1>3, <2>1, <2>3, <3>2 DEF SlotsWhole, Whole
    <3> QED BY <3>1, <3>2
  <2> QED BY <2>2, <2>3 DEF SlotsWhole, Whole
<1>9. StoreTypes'
  BY <1>1, <1>3, <1>6
<1> QED BY <1>1, <1>5, <1>7, <1>8, <1>9 DEF TmpAgrees, FileAgrees

(* The slot goes back to the free list and out of the index. *)
LEMMA StepUnsubscribe ==
  ASSUME StoreInv, NEW idx \in Active(subs), Unsubscribe(idx)
  PROVE  StoreInv'
<1> USE DEF StoreInv, StoreTypes
<1>1. /\ ids' = ids /\ file' = file /\ saving' = "write" /\ free' = Append(free, idx)
      /\ subs' = [subs EXCEPT ![idx] = Inactive]
      /\ index' = [index EXCEPT ![subs[idx].res] = SwapRemove(@, idx)]
  BY DEF Unsubscribe
<1>2. /\ idx \in 1..Len(subs) /\ idx \in Nat /\ subs[idx].res \in Resources
  BY DEF Active, SlotsWhole, Whole
<1>3. Inactive \in Slot /\ Inactive.id = 0
  BY DEF Inactive, Slot
<1>4. /\ subs' \in Seq(Slot) /\ Len(subs') = Len(subs)
      /\ \A n \in 1..Len(subs) : subs'[n] = IF n = idx THEN Inactive ELSE subs[n]
  BY <1>1, <1>2, <1>3
<1>5. Active(subs') = Active(subs) \ {idx}
  BY <1>3, <1>4 DEF Active
<1>6. FreeAgrees' /\ free' \in Seq(Nat)
  <2>1. idx \notin ToSet(free)
    BY DEF FreeAgrees
  <2>2. Once(free') /\ ToSet(free') = ToSet(free) \cup {idx} /\ free' \in Seq(Nat)
    BY <1>1, <1>2, <2>1, AppendedOnce, AppendedSet DEF FreeAgrees
  <2> QED BY <1>2, <1>4, <1>5, <2>2 DEF FreeAgrees
<1> DEFINE r == subs[idx].res
<1>7. idx \in ToSet(index[r]) /\ Once(index[r]) /\ index[r] \in Seq(Nat)
  BY <1>2 DEF IndexAgrees, Found
<1>8. /\ SwapRemove(index[r], idx) \in Seq(Nat) /\ Once(SwapRemove(index[r], idx))
      /\ ToSet(SwapRemove(index[r], idx)) = ToSet(index[r]) \ {idx}
  BY <1>7, SwapRemoved
<1>9. /\ index' \in [Resources -> Seq(Nat)]
      /\ index'[r] = SwapRemove(index[r], idx)
      /\ \A x \in Resources : x # r => index'[x] = index[x]
  BY <1>1, <1>2, <1>8
<1>10. IndexAgrees'
  <2> SUFFICES ASSUME NEW x \in Resources
               PROVE  Once(index'[x]) /\ ToSet(index'[x]) = Found(x)'
    BY DEF IndexAgrees
  <2>1. Once(index[x]) /\ ToSet(index[x]) = Found(x)
    BY DEF IndexAgrees
  <2>2. Found(x)' = Found(x) \ {idx}
    BY <1>4, <1>5 DEF Found, Active
  <2>3. x # r => idx \notin Found(x)
    BY DEF Found
  <2> HIDE DEF r
  <2>4. CASE x = r
    BY <1>8, <1>9, <2>1, <2>2, <2>4
  <2>5. CASE x # r
    BY <1>9, <2>1, <2>2, <2>3, <2>5
  <2> QED BY <2>4, <2>5
<1>11. SlotsWhole' /\ RecordsWhole'
  BY <1>1, <1>3, <1>4 DEF SlotsWhole, RecordsWhole, Whole
<1>12. StoreTypes'
  BY <1>1, <1>4, <1>6, <1>9
<1> QED BY <1>1, <1>6, <1>10, <1>11, <1>12 DEF TmpAgrees, FileAgrees

LEMMA StepUnsubscribeAll ==
  ASSUME StoreInv, UnsubscribeAll
  PROVE  StoreInv'
<1> USE DEF StoreInv, UnsubscribeAll
<1>1. StoreTypes' /\ SlotsWhole' /\ RecordsWhole' /\ Active(subs') = {}
  BY DEF StoreTypes, SlotsWhole, RecordsWhole, Whole, Active
<1>2. FreeAgrees' /\ IndexAgrees'
  BY <1>1, EmptyOnce DEF FreeAgrees, IndexAgrees, Found
<1> QED BY <1>1, <1>2 DEF TmpAgrees, FileAgrees

(* A save changes the files only; the rename puts whole records in place. *)
LEMMA StepSave ==
  ASSUME StoreInv, (\E ok \in BOOLEAN : SaveTmp(ok)) \/ SaveRename
  PROVE  StoreInv'
<1> USE DEF StoreInv
<1>1. UNCHANGED <<subs, free, index, ids>>
  BY DEF SaveTmp, SaveRename
<1>2. SlotsWhole' /\ FreeAgrees' /\ IndexAgrees'
  BY <1>1 DEF SlotsWhole, Whole, FreeAgrees, IndexAgrees, Found
<1>3. CASE \E ok \in BOOLEAN : SaveTmp(ok)
  <2>1. /\ file' = file /\ saved' = FALSE
        /\ saving' = "rename" => tmp' = Records(subs)
    BY <1>3 DEF SaveTmp
  <2>2. StoreTypes' /\ RecordsWhole'
    BY <1>1, <2>1 DEF StoreTypes, RecordsWhole, Whole
  <2>3. TmpAgrees' /\ FileAgrees'
    BY <1>1, <2>1 DEF TmpAgrees, FileAgrees
  <2> QED BY <1>2, <2>2, <2>3
<1>4. CASE SaveRename
  <2>1. file' = Records(subs) /\ saving' = "idle"
    BY <1>4 DEF SaveRename, TmpAgrees
  <2>2. StoreTypes' /\ RecordsWhole'
    BY <1>1, <2>1, SavedRecords DEF StoreTypes, RecordsWhole, Whole
  <2>3. TmpAgrees' /\ FileAgrees'
    BY <1>1, <2>1 DEF TmpAgrees, FileAgrees
  <2> QED BY <1>2, <2>2, <2>3
<1> QED BY <1>3, <1>4

(* A restart takes everything from the file. *)
LEMMA StepCrash ==
  ASSUME StoreInv, CrashRestart
  PROVE  StoreInv'
<1> USE DEF StoreInv
<1>1. /\ subs' = file /\ free' = <<>> /\ file' = file /\ ids' = ids /\ saving' = "idle"
      /\ index' = [r \in Resources |->
            SelectIn([n \in 1..Len(file) |-> n], {n \in 1..Len(file) : file[n].res = r})]
  BY DEF CrashRestart, Load
<1>2. Active(file) = 1..Len(file) /\ Records(file) = file /\ Len(file) \in Nat
  BY LoadedRecords DEF StoreTypes
<1>3. \A r \in Resources :
        /\ index'[r] \in Seq(Nat) /\ Once(index'[r])
        /\ ToSet(index'[r]) = {n \in 1..Len(file) : file[n].res = r}
  <2> TAKE r \in Resources
  <2> DEFINE T == {n \in 1..Len(file) : file[n].res = r}
  <2>1. index'[r] = SelectIn([n \in 1..Len(file) |-> n], T) /\ (1..Len(file)) \cap T = T
    BY <1>1
  <2> HIDE DEF T
  <2>2. index'[r] \in Seq(Nat) /\ Once(index'[r]) /\ ToSet(index'[r]) = T
    BY <1>2, <2>1, LoadedIndex
  <2> QED BY <2>2 DEF T
<1>4. IndexAgrees'
  BY <1>1, <1>2, <1>3 DEF IndexAgrees, Found
<1>5. FreeAgrees'
  BY <1>1, <1>2, EmptyOnce DEF FreeAgrees
<1>6. SlotsWhole' /\ RecordsWhole'
  BY <1>1 DEF SlotsWhole, RecordsWhole, Whole
<1>7. index' \in [Resources -> Seq(Nat)]
  <2>1. DOMAIN index' = Resources /\ index' = [r \in Resources |-> index'[r]]
    BY <1>1
  <2>2. \A r \in Resources : index'[r] \in Seq(Nat)
    BY <1>3
  <2> QED BY <2>1, <2>2
<1>8. ids' \in Nat /\ subs' \in Seq(Slot) /\ file' \in Seq(Slot) /\ free' \in Seq(Nat)
  BY <1>1 DEF StoreTypes
<1>9. StoreTypes'
  BY <1>7, <1>8 DEF StoreTypes
<1> QED BY <1>1, <1>2, <1>4, <1>5, <1>6, <1>9 DEF TmpAgrees, FileAgrees

LEMMA StepElse ==
  ASSUME StoreInv, UNCHANGED <<subs, free, index, file, tmp, saving, ids, saved>>
  PROVE  StoreInv'
BY DEF StoreInv, StoreTypes, SlotsWhole, RecordsWhole, Whole, FreeAgrees, IndexAgrees, Found,
       TmpAgrees, FileAgrees

LEMMA StoreStep == StoreInv /\ [StoreNext]_storeVars => StoreInv'
<1> SUFFICES ASSUME StoreInv, [StoreNext]_storeVars PROVE StoreInv'
  OBVIOUS
<1>1. ASSUME NEW r \in Resources, Subscribe(r) PROVE StoreInv'
  BY <1>1, StepSubscribe
<1>2. ASSUME NEW n \in Active(subs), Unsubscribe(n) PROVE StoreInv'
  BY <1>2, StepUnsubscribe
<1>3. CASE UnsubscribeAll
  BY <1>3, StepUnsubscribeAll
<1>4. CASE (\E ok \in BOOLEAN : SaveTmp(ok)) \/ SaveRename
  BY <1>4, StepSave
<1>5. CASE CrashRestart
  BY <1>5, StepCrash
<1>6. ASSUME NEW r \in Resources, Publish(r) PROVE StoreInv'
  BY <1>6, StepElse DEF Publish
<1>7. ASSUME NEW id \in told, Delivered(id) PROVE StoreInv'
  BY <1>7, StepElse DEF Delivered
<1>8. CASE UNCHANGED storeVars
  BY <1>8, StepElse DEF storeVars
<1> QED BY <1>1, <1>2, <1>3, <1>4, <1>5, <1>6, <1>7, <1>8 DEF StoreNext

LEMMA StoreImplies == StoreInv => SubscriptionsKept
<1> SUFFICES ASSUME StoreInv PROVE SubscriptionsKept
  OBVIOUS
<1> USE DEF StoreInv
<1>1. DOMAIN free = 1..Len(free) /\ \A r \in Resources : DOMAIN index[r] = 1..Len(index[r])
  BY DEF StoreTypes
<1>2. SlotsAgree
  BY <1>1 DEF SlotsAgree, FreeAgrees, IndexAgrees, Found, Once, ToSet
<1>3. FileWhole
  BY DEF FileWhole, RecordsWhole, Whole, FileAgrees
<1> QED BY <1>2, <1>3 DEF SubscriptionsKept

(* No order of calls, saves that fail and crashes at any point leaves a    *)
(* slot both free and in use, a subscription out of the index or in it     *)
(* twice, or a file that is not the whole of one state of the store        *)
(* (Subscribe, Unsubscribe, save, LoadFromDisk).                           *)
THEOREM StoreKeepsSubscriptions == StoreSpec => []SubscriptionsKept
<1>1. StoreSpec => []StoreInv
  BY StoreInitial, StoreStep, PTL DEF StoreSpec
<1> QED BY <1>1, StoreImplies, PTL

-----------------------------------------------------------------------------
(* The controllers of the operator.  Every DaemonSet that is anywhere - on *)
(* the API server, in a reconcile, about to be applied - mounts what it    *)
(* has volumes of, which are those of the manifest and of secrets.  A      *)
(* reconciler whose copy is current has read the one that is there.        *)
DaemonSets ==
  {d \in [spec : Nat, vols : SUBSET (BaseVolumes \cup Secrets), mounts : SUBSET (BaseVolumes \cup Secrets)] :
     d.mounts = d.vols}
OperatorTypes ==
  /\ spec \in Nat /\ secrets \in SUBSET Secrets /\ ds \in SUBSET DaemonSets
  /\ \A d, e \in ds : d = e
  /\ pc = [at |-> pc.at, list |-> pc.list, ds |-> pc.ds, cur |-> pc.cur]
  /\ pc.ds \in DaemonSets /\ pc.cur \in DaemonSets
  /\ oc = [at |-> oc.at, spec |-> oc.spec, cur |-> oc.cur]
  /\ oc.spec \in Nat /\ oc.cur \in DaemonSets
FreshIsCurrent ==
  /\ "pc" \in fresh /\ pc.at = "update" => ds = {pc.cur}
  /\ "oc" \in fresh /\ oc.at = "update" => ds = {oc.cur}
OperatorInv == OperatorTypes /\ FreshIsCurrent

LEMMA DaemonSetRecord ==
  ASSUME NEW d \in DaemonSets, NEW V, NEW M
  PROVE  [d EXCEPT !.vols = V, !.mounts = M] = [spec |-> d.spec, vols |-> V, mounts |-> M]
<1>1. d \in [spec : Nat, vols : SUBSET (BaseVolumes \cup Secrets), mounts : SUBSET (BaseVolumes \cup Secrets)]
  BY DEF DaemonSets
<1>2. d = [spec |-> d.spec, vols |-> d.vols, mounts |-> d.mounts]
  BY <1>1
<1>3. PICK x : x = [d EXCEPT !.vols = V]
  OBVIOUS
<1>4. x = [spec |-> d.spec, vols |-> V, mounts |-> d.mounts]
  BY <1>2, <1>3
<1>5. [x EXCEPT !.mounts = M] = [spec |-> d.spec, vols |-> V, mounts |-> M]
  BY <1>4
<1> QED BY <1>3, <1>5

LEMMA RenderedTyped ==
  /\ \A n \in Nat : Rendered(n) \in DaemonSets
  /\ PcIdle.at = "idle" /\ PcIdle.ds \in DaemonSets /\ PcIdle.cur \in DaemonSets
  /\ OcIdle.at = "idle" /\ OcIdle.spec \in Nat /\ OcIdle.cur \in DaemonSets
<1>1. \A n \in Nat : Rendered(n) \in DaemonSets
  BY DEF Rendered, DaemonSets
<1> QED BY <1>1 DEF PcIdle, OcIdle, NoDs

(* What each reconciler writes: PtpConfig's its own object, and that of    *)
(* PtpOperatorConfig no less than the object it replaces.                  *)
LEMMA MergedTyped ==
  ASSUME NEW c \in DaemonSets, NEW u \in DaemonSets, NEW self
  PROVE  MergeDaemonSetForUpdate(c, u, self) \in DaemonSets
<1> DEFINE vols == mergeSecurityVolumes(c, u, self = "oc")
           mounts == mergeSecurityVolumeMounts(c, u, self = "oc")
<1>1. vols \in SUBSET (BaseVolumes \cup Secrets) /\ mounts = vols
  BY DEF mergeSecurityVolumes, mergeSecurityVolumeMounts, filterNonSecurity, extractSecurity,
         isSecurityItem, DaemonSets
<1>2. MergeDaemonSetForUpdate(c, u, self) = [spec |-> u.spec, vols |-> vols, mounts |-> mounts]
  <2>1. MergeDaemonSetForUpdate(c, u, self) = [u EXCEPT !.vols = vols, !.mounts = mounts]
    BY DEF MergeDaemonSetForUpdate
  <2> HIDE DEF vols, mounts
  <2> QED BY <2>1, DaemonSetRecord
<1>3. u.spec \in Nat
  BY DEF DaemonSets
<1> QED BY <1>1, <1>2, <1>3 DEF DaemonSets

LEMMA OwnSecrets ==
  ASSUME NEW c \in DaemonSets, NEW u \in DaemonSets
  PROVE  LET m == MergeDaemonSetForUpdate(c, u, "pc") IN m.vols = u.vols /\ m.mounts = u.vols
BY DEF MergeDaemonSetForUpdate, mergeSecurityVolumes, mergeSecurityVolumeMounts, filterNonSecurity,
       extractSecurity, isSecurityItem, DaemonSets

LEMMA KeptSecrets ==
  ASSUME NEW c \in DaemonSets, NEW n \in Nat
  PROVE  LET m == MergeDaemonSetForUpdate(c, Rendered(n), "oc")
         IN c.vols \subseteq m.vols /\ c.mounts \subseteq m.mounts
<1>1. c.vols \subseteq BaseVolumes \cup Secrets /\ c.mounts = c.vols
  BY DEF DaemonSets
<1> QED BY <1>1 DEF MergeDaemonSetForUpdate, mergeSecurityVolumes, mergeSecurityVolumeMounts,
          filterNonSecurity, extractSecurity, isSecurityItem, Rendered

LEMMA InjectedTyped ==
  ASSUME NEW d \in DaemonSets, NEW found \in SUBSET Secrets
  PROVE  injectPtpSecurityVolume(removeSecurityVolumesFromDaemonSet(d), found) \in DaemonSets
<1> DEFINE r == removeSecurityVolumesFromDaemonSet(d)
           base == filterNonSecurity(d.vols)
<1>1. d.spec \in Nat /\ d.mounts = d.vols /\ d.vols \subseteq BaseVolumes \cup Secrets
  BY DEF DaemonSets
<1>2. base \subseteq BaseVolumes \cup Secrets
  BY <1>1 DEF filterNonSecurity
<1>3. r = [spec |-> d.spec, vols |-> base, mounts |-> base]
  <2>1. r = [d EXCEPT !.vols = filterNonSecurity(d.vols), !.mounts = filterNonSecurity(d.mounts)]
    BY DEF removeSecurityVolumesFromDaemonSet, DaemonSets
  <2> QED BY <2>1, <1>1, DaemonSetRecord
<1> HIDE DEF base
<1>4. r \in DaemonSets /\ r.vols = base /\ r.mounts = base /\ r.spec = d.spec
  BY <1>1, <1>2, <1>3 DEF DaemonSets
<1>5. injectPtpSecurityVolume(r, found)
        = [r EXCEPT !.vols = r.vols \cup found, !.mounts = r.mounts \cup found]
  BY <1>3 DEF injectPtpSecurityVolume
<1>6. injectPtpSecurityVolume(r, found)
        = [spec |-> d.spec, vols |-> base \cup found, mounts |-> base \cup found]
  BY <1>4, <1>5, DaemonSetRecord
<1> QED BY <1>1, <1>2, <1>6 DEF DaemonSets

LEMMA OperatorInitial == OperatorInit => OperatorInv
<1> SUFFICES ASSUME OperatorInit PROVE OperatorInv
  OBVIOUS
<1>1. /\ pc = PcIdle /\ oc = OcIdle /\ ds = {} /\ fresh = {} /\ spec = 1
      /\ secrets \in SUBSET Secrets
  BY DEF OperatorInit
<1>2. pc = [at |-> pc.at, list |-> pc.list, ds |-> pc.ds, cur |-> pc.cur]
  BY <1>1 DEF PcIdle
<1>3. oc = [at |-> oc.at, spec |-> oc.spec, cur |-> oc.cur]
  BY <1>1 DEF OcIdle
<1> QED BY <1>1, <1>2, <1>3, RenderedTyped DEF OperatorInv, OperatorTypes, FreshIsCurrent

(* A write leaves one object, of which nobody has a current copy.          *)
WriteLeaves(m) ==
  /\ ds' \in SUBSET DaemonSets /\ \A d, e \in ds' : d = e
  /\ (ds' = ds /\ fresh' = fresh) \/ fresh' = {}
  /\ ds' = ds \/ ds' = {m}
LEMMA AfterWrite ==
  ASSUME OperatorInv, NEW self, NEW c \in DaemonSets, NEW u \in DaemonSets, Write(self, c, u)
  PROVE  WriteLeaves(MergeDaemonSetForUpdate(c, u, self))
<1>1. PICK merged : merged = MergeDaemonSetForUpdate(c, u, self)
  OBVIOUS
<1>2. merged \in DaemonSets
  BY <1>1, MergedTyped
<1>3. (ds' = ds /\ fresh' = fresh) \/ (ds' = {merged} /\ fresh' = {})
  BY <1>1 DEF Write
<1>4. ds \in SUBSET DaemonSets /\ \A d, e \in ds : d = e
  BY DEF OperatorInv, OperatorTypes
<1>5. ds' \in SUBSET DaemonSets /\ \A d, e \in ds' : d = e
  BY <1>2, <1>3, <1>4
<1>6. ds' = ds \/ ds' = {merged}
  BY <1>3
<1>7. WriteLeaves(merged)
  BY <1>3, <1>5, <1>6 DEF WriteLeaves
<1> QED BY <1>1, <1>7
(* A step that leaves the DaemonSet and the copies alone. *)
LEMMA NoWrite ==
  ASSUME OperatorInv, ds' = ds, fresh' = fresh, spec' \in Nat, secrets' \in SUBSET Secrets,
         pc' = pc \/ \E l : pc' = [PcIdle EXCEPT !.at = "status", !.list = l]
           \/ pc' = PcIdle \/ pc' = [pc EXCEPT !.at = "map"] \/ pc' = [pc EXCEPT !.at = "secrets"]
           \/ \E d \in DaemonSets : pc' = [pc EXCEPT !.at = "get", !.ds = d],
         oc' = oc \/ oc' = [OcIdle EXCEPT !.at = "policies", !.spec = spec]
           \/ oc' = OcIdle \/ oc' = [oc EXCEPT !.at = "get"]
  PROVE  OperatorInv'
<1>1. ds' \in SUBSET DaemonSets /\ (\A d, e \in ds' : d = e) /\ spec' \in Nat /\ secrets' \in SUBSET Secrets
  BY DEF OperatorInv, OperatorTypes
<1>2. /\ pc' = [at |-> pc.at, list |-> pc.list, ds |-> pc.ds, cur |-> pc.cur]'
      /\ pc'.ds \in DaemonSets /\ pc'.cur \in DaemonSets
      /\ pc' = pc \/ pc'.at # "update"
  <2>1. CASE pc' = pc
    BY <2>1 DEF OperatorInv, OperatorTypes
  <2>2. CASE \E l : pc' = [PcIdle EXCEPT !.at = "status", !.list = l]
    <3>1. PICK l : pc' = [PcIdle EXCEPT !.at = "status", !.list = l]
      BY <2>2
    <3>2. pc' = [at |-> "status", list |-> l, ds |-> NoDs, cur |-> NoDs]
      BY <3>1 DEF PcIdle
    <3> QED BY <3>2, RenderedTyped DEF PcIdle
  <2>3. CASE pc' = PcIdle
    BY <2>3, RenderedTyped DEF PcIdle
  <2>4. CASE pc' = [pc EXCEPT !.at = "map"] \/ pc' = [pc EXCEPT !.at = "secrets"]
    BY <2>4 DEF OperatorInv, OperatorTypes
  <2>5. CASE \E d \in DaemonSets : pc' = [pc EXCEPT !.at = "get", !.ds = d]
    <3>1. PICK d \in DaemonSets : pc' = [pc EXCEPT !.at = "get", !.ds = d]
      BY <2>5
    <3>2. pc' = [at |-> "get", list |-> pc.list, ds |-> d, cur |-> pc.cur]
      BY <3>1 DEF OperatorInv, OperatorTypes
    <3> QED BY <3>2 DEF OperatorInv, OperatorTypes
  <2> QED BY <2>1, <2>2, <2>3, <2>4, <2>5
<1>3. /\ oc' = [at |-> oc.at, spec |-> oc.spec, cur |-> oc.cur]'
      /\ oc'.spec \in Nat /\ oc'.cur \in DaemonSets
      /\ oc' = oc \/ oc'.at # "update"
  <2>1. CASE oc' = oc
    BY <2>1 DEF OperatorInv, OperatorTypes
  <2>2. CASE oc' = [OcIdle EXCEPT !.at = "policies", !.spec = spec]
    <3>1. oc' = [at |-> "policies", spec |-> spec, cur |-> NoDs]
      BY <2>2 DEF OcIdle
    <3> QED BY <3>1, RenderedTyped DEF OperatorInv, OperatorTypes, OcIdle
  <2>3. CASE oc' = OcIdle
    BY <2>3, RenderedTyped DEF OcIdle
  <2>4. CASE oc' = [oc EXCEPT !.at = "get"]
    BY <2>4 DEF OperatorInv, OperatorTypes
  <2> QED BY <2>1, <2>2, <2>3, <2>4
<1>4. FreshIsCurrent'
  BY <1>2, <1>3 DEF OperatorInv, FreshIsCurrent
<1> QED BY <1>1, <1>2, <1>3, <1>4 DEF OperatorInv, OperatorTypes

(* A write ends the reconcile; nobody's copy is current after it. *)
LEMMA PcUpdateKeeps == OperatorInv /\ PcUpdate => OperatorInv'
<1> SUFFICES ASSUME OperatorInv, PcUpdate PROVE OperatorInv'
  OBVIOUS
<1>1. spec' = spec /\ secrets' = secrets /\ oc' = oc /\ pc' = PcIdle
  BY DEF PcUpdate, PcError
<1>2. CASE "pc" \in fresh
  <2>1. Write("pc", pc.cur, pc.ds) /\ pc.cur \in DaemonSets /\ pc.ds \in DaemonSets
    BY <1>2 DEF PcUpdate, OperatorInv, OperatorTypes
  <2>2. WriteLeaves(MergeDaemonSetForUpdate(pc.cur, pc.ds, "pc"))
    BY <2>1, AfterWrite
  <2>3. PICK m : WriteLeaves(m)
    BY <2>2
  <2>4. OperatorTypes'
    BY <1>1, <2>3, RenderedTyped DEF WriteLeaves, OperatorInv, OperatorTypes, PcIdle
  <2>5. FreshIsCurrent'
    BY <1>1, <2>3, RenderedTyped DEF WriteLeaves, OperatorInv, FreshIsCurrent
  <2> QED BY <2>4, <2>5 DEF OperatorInv
<1>3. CASE "pc" \notin fresh
  <2>1. ds' = ds /\ fresh' = fresh /\ spec' \in Nat /\ secrets' \in SUBSET Secrets
    BY <1>1, <1>3 DEF PcUpdate, OperatorInv, OperatorTypes
  <2> QED BY <1>1, <2>1, NoWrite
<1> QED BY <1>2, <1>3

LEMMA OcUpdateKeeps == OperatorInv /\ OcUpdate => OperatorInv'
<1> SUFFICES ASSUME OperatorInv, OcUpdate PROVE OperatorInv'
  OBVIOUS
<1>1. spec' = spec /\ secrets' = secrets /\ pc' = pc /\ oc' = OcIdle
  BY DEF OcUpdate, OcError
<1>2. CASE "oc" \in fresh
  <2>1. Write("oc", oc.cur, Rendered(oc.spec)) /\ oc.cur \in DaemonSets /\ Rendered(oc.spec) \in DaemonSets
    BY <1>2, RenderedTyped DEF OcUpdate, OperatorInv, OperatorTypes
  <2>2. WriteLeaves(MergeDaemonSetForUpdate(oc.cur, Rendered(oc.spec), "oc"))
    BY <2>1, AfterWrite
  <2>3. PICK m : WriteLeaves(m)
    BY <2>2
  <2>4. OperatorTypes'
    BY <1>1, <2>3, RenderedTyped DEF WriteLeaves, OperatorInv, OperatorTypes, OcIdle
  <2>5. FreshIsCurrent'
    BY <1>1, <2>3, RenderedTyped DEF WriteLeaves, OperatorInv, FreshIsCurrent
  <2> QED BY <2>4, <2>5 DEF OperatorInv
<1>3. CASE "oc" \notin fresh
  <2>1. ds' = ds /\ fresh' = fresh /\ spec' \in Nat /\ secrets' \in SUBSET Secrets
    BY <1>1, <1>3 DEF OcUpdate, OperatorInv, OperatorTypes
  <2> QED BY <1>1, <2>1, NoWrite
<1> QED BY <1>2, <1>3

(* Reading the DaemonSet makes the reader's copy current. *)
LEMMA PcGetKeeps == OperatorInv /\ PcGet => OperatorInv'
<1> SUFFICES ASSUME OperatorInv, PcGet PROVE OperatorInv'
  OBVIOUS
<1>1. PICK d \in ds : pc' = [pc EXCEPT !.at = "update", !.cur = d]
  BY DEF PcGet
<1>2. UNCHANGED <<spec, secrets, ds, oc>> /\ fresh' = fresh \cup {"pc"}
  BY DEF PcGet, api
<1>3. d \in DaemonSets /\ ds = {d}
  BY DEF OperatorInv, OperatorTypes
<1>4. pc' = [at |-> "update", list |-> pc.list, ds |-> pc.ds, cur |-> d]
  BY <1>1 DEF OperatorInv, OperatorTypes
<1>5. OperatorTypes'
  BY <1>2, <1>3, <1>4 DEF OperatorInv, OperatorTypes
<1>6. FreshIsCurrent'
  BY <1>2, <1>3, <1>4 DEF OperatorInv, FreshIsCurrent
<1> QED BY <1>5, <1>6 DEF OperatorInv

LEMMA OcGetKeeps == OperatorInv /\ OcGet => OperatorInv'
<1> SUFFICES ASSUME OperatorInv, OcGet PROVE OperatorInv'
  OBVIOUS
<1>1. CASE ds = {}
  <2>1. /\ ds' = {Rendered(oc.spec)} /\ oc' = OcIdle /\ UNCHANGED <<fresh, spec, secrets, pc>>
        /\ Rendered(oc.spec) \in DaemonSets
    BY <1>1, RenderedTyped DEF OcGet, OperatorInv, OperatorTypes
  <2>2. ~("pc" \in fresh /\ pc.at = "update")
    BY <1>1 DEF OperatorInv, FreshIsCurrent
  <2>3. OperatorTypes'
    BY <2>1, RenderedTyped DEF OperatorInv, OperatorTypes, OcIdle
  <2>4. FreshIsCurrent'
    BY <2>1, <2>2, RenderedTyped DEF FreshIsCurrent
  <2> QED BY <2>3, <2>4 DEF OperatorInv
<1>2. CASE ds # {}
  <2>1. PICK d \in ds : oc' = [oc EXCEPT !.at = "update", !.cur = d]
    BY <1>2 DEF OcGet
  <2>2. UNCHANGED <<spec, secrets, ds, pc>> /\ fresh' = fresh \cup {"oc"}
    BY <1>2 DEF OcGet
  <2>3. d \in DaemonSets /\ ds = {d}
    BY DEF OperatorInv, OperatorTypes
  <2>4. oc' = [at |-> "update", spec |-> oc.spec, cur |-> d]
    BY <2>1 DEF OperatorInv, OperatorTypes
  <2>5. OperatorTypes'
    BY <2>2, <2>3, <2>4 DEF OperatorInv, OperatorTypes
  <2>6. FreshIsCurrent'
    BY <2>2, <2>3, <2>4 DEF OperatorInv, FreshIsCurrent
  <2> QED BY <2>5, <2>6 DEF OperatorInv
<1> QED BY <1>1, <1>2
LEMMA OthersKeep ==
  ASSUME OperatorInv,
         Users \/ PcList \/ PcStatus \/ PcMap \/ PcSecrets \/ PcFails \/ OcStart
           \/ (\E p \in Allows \cup {Deny, Ntp} : OcPolicy(p)) \/ OcStalePolicies \/ OcFails \/ HcStep
           \/ UNCHANGED operatorVars
  PROVE  ds' = ds /\ OperatorInv'
<1>0. spec \in Nat /\ secrets \in SUBSET Secrets /\ ds \in SUBSET DaemonSets
  BY DEF OperatorInv, OperatorTypes
<1>1. CASE Users
  <2>1. UNCHANGED <<ds, fresh, pc, oc>> /\ (spec' = spec \/ spec' = spec + 1) /\ secrets' \in SUBSET Secrets
    BY <1>1, <1>0 DEF Users, Edit, EditConfigs, EditSecret, EditOperatorConfig, EditHardwareConfig
  <2> QED BY <2>1, <1>0, NoWrite
<1>2. CASE PcList
  <2>1. UNCHANGED <<ds, fresh, spec, secrets, oc>> /\ \E l : pc' = [PcIdle EXCEPT !.at = "status", !.list = l]
    BY <1>2 DEF PcList, api
  <2> QED BY <2>1, <1>0, NoWrite
<1>3. CASE PcStatus
  <2>1. UNCHANGED <<ds, fresh, spec, secrets, oc>> /\ pc' = [pc EXCEPT !.at = "map"]
    BY <1>3 DEF PcStatus
  <2> QED BY <2>1, <1>0, NoWrite
<1>4. CASE PcMap
  <2>1. UNCHANGED <<ds, fresh, spec, secrets, oc>> /\ (pc' = PcIdle \/ pc' = [pc EXCEPT !.at = "secrets"])
    BY <1>4 DEF PcMap, PcError
  <2> QED BY <2>1, <1>0, NoWrite
<1>5. CASE PcSecrets
  <2>1. UNCHANGED <<ds, fresh, spec, secrets, oc>>
    BY <1>5 DEF PcSecrets, api
  <2>2. pc' = PcIdle \/ \E d \in DaemonSets : pc' = [pc EXCEPT !.at = "get", !.ds = d]
    <3>1. CASE ds = {}
      BY <3>1, <1>5 DEF PcSecrets, PcError
    <3>2. CASE ds # {}
      <4>1. PICK d \in ds : \E found \in {References(ToSet(pc.list)) \cap secrets} :
              pc' = [pc EXCEPT !.at = "get", !.ds =
                injectPtpSecurityVolume(removeSecurityVolumesFromDaemonSet(d), found)]
        BY <3>2, <1>5 DEF PcSecrets
      <4>2. PICK found \in {References(ToSet(pc.list)) \cap secrets} :
              pc' = [pc EXCEPT !.at = "get", !.ds =
                injectPtpSecurityVolume(removeSecurityVolumesFromDaemonSet(d), found)]
        BY <4>1
      <4>3. d \in DaemonSets /\ found \in SUBSET Secrets
        BY <1>0 DEF OperatorInv
      <4> QED BY <4>2, <4>3, InjectedTyped
    <3> QED BY <3>1, <3>2
  <2> QED BY <2>1, <2>2, <1>0, NoWrite
<1>6. CASE PcFails
  <2>1. UNCHANGED <<ds, fresh, spec, secrets, oc>> /\ pc' = PcIdle
    BY <1>6 DEF PcFails, PcError, api
  <2> QED BY <2>1, <1>0, NoWrite
<1>7. CASE OcStart
  <2>1. UNCHANGED <<ds, fresh, spec, secrets, pc>> /\ oc' = [OcIdle EXCEPT !.at = "policies", !.spec = spec]
    BY <1>7 DEF OcStart
  <2> QED BY <2>1, <1>0, NoWrite
<1>8. CASE \E p \in Allows \cup {Deny, Ntp} : OcPolicy(p)
  <2>1. UNCHANGED <<ds, fresh, spec, secrets, pc, oc>>
    BY <1>8 DEF OcPolicy
  <2> QED BY <2>1, <1>0, NoWrite
<1>9. CASE OcStalePolicies
  <2>1. UNCHANGED <<ds, fresh, spec, secrets, pc>> /\ oc' = [oc EXCEPT !.at = "get"]
    BY <1>9 DEF OcStalePolicies
  <2> QED BY <2>1, <1>0, NoWrite
<1>10. CASE OcFails
  <2>1. UNCHANGED <<ds, fresh, spec, secrets, pc>> /\ oc' = OcIdle
    BY <1>10 DEF OcFails, OcError, api
  <2> QED BY <2>1, <1>0, NoWrite
<1>11. CASE HcStep
  <2>1. UNCHANGED <<ds, fresh, spec, secrets, pc, oc>>
    BY <1>11 DEF HcStep, HcGet, HcStatus, api
  <2> QED BY <2>1, <1>0, NoWrite
<1>12. CASE UNCHANGED operatorVars
  <2>1. UNCHANGED <<ds, fresh, spec, secrets, pc, oc>>
    BY <1>12 DEF operatorVars
  <2> QED BY <2>1, <1>0, NoWrite
<1> QED BY <1>1, <1>2, <1>3, <1>4, <1>5, <1>6, <1>7, <1>8, <1>9, <1>10, <1>11, <1>12

LEMMA OperatorStep == OperatorInv /\ [OperatorNext]_operatorVars => OperatorInv'
BY OthersKeep, PcUpdateKeeps, OcUpdateKeeps, PcGetKeeps, OcGetKeeps
   DEF OperatorNext, PcStep, OcStep

(* Only PtpConfig's reconciler takes a volume or a mount away: the ones of *)
(* secrets that it did not find, or that nothing refers to.                *)
TakesOnlyMissing ==
  \A d \in ds, e \in ds' :
    \A s \in (d.vols \ e.vols) \cup (d.mounts \ e.mounts) : pc # pc' /\ s \notin pc.ds.vols

LEMMA OnlyMissingTaken == OperatorInv /\ [OperatorNext]_operatorVars => TakesOnlyMissing
<1> SUFFICES ASSUME OperatorInv, [OperatorNext]_operatorVars PROVE TakesOnlyMissing
  OBVIOUS
<1>0. \A d \in ds : d \in DaemonSets /\ ds = {d}
  BY DEF OperatorInv, OperatorTypes
<1>1. CASE ds' = ds
  BY <1>1, <1>0 DEF TakesOnlyMissing
<1>2. CASE PcUpdate /\ ds' # ds
  <2>1. /\ pc' = PcIdle /\ Write("pc", pc.cur, pc.ds) /\ pc.cur \in DaemonSets /\ pc.ds \in DaemonSets
        /\ pc.at = "update"
    BY <1>2 DEF PcUpdate, OperatorInv, OperatorTypes
  <2>2. ds' = {MergeDaemonSetForUpdate(pc.cur, pc.ds, "pc")}
    BY <2>1, <1>2, AfterWrite DEF WriteLeaves
  <2>3. \A e \in ds' : e.vols = pc.ds.vols /\ e.mounts = pc.ds.vols
    BY <2>1, <2>2, OwnSecrets
  <2>4. \A d \in ds : d.mounts = d.vols
    BY <1>0 DEF DaemonSets
  <2>5. pc # pc'
    BY <2>1, RenderedTyped
  <2> QED BY <2>3, <2>4, <2>5 DEF TakesOnlyMissing
<1>3. CASE OcUpdate /\ ds' # ds
  <2>1. /\ Write("oc", oc.cur, Rendered(oc.spec)) /\ oc.cur \in DaemonSets /\ oc.spec \in Nat
        /\ oc.at = "update" /\ "oc" \in fresh
    BY <1>3 DEF OcUpdate, OperatorInv, OperatorTypes
  <2>2. ds' = {MergeDaemonSetForUpdate(oc.cur, Rendered(oc.spec), "oc")}
    BY <2>1, <1>3, RenderedTyped, AfterWrite DEF WriteLeaves
  <2>3. ds = {oc.cur}
    BY <2>1 DEF OperatorInv, FreshIsCurrent
  <2>4. \A e \in ds' : oc.cur.vols \subseteq e.vols /\ oc.cur.mounts \subseteq e.mounts
    BY <2>1, <2>2, KeptSecrets
  <2> QED BY <2>3, <2>4 DEF TakesOnlyMissing
<1>4. CASE OcGet /\ ds' # ds
  BY <1>4 DEF OcGet, TakesOnlyMissing
<1>5. CASE PcGet
  BY <1>1, <1>5 DEF PcGet, api
<1> QED BY <1>1, <1>2, <1>3, <1>4, <1>5, OthersKeep DEF OperatorNext, PcStep, OcStep

(* A mounted secret is unmounted only by the reconciler of PtpConfig, and  *)
(* only a secret it found missing or unreferenced (daemonset merge of      *)
(* pkg/apply, version check of the API server).                            *)
THEOREM OnlyOwnerUnmounts == OperatorSpec => UnmountedByOwner
<1>1. OperatorInit => OperatorInv
  BY OperatorInitial
<1>2. OperatorInv /\ [OperatorNext]_operatorVars => OperatorInv'
  BY OperatorStep
<1>3. OperatorInv /\ [OperatorNext]_operatorVars => TakesOnlyMissing
  BY OnlyMissingTaken
<1> QED BY <1>1, <1>2, <1>3, PTL DEF OperatorSpec, UnmountedByOwner, TakesOnlyMissing

-----------------------------------------------------------------------------
(* Two lists of the same resources.  Moved takes a place in one to the     *)
(* place of the same resource in the other.                                *)
Moved(l, m, i) == CHOOSE j \in DOMAIN m : m[j] = l[i]
MovedTo(l, m, x) == <<Moved(l, m, x[1]), x[2]>>

(* A list of a world names each of its resources once. *)
LEMMA ListsAreOrders ==
  ASSUME NEW cs \in Worlds, NEW l \in Lists(cs)
  PROVE  /\ DOMAIN l = 1..Cardinality(cs) /\ Cardinality(cs) \in Nat
         /\ \A i \in DOMAIN l : l[i] \in cs
         /\ \A c \in cs : \E i \in DOMAIN l : l[i] = c
         /\ \A i, j \in DOMAIN l : l[i] = l[j] => i = j
         /\ DOMAIN Items(l) = DOMAIN l /\ \A i \in DOMAIN l : Items(l)[i] = Resource[l[i]]
<1> DEFINE n == Cardinality(cs)
<1>1. IsFiniteSet(cs) /\ n \in Nat
  BY OperatorAssumption, FS_CardinalityType
<1>2. l \in [1..n -> cs] /\ ToSet(l) = cs
  BY DEF Lists
<1>3. \A c \in cs : \E i \in DOMAIN l : l[i] = c
  BY <1>2 DEF ToSet
<1>4. IsFiniteSet(1..n) /\ Cardinality(1..n) = n
  BY <1>1, FS_Interval
<1>5. l \in Surjection(1..n, cs)
  BY <1>2, <1>3 DEF Surjection
<1>6. l \in Injection(1..n, cs)
  <2>1. Cardinality(cs) = Cardinality(1..n) <=> l \in Injection(1..n, cs)
    BY <1>4, <1>5, FS_Surjection, Zenon
  <2> QED BY <1>4, <2>1
<1>7. \A i, j \in DOMAIN l : l[i] = l[j] => i = j
  BY <1>2, <1>6 DEF Injection, IsInjective
<1> QED BY <1>1, <1>2, <1>3, <1>7 DEF Items

LEMMA MovedBack ==
  ASSUME NEW cs \in Worlds, NEW l \in Lists(cs), NEW m \in Lists(cs), NEW i \in DOMAIN l
  PROVE  /\ Moved(l, m, i) \in DOMAIN m /\ m[Moved(l, m, i)] = l[i]
         /\ Moved(m, l, Moved(l, m, i)) = i
<1>1. \E j \in DOMAIN m : m[j] = l[i]
  BY ListsAreOrders
<1>2. Moved(l, m, i) \in DOMAIN m /\ m[Moved(l, m, i)] = l[i]
  BY <1>1 DEF Moved
<1>3. \A j \in DOMAIN l : l[j] = l[i] => j = i
  BY ListsAreOrders
<1>4. Moved(m, l, Moved(l, m, i)) \in DOMAIN l /\ l[Moved(m, l, Moved(l, m, i))] = l[i]
  BY <1>2 DEF Moved
<1> QED BY <1>2, <1>3, <1>4

(* The names recommended to a node, and the resources that have a profile  *)
(* of a name, do not depend on the order.                                  *)
LEMMA SameNames ==
  ASSUME NEW cs \in Worlds, NEW l \in Lists(cs), NEW m \in Lists(cs), NEW node
  PROVE  getRecommendProfilesNames(Items(l), node) = getRecommendProfilesNames(Items(m), node)
<1>1. ASSUME NEW k \in Lists(cs)
      PROVE  UNION {Items(k)[i].recommend : i \in DOMAIN Items(k)} = UNION {Resource[c].recommend : c \in cs}
  <2>1. /\ DOMAIN Items(k) = DOMAIN k /\ \A i \in DOMAIN k : k[i] \in cs /\ Items(k)[i] = Resource[k[i]]
        /\ \A c \in cs : \E i \in DOMAIN k : k[i] = c
    BY ListsAreOrders
  <2>2. ASSUME NEW r \in UNION {Items(k)[i].recommend : i \in DOMAIN Items(k)}
        PROVE  r \in UNION {Resource[c].recommend : c \in cs}
    BY <2>1
  <2>3. ASSUME NEW r \in UNION {Resource[c].recommend : c \in cs}
        PROVE  r \in UNION {Items(k)[i].recommend : i \in DOMAIN Items(k)}
    BY <2>1
  <2> QED BY <2>2, <2>3
<1> QED BY <1>1 DEF getRecommendProfilesNames

LEMMA ItemsOf ==
  ASSUME NEW cs \in Worlds, NEW l \in Lists(cs), NEW name
  PROVE  /\ Owners(name, Items(l)) = {i \in DOMAIN l : name \in ProfileNames(Resource[l[i]])}
         /\ Owners(name, Items(l)) = {} <=> \A c \in cs : name \notin ProfileNames(Resource[c])
BY ListsAreOrders DEF Owners

LEMMA SameMissing ==
  ASSUME NEW cs \in Worlds, NEW l \in Lists(cs), NEW m \in Lists(cs), NEW node
  PROVE  Missing(Items(l), node) <=> Missing(Items(m), node)
BY SameNames, ItemsOf DEF Missing

(* So the same profiles are chosen, ... *)
LEMMA ChosenMoved ==
  ASSUME NEW cs \in Worlds, NEW l \in Lists(cs), NEW m \in Lists(cs), NEW node,
         NEW x \in Chosen(Items(l), node)
  PROVE  /\ MovedTo(l, m, x) \in Chosen(Items(m), node)
         /\ MovedTo(m, l, MovedTo(l, m, x)) = x
         /\ x[1] \in DOMAIN l /\ x[2] \in DOMAIN Resource[l[x[1]]].profiles
         /\ x = <<x[1], x[2]>>
<1>1. PICK i \in DOMAIN Items(l) : x \in {i} \X DOMAIN Items(l)[i].profiles
  BY DEF Chosen
<1>2. x[1] = i /\ x[2] \in DOMAIN Items(l)[i].profiles /\ x = <<x[1], x[2]>>
  BY <1>1
<1>3. i \in DOMAIN l /\ Items(l)[i] = Resource[l[i]]
  BY <1>1, ListsAreOrders
<1>4. PICK j : j = Moved(l, m, i)
  OBVIOUS
<1>5. j \in DOMAIN m /\ m[j] = l[i] /\ Moved(m, l, j) = i
  BY <1>3, <1>4, MovedBack
<1>6. j \in DOMAIN Items(m) /\ Items(m)[j] = Resource[l[i]]
  BY <1>5, ListsAreOrders
<1>7. MovedTo(l, m, x) = <<j, x[2]>> /\ MovedTo(m, l, <<j, x[2]>>) = <<i, x[2]>>
  BY <1>2, <1>4, <1>5 DEF MovedTo
<1>8. Items(l)[i].profiles[x[2]].name \in getRecommendProfilesNames(Items(l), node)
  BY <1>2 DEF Chosen
<1>9. <<j, x[2]>> \in Chosen(Items(m), node)
  <2>1. <<j, x[2]>> \in UNION {{h} \X DOMAIN Items(m)[h].profiles : h \in DOMAIN Items(m)}
    BY <1>2, <1>3, <1>6
  <2>2. Items(m)[j].profiles[x[2]].name \in getRecommendProfilesNames(Items(m), node)
    BY <1>3, <1>6, <1>8, SameNames
  <2> QED BY <2>1, <2>2 DEF Chosen
<1> QED BY <1>2, <1>3, <1>7, <1>9

LEMMA HeadOfName ==
  ASSUME NEW a, NEW b, NEW S, NEW s \in Seq(S), NEW t \in Seq(S),
         qualifyProfileName(a, s) = qualifyProfileName(b, t)
  PROVE  a = b
<1>1. PICK T : T = S \cup {a, b}
  OBVIOUS
<1>2. <<a>> \in Seq(T) /\ <<b>> \in Seq(T) /\ s \in Seq(T) /\ t \in Seq(T)
  BY <1>1
<1>3. (<<a>> \o s)[1] = a /\ (<<b>> \o t)[1] = b
  BY <1>2
<1> QED BY <1>3 DEF qualifyProfileName

(* ... and sort the same way: those of two resources by their names, which *)
(* differ, those of one in the order they have there.                      *)
LEMMA SortsSame ==
  ASSUME NEW cs \in Worlds, NEW l \in Lists(cs), NEW m \in Lists(cs), NEW node,
         NEW x \in Chosen(Items(l), node), NEW y \in Chosen(Items(l), node)
  PROVE  SortsBefore(Items(l), y, x) <=> SortsBefore(Items(m), MovedTo(l, m, y), MovedTo(l, m, x))
<1>1. ASSUME NEW z \in Chosen(Items(l), node)
      PROVE  /\ z[1] \in DOMAIN l /\ Moved(l, m, z[1]) \in DOMAIN m /\ m[Moved(l, m, z[1])] = l[z[1]]
             /\ MovedTo(l, m, z)[1] = Moved(l, m, z[1]) /\ MovedTo(l, m, z)[2] = z[2]
             /\ l[z[1]] \in cs /\ z[2] \in DOMAIN Resource[l[z[1]]].profiles
  <2>1. z[1] \in DOMAIN l /\ z[2] \in DOMAIN Resource[l[z[1]]].profiles
    BY ChosenMoved
  <2>2. l[z[1]] \in cs
    BY <2>1, ListsAreOrders
  <2> QED BY <2>1, <2>2, MovedBack DEF MovedTo
<1>2. ASSUME NEW z \in Chosen(Items(l), node)
      PROVE  /\ GivenName(Items(l), z) = qualifyProfileName(Resource[l[z[1]]].name, Resource[l[z[1]]].profiles[z[2]].name)
             /\ GivenName(Items(m), MovedTo(l, m, z)) = GivenName(Items(l), z)
  <2>0. /\ \A i \in DOMAIN l : Items(l)[i] = Resource[l[i]]
        /\ \A i \in DOMAIN m : Items(m)[i] = Resource[m[i]]
    BY ListsAreOrders
  <2>1. Items(l)[z[1]] = Resource[l[z[1]]]
    BY <1>1, <2>0
  <2>2. Items(m)[Moved(l, m, z[1])] = Resource[l[z[1]]]
    BY <1>1, <2>0
  <2> QED BY <2>1, <2>2, <1>1 DEF GivenName
<1>d. /\ x[1] \in Int /\ y[1] \in Int
      /\ Moved(l, m, x[1]) \in Int /\ Moved(l, m, y[1]) \in Int
  <2>1. DOMAIN l = 1..Cardinality(cs) /\ DOMAIN m = 1..Cardinality(cs) /\ Cardinality(cs) \in Nat
    BY ListsAreOrders
  <2> QED BY <2>1, <1>1
<1>3. CASE x[1] = y[1]
  <2>1. Moved(l, m, x[1]) = Moved(l, m, y[1])
    BY <1>3
  <2>2. x[1] \in Int /\ Moved(l, m, x[1]) \in Int
    BY <1>d
  <2>3. ListedBefore(y, x) <=> y[2] < x[2]
    BY <1>3, <2>2 DEF ListedBefore
  <2>4. ListedBefore(MovedTo(l, m, y), MovedTo(l, m, x)) <=> y[2] < x[2]
    BY <2>1, <2>2, <1>1 DEF ListedBefore
  <2> QED BY <1>2, <2>3, <2>4 DEF SortsBefore
<1>4. CASE x[1] # y[1]
  <2>1. l[x[1]] \in cs /\ l[y[1]] \in cs /\ l[x[1]] # l[y[1]]
    <3>1. x[1] \in DOMAIN l /\ y[1] \in DOMAIN l /\ l[x[1]] \in cs /\ l[y[1]] \in cs
      BY <1>1
    <3>2. \A i, j \in DOMAIN l : l[i] = l[j] => i = j
      BY ListsAreOrders
    <3> QED BY <3>1, <3>2, <1>4
  <2>2. Resource[l[x[1]]].name # Resource[l[y[1]]].name
    BY <2>1, OperatorAssumption
  <2>3. GivenName(Items(l), x) # GivenName(Items(l), y)
    <3>1. /\ Resource[l[x[1]]].profiles[x[2]].name \in Seq(STRING)
          /\ Resource[l[y[1]]].profiles[y[2]].name \in Seq(STRING)
      BY <1>1, OperatorAssumption
    <3> QED BY <3>1, <1>2, <2>2, HeadOfName
  <2> QED BY <1>2, <2>3 DEF SortsBefore
<1> QED BY <1>3, <1>4

(* Sets between which a map goes back and forth are as large as each other. *)
LEMMA SameSize ==
  ASSUME NEW S, IsFiniteSet(S), NEW T, NEW f \in [S -> T], NEW g \in [T -> S],
         \A x \in S : g[f[x]] = x, \A y \in T : f[g[y]] = y
  PROVE  IsFiniteSet(T) /\ Cardinality(T) = Cardinality(S)
<1>1. f \in Injection(S, T)
  <2>1. \A x, y \in S : f[x] = f[y] => x = y
    OBVIOUS
  <2> QED BY <2>1 DEF Injection, IsInjective
<1>2. f \in Surjection(S, T)
  BY DEF Surjection
<1>3. ExistsBijection(S, T)
  BY <1>1, <1>2 DEF Bijection, ExistsBijection
<1> QED BY <1>3, FS_Bijection

LEMMA ChosenFinite ==
  ASSUME NEW cs \in Worlds, NEW l \in Lists(cs), NEW node
  PROVE  IsFiniteSet(Chosen(Items(l), node))
<1> DEFINE D == {{i} \X DOMAIN Items(l)[i].profiles : i \in DOMAIN Items(l)}
<1>0. /\ DOMAIN Items(l) = 1..Cardinality(cs) /\ Cardinality(cs) \in Nat
      /\ \A i \in DOMAIN Items(l) : Items(l)[i] = Resource[l[i]] /\ l[i] \in cs
  BY ListsAreOrders
<1>1. \A i \in DOMAIN Items(l) : IsFiniteSet({i} \X DOMAIN Items(l)[i].profiles)
  <2> SUFFICES ASSUME NEW i \in DOMAIN Items(l) PROVE IsFiniteSet({i} \X DOMAIN Items(l)[i].profiles)
    OBVIOUS
  <2>1. IsFiniteSet(DOMAIN Items(l)[i].profiles)
    BY <1>0, OperatorAssumption
  <2>2. IsFiniteSet({i})
    BY FS_Singleton
  <2> QED BY <2>1, <2>2, FS_Product
<1>2. IsFiniteSet(DOMAIN Items(l))
  BY <1>0, FS_Interval
<1>3. IsFiniteSet(D)
  <2>1. PICK f : f = [i \in DOMAIN Items(l) |-> {i} \X DOMAIN Items(l)[i].profiles]
    OBVIOUS
  <2>2. f \in Surjection(DOMAIN Items(l), D)
    BY <2>1 DEF Surjection
  <2> QED BY <1>2, <2>2, FS_Surjection
<1>4. IsFiniteSet(UNION D)
  BY <1>1, <1>3, FS_UNION
<1>5. Chosen(Items(l), node) \in SUBSET UNION D
  BY DEF Chosen
<1> QED BY <1>4, <1>5, FS_Subset

(* As many profiles come before one in either list. *)
LEMMA SamePlace ==
  ASSUME NEW cs \in Worlds, NEW l \in Lists(cs), NEW m \in Lists(cs), NEW node,
         NEW x \in Chosen(Items(l), node)
  PROVE  Place(Items(m), node, MovedTo(l, m, x)) = Place(Items(l), node, x)
<1> DEFINE S == {y \in Chosen(Items(l), node) : SortsBefore(Items(l), y, x)}
           T == {y \in Chosen(Items(m), node) : SortsBefore(Items(m), y, MovedTo(l, m, x))}
<1>1. \A y \in S : MovedTo(l, m, y) \in T /\ MovedTo(m, l, MovedTo(l, m, y)) = y
  BY ChosenMoved, SortsSame
<1>2. \A y \in T : MovedTo(m, l, y) \in S /\ MovedTo(l, m, MovedTo(m, l, y)) = y
  <2> SUFFICES ASSUME NEW y \in T PROVE MovedTo(m, l, y) \in S /\ MovedTo(l, m, MovedTo(m, l, y)) = y
    OBVIOUS
  <2>1. MovedTo(l, m, x) \in Chosen(Items(m), node) /\ MovedTo(m, l, MovedTo(l, m, x)) = x
    BY ChosenMoved
  <2>2. MovedTo(m, l, y) \in Chosen(Items(l), node) /\ MovedTo(l, m, MovedTo(m, l, y)) = y
    BY ChosenMoved
  <2>3. SortsBefore(Items(m), y, MovedTo(l, m, x)) <=> SortsBefore(Items(l), MovedTo(m, l, y), x)
    BY <2>1, <2>2, SortsSame
  <2> QED BY <2>2, <2>3
<1>3. IsFiniteSet(S)
  BY ChosenFinite, FS_Subset
<1>4. [y \in S |-> MovedTo(l, m, y)] \in [S -> T] /\ [y \in T |-> MovedTo(m, l, y)] \in [T -> S]
  BY <1>1, <1>2
<1>5. PICK f \in [S -> T], g \in [T -> S] :
        f = [y \in S |-> MovedTo(l, m, y)] /\ g = [y \in T |-> MovedTo(m, l, y)]
  BY <1>4
<1>6. (\A y \in S : g[f[y]] = y) /\ \A y \in T : f[g[y]] = y
  BY <1>1, <1>2, <1>5
<1> HIDE DEF S, T
<1>7. Cardinality(T) = Cardinality(S)
  BY <1>3, <1>6, SameSize
<1> QED BY <1>7 DEF Place, S, T

LEMMA SameNumber ==
  ASSUME NEW cs \in Worlds, NEW l \in Lists(cs), NEW m \in Lists(cs), NEW node
  PROVE  Cardinality(Chosen(Items(m), node)) = Cardinality(Chosen(Items(l), node))
<1> DEFINE S == Chosen(Items(l), node)
           T == Chosen(Items(m), node)
<1>1. IsFiniteSet(S)
  BY ChosenFinite
<1>2. \A y \in S : MovedTo(l, m, y) \in T /\ MovedTo(m, l, MovedTo(l, m, y)) = y
  BY ChosenMoved
<1>3. \A y \in T : MovedTo(m, l, y) \in S /\ MovedTo(l, m, MovedTo(m, l, y)) = y
  BY ChosenMoved
<1> HIDE DEF S, T
<1>4. PICK f, g : f = [y \in S |-> MovedTo(l, m, y)] /\ g = [y \in T |-> MovedTo(m, l, y)]
  OBVIOUS
<1>5. f \in [S -> T] /\ g \in [T -> S] /\ (\A y \in S : g[f[y]] = y) /\ \A y \in T : f[g[y]] = y
  BY <1>2, <1>3, <1>4
<1>6. Cardinality(T) = Cardinality(S)
  BY <1>1, <1>5, SameSize
<1> QED BY <1>6 DEF S, T

LEMMA NoTwo ==
  ASSUME NEW S, IsFiniteSet(S), ~(Cardinality(S) > 1), NEW a \in S, NEW b \in S
  PROVE  a = b
<1> SUFFICES ASSUME a # b PROVE FALSE
  OBVIOUS
<1>1. IsFiniteSet({a}) /\ Cardinality({a}) = 1
  BY FS_Singleton
<1>2. {a} \cup {b} \in SUBSET S /\ b \notin {a}
  OBVIOUS
<1>3. Cardinality({a} \cup {b}) = 2
  <2>1. PICK S1 : S1 = {a}
    OBVIOUS
  <2>2. IsFiniteSet(S1) /\ Cardinality(S1) = 1 /\ b \notin S1
    BY <1>1, <1>2, <2>1
  <2>3. Cardinality(S1 \cup {b}) = 2
    BY <2>2, FS_AddElement
  <2> QED BY <2>1, <2>3
<1>4. Cardinality({a} \cup {b}) <= Cardinality(S) /\ Cardinality(S) \in Nat
  BY <1>2, FS_Subset, FS_CardinalityType
<1> QED BY <1>3, <1>4

(* A reference is resolved the same way in either list, unless two         *)
(* resources have a profile of that name.                                  *)
OneOwner(cs, ref) == \A c, d \in cs :
  ref \in ProfileNames(Resource[c]) /\ ref \in ProfileNames(Resource[d]) => c = d

LEMMA ResolvesSame ==
  ASSUME NEW cs \in Worlds, NEW l \in Lists(cs), NEW m \in Lists(cs), NEW ref, OneOwner(cs, ref)
  PROVE  resolveProfileReference(ref, Items(l)) = resolveProfileReference(ref, Items(m))
<1>1. ASSUME NEW k \in Lists(cs)
      PROVE  /\ AlreadyQualified(ref, Items(k)) <=>
                  Len(ref) >= 2 /\ \E c \in cs : /\ Resource[c].name = Head(ref)
                                                 /\ Tail(ref) \in ProfileNames(Resource[c])
             /\ Owners(ref, Items(k)) = {} <=> \A c \in cs : ref \notin ProfileNames(Resource[c])
  <2>1. /\ DOMAIN Items(k) = DOMAIN k /\ \A i \in DOMAIN k : k[i] \in cs /\ Items(k)[i] = Resource[k[i]]
        /\ \A c \in cs : \E i \in DOMAIN k : k[i] = c
    BY ListsAreOrders
  <2>2. profileExistsInCR(Head(ref), Tail(ref), Items(k)) <=>
          \E c \in cs : Resource[c].name = Head(ref) /\ Tail(ref) \in ProfileNames(Resource[c])
    BY <2>1 DEF profileExistsInCR
  <2> QED BY <2>2, ItemsOf DEF AlreadyQualified
<1>2. ASSUME NEW k \in Lists(cs), NEW c \in cs, ref \in ProfileNames(Resource[c])
      PROVE  owningConfigName(ref, Items(k)) = Resource[c].name
  <2>1. /\ \A i \in DOMAIN k : k[i] \in cs /\ Items(k)[i] = Resource[k[i]]
        /\ \A i, j \in DOMAIN k : k[i] = k[j] => i = j
        /\ DOMAIN k = 1..Cardinality(cs) /\ Cardinality(cs) \in Nat
    BY ListsAreOrders
  <2>2. PICK i \in DOMAIN k : k[i] = c
    BY ListsAreOrders
  <2>3. Owners(ref, Items(k)) = {h \in DOMAIN k : ref \in ProfileNames(Resource[k[h]])}
    BY ItemsOf
  <2>4. Owners(ref, Items(k)) = {i}
    BY <1>2, <2>1, <2>2, <2>3 DEF OneOwner
  <2>5. i <= i
    BY <2>1
  <2>6. (CHOOSE h \in Owners(ref, Items(k)) : \A j \in Owners(ref, Items(k)) : h <= j) = i
    BY <2>4, <2>5
  <2>7. owningConfigName(ref, Items(k)) = Items(k)[i].name
    BY <2>6 DEF owningConfigName
  <2> QED BY <2>1, <2>2, <2>7
<1>3. CASE \A c \in cs : ref \notin ProfileNames(Resource[c])
  BY <1>1, <1>3 DEF resolveProfileReference
<1>4. CASE \E c \in cs : ref \in ProfileNames(Resource[c])
  <2>1. owningConfigName(ref, Items(l)) = owningConfigName(ref, Items(m))
    BY <1>2, <1>4
  <2>2. AlreadyQualified(ref, Items(l)) <=> AlreadyQualified(ref, Items(m))
    BY <1>1
  <2> QED BY <1>1, <2>1, <2>2 DEF resolveProfileReference
<1> QED BY <1>3, <1>4

(* The profiles a node is given, the same from either list. *)
GivenAt(items, x) == Given(items[x[1]], items[x[1]].profiles[x[2]], items)
LEMMA GivenSame ==
  ASSUME NEW cs \in Worlds, cs \notin Ambiguous, NEW l \in Lists(cs), NEW m \in Lists(cs), NEW node,
         NEW x \in Chosen(Items(l), node)
  PROVE  GivenAt(Items(m), MovedTo(l, m, x)) = GivenAt(Items(l), x)
<1>1. x[1] \in DOMAIN l /\ x[2] \in DOMAIN Resource[l[x[1]]].profiles
  BY ChosenMoved
<1>2. PICK c \in cs : c = l[x[1]]
  BY <1>1, ListsAreOrders
<1>3. PICK p : p = Resource[c].profiles[x[2]]
  OBVIOUS
<1>4. p \in ToSet(Resource[c].profiles)
  BY <1>1, <1>2, <1>3 DEF ToSet
<1>5. ASSUME NEW r \in p.refs
      PROVE  resolveProfileReference(r, Items(m)) = resolveProfileReference(r, Items(l))
  <2>1. ~(Cardinality({d \in cs : r \in ProfileNames(Resource[d])}) > 1)
    BY <1>4 DEF Ambiguous
  <2>2. IsFiniteSet({d \in cs : r \in ProfileNames(Resource[d])})
    BY OperatorAssumption, FS_Subset
  <2>3. OneOwner(cs, r)
    BY <2>1, <2>2, NoTwo DEF OneOwner
  <2> QED BY <2>3, ResolvesSame
<1>6. Items(l)[x[1]] = Resource[c]
  BY <1>1, <1>2, ListsAreOrders
<1>7. Items(m)[MovedTo(l, m, x)[1]] = Resource[c] /\ MovedTo(l, m, x)[2] = x[2]
  <2>1. /\ Moved(l, m, x[1]) \in DOMAIN m /\ m[Moved(l, m, x[1])] = c
    BY <1>1, <1>2, MovedBack
  <2>2. \A i \in DOMAIN m : Items(m)[i] = Resource[m[i]]
    BY ListsAreOrders
  <2> QED BY <2>1, <2>2 DEF MovedTo
<1>8. {resolveProfileReference(r, Items(m)) : r \in p.refs} = {resolveProfileReference(r, Items(l)) : r \in p.refs}
  BY <1>5
<1>9. Given(Resource[c], p, Items(m)) = Given(Resource[c], p, Items(l))
  BY <1>8 DEF Given
<1> QED BY <1>3, <1>6, <1>7, <1>9 DEF GivenAt

LEMMA ProfilesSame ==
  ASSUME NEW cs \in Worlds, cs \notin Ambiguous, NEW l \in Lists(cs), NEW m \in Lists(cs), NEW node
  PROVE  getRecommendProfiles(Items(l), node) = getRecommendProfiles(Items(m), node)
<1> DEFINE At(k, n) == {y \in Chosen(Items(k), node) : Place(Items(k), node, y) = n - 1}
           Here(k, n) == {GivenAt(Items(k), x) : x \in At(k, n)}
<1>1. \A n \in Nat : Here(l, n) = Here(m, n)
  <2> SUFFICES ASSUME NEW n \in Nat PROVE Here(l, n) = Here(m, n)
    OBVIOUS
  <2>1. ASSUME NEW a \in Lists(cs), NEW b \in Lists(cs), NEW v \in Here(a, n) PROVE v \in Here(b, n)
    <3>1. PICK x \in At(a, n) : v = GivenAt(Items(a), x)
      OBVIOUS
    <3>2. MovedTo(a, b, x) \in At(b, n)
      BY ChosenMoved, SamePlace
    <3>3. v = GivenAt(Items(b), MovedTo(a, b, x))
      BY <3>1, GivenSame
    <3> QED BY <3>2, <3>3
  <2> QED BY <2>1
<1>2. Cardinality(Chosen(Items(l), node)) = Cardinality(Chosen(Items(m), node))
  BY SameNumber
<1>3. Cardinality(Chosen(Items(l), node)) \in Nat
  BY ChosenFinite, FS_CardinalityType
<1>4. ASSUME NEW k \in Lists(cs)
      PROVE  getRecommendProfiles(Items(k), node)
               = [n \in 1..Cardinality(Chosen(Items(k), node)) |-> CHOOSE p \in Here(k, n) : TRUE]
  BY Zenon DEF getRecommendProfiles, GivenAt
<1>5. \A n \in 1..Cardinality(Chosen(Items(l), node)) :
        (CHOOSE p \in Here(l, n) : TRUE) = (CHOOSE p \in Here(m, n) : TRUE)
  BY <1>1, <1>3
<1> HIDE DEF Here
<1> QED BY <1>2, <1>4, <1>5

(* What a reconcile computes from a list, as far as the list has any order.*)
DataOf(l) ==
  IF \E n \in Nodes : Missing(Items(l), n) THEN {}
  ELSE {[n \in Nodes |-> getRecommendProfiles(Items(l), n)]}
LEMMA DataSame ==
  ASSUME NEW cs \in Worlds, cs \notin Ambiguous, NEW l \in Lists(cs), NEW m \in Lists(cs)
  PROVE  DataOf(l) = DataOf(m)
<1>1. \A n \in Nodes : Missing(Items(l), n) <=> Missing(Items(m), n)
  BY SameMissing
<1>2. \A n \in Nodes : getRecommendProfiles(Items(l), n) = getRecommendProfiles(Items(m), n)
  BY ProfilesSame
<1>3. [n \in Nodes |-> getRecommendProfiles(Items(l), n)] = [n \in Nodes |-> getRecommendProfiles(Items(m), n)]
  BY <1>2
<1> QED BY <1>1, <1>3 DEF DataOf

LEMMA NodeDataOf ==
  ASSUME NEW e \in NodeData
  PROVE  /\ e.data = DataOf(e.list)
         /\ ToSet(e.list) \in Worlds /\ e.list \in Lists(ToSet(e.list))
<1>1. PICK l \in AllLists : e = [list |-> l, data |-> DataOf(l)]
  BY Zenon DEF NodeData, DataOf
<1>2. PICK cs \in Worlds : l \in Lists(cs)
  BY DEF AllLists
<1>3. ToSet(l) = cs
  BY <1>2 DEF Lists
<1> QED BY <1>1, <1>2, <1>3

(* The data the ConfigMap holds was computed from some list of the         *)
(* resources it is of, or is that of the empty map it was created with.    *)
NoData == [n \in Nodes |-> <<>>]
MapComputed ==
  \A m \in cm : \/ m.of = {} /\ m.data = NoData
                \/ \E e \in NodeData : m.of = ToSet(e.list) /\ e.data = {m.data}

LEMMA NothingFromNothing ==
  ASSUME NEW l \in Lists({}), {} \in Worlds
  PROVE  DataOf(l) = {NoData}
<1>1. DOMAIN Items(l) = {} /\ DOMAIN l = {}
  <2>1. DOMAIN Items(l) = DOMAIN l /\ \A i \in DOMAIN l : l[i] \in {}
    BY ListsAreOrders
  <2> QED BY <2>1
<1>2. ASSUME NEW node
      PROVE  getRecommendProfilesNames(Items(l), node) = {} /\ Chosen(Items(l), node) = {}
  BY <1>1 DEF getRecommendProfilesNames, TopNames, Chosen
<1>3. ASSUME NEW node PROVE getRecommendProfiles(Items(l), node) = <<>>
  <2>1. Cardinality(Chosen(Items(l), node)) = 0
    BY <1>2, FS_EmptySet
  <2>2. 1..0 = {}
    OBVIOUS
  <2> QED BY <2>1, <2>2 DEF getRecommendProfiles
<1>4. \A n \in Nodes : ~Missing(Items(l), n)
  BY <1>2 DEF Missing
<1>5. [n \in Nodes |-> getRecommendProfiles(Items(l), n)] = NoData
  BY <1>3 DEF NoData
<1> QED BY <1>4, <1>5 DEF DataOf

LEMMA ComputedDetermined == MapComputed => NodeDataDetermined
<1> SUFFICES ASSUME MapComputed, NEW m \in cm, m.of \notin Ambiguous, NEW e \in NodeData, ToSet(e.list) = m.of
             PROVE  e.data = {m.data}
  BY DEF NodeDataDetermined
<1>1. e.data = DataOf(e.list) /\ m.of \in Worlds /\ e.list \in Lists(m.of)
  BY NodeDataOf
<1>2. CASE \E d \in NodeData : m.of = ToSet(d.list) /\ d.data = {m.data}
  <2>1. PICK d \in NodeData : m.of = ToSet(d.list) /\ d.data = {m.data}
    BY <1>2
  <2>2. d.data = DataOf(d.list) /\ d.list \in Lists(m.of)
    BY <2>1, NodeDataOf
  <2> QED BY <1>1, <2>1, <2>2, DataSame
<1>3. CASE m.of = {} /\ m.data = NoData
  BY <1>1, <1>3, NothingFromNothing
<1> QED BY <1>2, <1>3 DEF MapComputed

LEMMA MapKept == MapComputed /\ [OperatorNext]_operatorVars => MapComputed'
<1> SUFFICES ASSUME MapComputed, [OperatorNext]_operatorVars PROVE MapComputed'
  OBVIOUS
<1>1. CASE cm' = cm
  BY <1>1 DEF MapComputed
<1>2. CASE PcMap /\ cm' # cm
  <2>1. PICK e \in NodeData :
          /\ e.list = pc.list
          /\ \E data \in e.data : cm' = {[of |-> ToSet(pc.list), data |-> data]}
    BY <1>2 DEF PcMap
  <2>2. PICK data \in e.data : cm' = {[of |-> ToSet(pc.list), data |-> data]}
    BY <2>1
  <2>3. e.data = {data}
    BY <2>2, NodeDataOf DEF DataOf
  <2>4. \A m \in cm' : m.of = ToSet(e.list) /\ e.data = {m.data}
    BY <2>1, <2>2, <2>3
  <2> QED BY <2>4 DEF MapComputed
<1>3. CASE OcStart /\ cm' # cm
  <2>1. cm' = {[of |-> {}, data |-> [n \in Nodes |-> <<>>]]}
    BY <1>3 DEF OcStart
  <2> QED BY <2>1 DEF MapComputed, NoData
<1>4. CASE ~PcMap /\ ~OcStart
  <2>1. cm' = cm
    BY <1>4 DEF OperatorNext, operatorVars, api, Users, EditConfigs, EditSecret, EditOperatorConfig,
         EditHardwareConfig, PcStep, PcList, PcStatus, PcSecrets, PcGet, PcUpdate, PcFails, OcStep,
         OcPolicy, OcStalePolicies, OcGet, OcUpdate, OcFails, HcStep, HcGet, HcStatus
  <2> QED BY <1>1, <2>1
<1> QED BY <1>1, <1>2, <1>3, <1>4

(* What a node is given does not depend on the order in which the API      *)
(* lists the resources (recommend.go), unless a bare reference names a     *)
(* profile of two resources.                                               *)
THEOREM DataIsDetermined == OperatorSpec => []NodeDataDetermined
<1>1. OperatorInit => MapComputed
  BY DEF OperatorInit, MapComputed
<1> QED BY <1>1, MapKept, ComputedDetermined, PTL DEF OperatorSpec

-----------------------------------------------------------------------------
(***************************************************************************)
(* UbxCommand.  ackCommandGroups and the receiver both walk the arguments; *)
(* the lemmas say that they find the same operations in the same order     *)
(* (AllCounted), hence that Run attributes the answers as the receiver     *)
(* gave them (KnownVerdict, UnknownVerdict).                               *)
(***************************************************************************)
Counts == {Indeterminate, 1, 2}

LEMMA CountsAre == Counts = {-1, 1, 2} /\ \A g \in Counts : Least(g) \in {1, 2}
BY DEF Counts, Indeterminate, Least

(* The sums of the first groups. *)
IsSum(gs, f) ==
  /\ f[0] = 0 /\ \A k \in 1..Len(gs) : f[k] = f[k - 1] + Least(gs[k])
  /\ \A k \in 0..Len(gs) : f[k] \in Nat

LEMMA SumDef ==
  ASSUME NEW gs \in Seq(Counts)
  PROVE  \E f : IsSum(gs, f) /\ Expected(gs) = f[Len(gs)]
<1> DEFINE n == Len(gs)
           D == 0..n
           depth == [k \in D |-> k]
           F == [x \in D \X [D -> Nat] |->
                   IF x[1] = 0 THEN 0 ELSE x[2][x[1] - 1] + Least(gs[x[1]])]
<1>0. n \in Nat /\ \A k \in 1..n : gs[k] \in Counts /\ Least(gs[k]) \in Nat
  BY CountsAre
<1>1. depth \in [D -> Nat] /\ \A k \in D : depth[k] < n + 1 /\ depth[k] = k
  BY <1>0
<1>2. ASSUME NEW k \in D, NEW f \in [D -> Nat]
      PROVE  F[<<k, f>>] = (IF k = 0 THEN 0 ELSE f[k - 1] + Least(gs[k])) /\ F[<<k, f>>] \in Nat
  <2>1. <<k, f>> \in D \X [D -> Nat] /\ <<k, f>>[1] = k /\ <<k, f>>[2] = f
    OBVIOUS
  <2>2. F[<<k, f>>] = IF k = 0 THEN 0 ELSE f[k - 1] + Least(gs[k])
    BY <2>1
  <2>3. k # 0 => k - 1 \in D /\ k \in 1..n
    BY <1>0
  <2>4. (IF k = 0 THEN 0 ELSE f[k - 1] + Least(gs[k])) \in Nat
    BY <1>0, <2>3
  <2> QED BY <2>2, <2>4
<1>3. F \in [D \X [D -> Nat] -> Nat]
  <2>1. F = [x \in D \X [D -> Nat] |-> F[x]]
    OBVIOUS
  <2>2. \A x \in D \X [D -> Nat] : x = <<x[1], x[2]>> /\ x[1] \in D /\ x[2] \in [D -> Nat]
    OBVIOUS
  <2> HIDE DEF F, D
  <2>3. \A x \in D \X [D -> Nat] : F[x] \in Nat
    BY <1>2, <2>2
  <2> QED BY <2>1, <2>3
<1>4. \A k \in D, f, g \in [D -> Nat] :
         (\A j \in D : depth[j] < depth[k] => f[j] = g[j]) => F[<<k, f>>] = F[<<k, g>>]
  <2> SUFFICES ASSUME NEW k \in D, NEW f \in [D -> Nat], NEW g \in [D -> Nat],
                      \A j \in D : depth[j] < depth[k] => f[j] = g[j]
               PROVE  F[<<k, f>>] = F[<<k, g>>]
    OBVIOUS
  <2>1. k # 0 => k - 1 \in D /\ k - 1 < k
    BY <1>0
  <2> HIDE DEF F, depth
  <2>2. k # 0 => f[k - 1] = g[k - 1]
    BY <1>1, <2>1
  <2> QED BY <1>2, <2>2
<1> HIDE DEF F, depth, D
<1>5. \E f \in [D -> Nat] : \A k \in D : f[k] = F[<<k, f>>]
  <2>1. Founded(D, Nat, F, depth, n + 1)
    <3>1. Nat # {} /\ n + 1 \in Nat /\ \A k \in D : depth[k] < n + 1
      BY <1>0, <1>1
    <3> QED BY <1>1, <1>3, <1>4, <3>1 DEF Founded
  <2> QED BY <2>1, Recursion
<1> USE DEF D
<1>6. PICK f \in [D -> Nat] : \A k \in D : f[k] = IF k = 0 THEN 0 ELSE f[k - 1] + Least(gs[k])
  BY <1>2, <1>5
<1> DEFINE G(h) == h = [k \in 0..Len(gs) |-> IF k = 0 THEN 0 ELSE h[k - 1] + Least(gs[k])]
<1>7. G(f)
  BY <1>6
<1> DEFINE c == CHOOSE h : G(h)
<1>8. G(c) /\ Expected(gs) = c[Len(gs)]
  <2>1. G(c)
    <3> HIDE DEF G
    <3> QED BY <1>7
  <2> QED BY <2>1 DEF Expected
<1> HIDE DEF c
<1>9. c[0] = 0 /\ \A k \in 1..n : c[k] = c[k - 1] + Least(gs[k])
  BY <1>0, <1>8
<1> DEFINE P == {k \in Nat : k <= n => c[k] \in Nat}
<1>10. 0 \in P /\ \A k \in Nat : k \in P => k + 1 \in P
  <2> SUFFICES ASSUME NEW k \in Nat, k \in P, k + 1 <= n PROVE c[k + 1] \in Nat
    BY <1>9
  <2>1. k + 1 \in 1..n /\ (k + 1) - 1 = k /\ c[k] \in Nat
    BY <1>0
  <2> QED BY <1>0, <1>9, <2>1
<1>11. Nat \subseteq P
  <2> HIDE DEF P
  <2> QED BY <1>10, SetInduction
<1>12. \A k \in D : c[k] \in Nat
  BY <1>0, <1>11
<1> QED BY <1>8, <1>9, <1>12 DEF IsSum

(* What is summed of a prefix is the sum up to there. *)
LEMMA SumsAgree ==
  ASSUME NEW gs, NEW hs, NEW f, NEW h, IsSum(gs, f), IsSum(hs, h),
         Len(hs) \in Nat, Len(gs) \in Nat, Len(hs) <= Len(gs), \A j \in 1..Len(hs) : hs[j] = gs[j]
  PROVE  h[Len(hs)] = f[Len(hs)]
<1> DEFINE P == {k \in Nat : k <= Len(hs) => h[k] = f[k]}
<1>1. 0 \in P
  BY DEF IsSum
<1>2. ASSUME NEW k \in Nat, k \in P PROVE k + 1 \in P
  <2> SUFFICES ASSUME k + 1 <= Len(hs) PROVE h[k + 1] = f[k + 1]
    OBVIOUS
  <2>1. k + 1 \in 1..Len(hs) /\ k + 1 \in 1..Len(gs) /\ (k + 1) - 1 = k /\ h[k] = f[k]
    BY <1>2
  <2>2. h[k + 1] = h[k] + Least(hs[k + 1]) /\ f[k + 1] = f[k] + Least(gs[k + 1])
    BY <2>1 DEF IsSum
  <2> QED BY <2>1, <2>2
<1> HIDE DEF P
<1>3. Nat \subseteq P
  BY <1>1, <1>2, SetInduction
<1> QED BY <1>3 DEF P

LEMMA PrefixSums ==
  ASSUME NEW gs \in Seq(Counts)
  PROVE  \E f : /\ IsSum(gs, f) /\ Expected(gs) = f[Len(gs)]
                /\ \A k \in 0..Len(gs) : Expected(SubSeq(gs, 1, k)) = f[k]
<1>1. PICK f : IsSum(gs, f) /\ Expected(gs) = f[Len(gs)]
  BY SumDef
<1>2. ASSUME NEW k \in 0..Len(gs) PROVE Expected(SubSeq(gs, 1, k)) = f[k]
  <2> DEFINE hs == SubSeq(gs, 1, k)
  <2>1. hs \in Seq(Counts) /\ Len(hs) = k /\ \A j \in 1..k : hs[j] = gs[j]
    OBVIOUS
  <2> HIDE DEF hs
  <2>2. PICK h : IsSum(hs, h) /\ Expected(hs) = h[Len(hs)]
    BY <2>1, SumDef
  <2>3. Len(gs) \in Nat /\ k \in Nat /\ k <= Len(gs)
    OBVIOUS
  <2>4. h[Len(hs)] = f[Len(hs)]
    BY <1>1, <2>1, <2>2, <2>3, SumsAgree
  <2> QED BY <2>1, <2>2, <2>4 DEF hs
<1> QED BY <1>1, <1>2

-----------------------------------------------------------------------------
(* The answers of all operations, up to a place of the arguments. *)
IsFlat(args, acks, f) ==
  /\ f[0] = <<>> /\ \A i \in 0..Len(args) : f[i] \in Seq(BOOLEAN)
  /\ \A i \in 1..Len(args) :
        f[i] = IF i \in Operations(args) THEN f[i - 1] \o acks[i] ELSE f[i - 1]

LEMMA FlatDef ==
  ASSUME NEW args, Len(args) \in Nat, NEW acks, \A i \in Operations(args) : acks[i] \in Seq(BOOLEAN)
  PROVE  \E f : IsFlat(args, acks, f) /\ Flat(args, acks) = f[Len(args)]
<1> DEFINE n == Len(args)
           D == 0..n
           S == Seq(BOOLEAN)
           depth == [i \in D |-> i]
           Next(h, i) == IF i = 0 THEN <<>>
                         ELSE IF i \in Operations(args) THEN h[i - 1] \o acks[i] ELSE h[i - 1]
           F == [x \in D \X [D -> S] |-> Next(x[2], x[1])]
<1>1. depth \in [D -> Nat] /\ \A i \in D : depth[i] < n + 1 /\ depth[i] = i
  OBVIOUS
<1>2. ASSUME NEW i \in D, NEW h \in [D -> S] PROVE F[<<i, h>>] = Next(h, i) /\ F[<<i, h>>] \in S
  <2>1. <<i, h>> \in D \X [D -> S] /\ <<i, h>>[1] = i /\ <<i, h>>[2] = h
    OBVIOUS
  <2>2. F[<<i, h>>] = Next(h, i)
    BY <2>1
  <2>3. i # 0 => h[i - 1] \in S
    <3>1. i # 0 => i - 1 \in D
      OBVIOUS
    <3> QED BY <3>1
  <2>4. Next(h, i) \in S
    BY <2>3
  <2> QED BY <2>2, <2>4
<1>3. F \in [D \X [D -> S] -> S]
  <2>1. F = [x \in D \X [D -> S] |-> F[x]]
    OBVIOUS
  <2>2. \A x \in D \X [D -> S] : x = <<x[1], x[2]>> /\ x[1] \in D /\ x[2] \in [D -> S]
    OBVIOUS
  <2> HIDE DEF F, D, S
  <2>3. \A x \in D \X [D -> S] : F[x] \in S
    BY <1>2, <2>2
  <2> QED BY <2>1, <2>3
<1>4. \A i \in D, h, g \in [D -> S] :
         (\A j \in D : depth[j] < depth[i] => h[j] = g[j]) => F[<<i, h>>] = F[<<i, g>>]
  <2> SUFFICES ASSUME NEW i \in D, NEW h \in [D -> S], NEW g \in [D -> S],
                      \A j \in D : depth[j] < depth[i] => h[j] = g[j]
               PROVE  F[<<i, h>>] = F[<<i, g>>]
    OBVIOUS
  <2>1. i # 0 => i - 1 \in D /\ i - 1 < i
    OBVIOUS
  <2> HIDE DEF F, depth, S
  <2>2. i # 0 => h[i - 1] = g[i - 1]
    BY <1>1, <2>1
  <2>3. Next(h, i) = Next(g, i)
    BY <2>2
  <2> QED BY <1>2, <2>3
<1>5. <<>> \in S
  OBVIOUS
<1> HIDE DEF F, depth, D, S, Next
<1>6. \E h \in [D -> S] : \A i \in D : h[i] = F[<<i, h>>]
  <2>1. Founded(D, S, F, depth, n + 1)
    <3>1. S # {} /\ n + 1 \in Nat /\ \A i \in D : depth[i] < n + 1
      BY <1>1, <1>5
    <3> QED BY <1>1, <1>3, <1>4, <3>1 DEF Founded
  <2> QED BY <2>1, Recursion
<1>7. PICK h \in [D -> S] : \A i \in D : h[i] = Next(h, i)
  BY <1>2, <1>6
<1> DEFINE G(f) == f = [i \in 0..Len(args) |->
                          IF i = 0 THEN <<>>
                          ELSE IF i \in Operations(args) THEN f[i - 1] \o acks[i] ELSE f[i - 1]]
           c == CHOOSE f : G(f)
<1>8. G(h)
  BY <1>7 DEF Next, D
<1>9. G(c) /\ Flat(args, acks) = c[n]
  <2>1. G(c)
    <3> HIDE DEF G
    <3> QED BY <1>8
  <2> QED BY <2>1 DEF Flat
<1> HIDE DEF c
<1>10. /\ c[0] = <<>>
       /\ \A i \in 1..n : c[i] = IF i \in Operations(args) THEN c[i - 1] \o acks[i] ELSE c[i - 1]
  <2>1. \A i \in 0..Len(args) :
           c[i] = IF i = 0 THEN <<>>
                  ELSE IF i \in Operations(args) THEN c[i - 1] \o acks[i] ELSE c[i - 1]
    BY <1>9, Zenon
  <2>2. 0 \in 0..Len(args) /\ \A i \in 1..n : i \in 0..Len(args) /\ i # 0
    OBVIOUS
  <2> QED BY <2>1, <2>2, Zenon
<1> HIDE DEF G
<1> DEFINE P == {k \in Nat : k <= n => c[k] \in S}
<1>11. 0 \in P /\ \A k \in Nat : k \in P => k + 1 \in P
  <2> SUFFICES ASSUME NEW k \in Nat, k \in P, k + 1 <= n PROVE c[k + 1] \in S
    BY <1>5, <1>10
  <2>1. k + 1 \in 1..n /\ (k + 1) - 1 = k /\ c[k] \in S
    OBVIOUS
  <2>2. c[k + 1] = IF k + 1 \in Operations(args) THEN c[k] \o acks[k + 1] ELSE c[k]
    BY <1>10, <2>1
  <2>3. CASE k + 1 \in Operations(args)
    <3>1. c[k] \in Seq(BOOLEAN) /\ acks[k + 1] \in Seq(BOOLEAN)
      BY <2>1, <2>3 DEF S
    <3>2. c[k] \o acks[k + 1] \in Seq(BOOLEAN)
      BY <3>1
    <3> QED BY <2>2, <2>3, <3>2 DEF S
  <2> QED BY <2>1, <2>2, <2>3
<1>12. Nat \subseteq P
  <2> HIDE DEF P
  <2> QED BY <1>11, SetInduction
<1>13. \A i \in 0..n : c[i] \in S
  BY <1>12
<1> QED BY <1>9, <1>10, <1>13 DEF IsFlat, S

-----------------------------------------------------------------------------
(* Places in the arguments, and the two functions that walk them.          *)
Places(args) == 1..(Len(args) + 1)
EndsAt(args, e, i) == IF i > Len(args) \/ args[i] # "-z" THEN i ELSE e[SkipValue(args, i)]
CountAt(args, i) == IF i < Len(args) THEN ResponseCount(args[i + 1]) ELSE Indeterminate
GroupsAt(args, g, i) ==
  IF i > Len(args) THEN <<>>
  ELSE IF args[i] = "-z" THEN <<1>> \o g[EndFrom(args)[i]]
  ELSE IF args[i] \in {"-e", "-d"} THEN <<CountAt(args, i)>> \o g[SkipValue(args, i)]
  ELSE g[i + 1]

LEMMA SkipFacts ==
  ASSUME NEW args, Len(args) \in Nat, NEW i \in 1..Len(args)
  PROVE  /\ SkipValue(args, i) \in Places(args) /\ SkipValue(args, i) > i
         /\ i < Len(args) => SkipValue(args, i) = i + 2
         /\ i = Len(args) => SkipValue(args, i) = i + 1
BY DEF SkipValue, Places

LEMMA EndFromDef ==
  ASSUME NEW args, Len(args) \in Nat
  PROVE  \A i \in Places(args) : EndFrom(args)[i] = EndsAt(args, EndFrom(args), i)
<1> DEFINE n == Len(args)
           D == Places(args)
           depth == [i \in D |-> n + 1 - i]
           F == [x \in D \X [D -> D] |-> EndsAt(args, x[2], x[1])]
<1>1. depth \in [D -> Nat] /\ \A i \in D : depth[i] < n + 1 /\ depth[i] = n + 1 - i
  BY DEF Places
<1>2. ASSUME NEW i \in D, NEW h \in [D -> D]
      PROVE  F[<<i, h>>] = EndsAt(args, h, i) /\ F[<<i, h>>] \in D
  <2>1. <<i, h>> \in D \X [D -> D] /\ <<i, h>>[1] = i /\ <<i, h>>[2] = h
    OBVIOUS
  <2>2. F[<<i, h>>] = EndsAt(args, h, i)
    BY <2>1
  <2>3. i <= Len(args) => SkipValue(args, i) \in D
    BY SkipFacts DEF Places
  <2>4. EndsAt(args, h, i) \in D
    BY <2>3 DEF EndsAt, Places
  <2> QED BY <2>2, <2>4
<1>3. F \in [D \X [D -> D] -> D]
  <2>1. F = [x \in D \X [D -> D] |-> F[x]]
    OBVIOUS
  <2>2. \A x \in D \X [D -> D] : x = <<x[1], x[2]>> /\ x[1] \in D /\ x[2] \in [D -> D]
    OBVIOUS
  <2> HIDE DEF F, D
  <2>3. \A x \in D \X [D -> D] : F[x] \in D
    BY <1>2, <2>2
  <2> QED BY <2>1, <2>3
<1>4. \A i \in D, h, g \in [D -> D] :
         (\A j \in D : depth[j] < depth[i] => h[j] = g[j]) => F[<<i, h>>] = F[<<i, g>>]
  <2> SUFFICES ASSUME NEW i \in D, NEW h \in [D -> D], NEW g \in [D -> D],
                      \A j \in D : depth[j] < depth[i] => h[j] = g[j]
               PROVE  F[<<i, h>>] = F[<<i, g>>]
    OBVIOUS
  <2>1. i <= n => SkipValue(args, i) \in D /\ n + 1 - SkipValue(args, i) < n + 1 - i
    <3> SUFFICES ASSUME i <= n PROVE SkipValue(args, i) \in D /\ n + 1 - SkipValue(args, i) < n + 1 - i
      OBVIOUS
    <3>1. i \in 1..n /\ SkipValue(args, i) \in D /\ SkipValue(args, i) > i
      BY SkipFacts DEF Places
    <3> QED BY <3>1 DEF Places
  <2> HIDE DEF F, depth, D
  <2>2. i <= n => h[SkipValue(args, i)] = g[SkipValue(args, i)]
    BY <1>1, <2>1
  <2>3. EndsAt(args, h, i) = EndsAt(args, g, i)
    <3>1. i > n \/ i <= n
      BY DEF D, Places
    <3> QED BY <2>2, <3>1 DEF EndsAt
  <2> QED BY <1>2, <2>3
<1> HIDE DEF F, depth, D
<1>6. \E h \in [D -> D] : \A i \in D : h[i] = F[<<i, h>>]
  <2>1. Founded(D, D, F, depth, n + 1)
    <3>1. D # {} /\ n + 1 \in Nat /\ \A i \in D : depth[i] < n + 1
      BY <1>1 DEF D, Places
    <3> QED BY <1>1, <1>3, <1>4, <3>1 DEF Founded
  <2> QED BY <2>1, Recursion
<1>7. PICK h \in [D -> D] : \A i \in D : h[i] = EndsAt(args, h, i)
  BY <1>2, <1>6
<1> DEFINE G(f) == f = [i \in 1..(Len(args) + 1) |->
                          IF i > Len(args) \/ args[i] # "-z" THEN i ELSE f[SkipValue(args, i)]]
           c == CHOOSE f : G(f)
<1>8. G(h)
  BY <1>7 DEF EndsAt, D, Places
<1>9. G(c) /\ EndFrom(args) = c
  <2>1. G(c)
    <3> HIDE DEF G
    <3> QED BY <1>8
  <2> QED BY <2>1 DEF EndFrom
<1> HIDE DEF c
<1> QED BY <1>9, Zenon DEF EndsAt, Places

LEMMA GroupsFromDef ==
  ASSUME NEW args, Len(args) \in Nat, \A i \in 1..Len(args) : args[i] = "-z" =>
           EndFrom(args)[i] \in Places(args) /\ EndFrom(args)[i] > i
  PROVE  \A i \in Places(args) : GroupsFrom(args)[i] = GroupsAt(args, GroupsFrom(args), i)
<1> DEFINE n == Len(args)
           D == Places(args)
           S == Seq(Counts)
           depth == [i \in D |-> n + 1 - i]
           F == [x \in D \X [D -> S] |-> GroupsAt(args, x[2], x[1])]
<1>1. depth \in [D -> Nat] /\ \A i \in D : depth[i] < n + 1 /\ depth[i] = n + 1 - i
  BY DEF Places
<1>2. ASSUME NEW i \in D, NEW h \in [D -> S]
      PROVE  F[<<i, h>>] = GroupsAt(args, h, i) /\ F[<<i, h>>] \in S
  <2>1. <<i, h>> \in D \X [D -> S] /\ <<i, h>>[1] = i /\ <<i, h>>[2] = h
    OBVIOUS
  <2>2. F[<<i, h>>] = GroupsAt(args, h, i)
    BY <2>1
  <2>3. i <= n => /\ i + 1 \in D /\ SkipValue(args, i) \in D
                  /\ args[i] = "-z" => EndFrom(args)[i] \in D
    BY SkipFacts DEF Places
  <2>4. CountAt(args, i) \in Counts /\ 1 \in Counts
    BY CountsAre DEF CountAt, ResponseCount, Counts
  <2>5. \A q \in S : <<1>> \o q \in S /\ <<CountAt(args, i)>> \o q \in S
    <3> HIDE DEF Counts
    <3> TAKE q \in S
    <3>1. <<1>> \in Seq(Counts) /\ <<CountAt(args, i)>> \in Seq(Counts)
      BY <2>4
    <3>2. \A p \in Seq(Counts) : p \o q \in Seq(Counts)
      OBVIOUS
    <3> QED BY <3>1, <3>2
  <2>6. <<>> \in S
    OBVIOUS
  <2>7. GroupsAt(args, h, i) \in S
    <3>1. CASE i > n
      BY <2>6, <3>1 DEF GroupsAt
    <3>2. CASE i <= n /\ args[i] = "-z"
      <4>1. h[EndFrom(args)[i]] \in S
        BY <2>3, <3>2
      <4>2. GroupsAt(args, h, i) = <<1>> \o h[EndFrom(args)[i]]
        BY <3>2 DEF GroupsAt, Places
      <4> HIDE DEF S
      <4> QED BY <2>5, <4>1, <4>2
    <3>3. CASE i <= n /\ args[i] # "-z" /\ args[i] \in {"-e", "-d"}
      <4>1. h[SkipValue(args, i)] \in S
        BY <2>3, <3>3
      <4>2. GroupsAt(args, h, i) = <<CountAt(args, i)>> \o h[SkipValue(args, i)]
        BY <3>3 DEF GroupsAt, Places
      <4> HIDE DEF S
      <4> QED BY <2>5, <4>1, <4>2
    <3>4. CASE i <= n /\ args[i] # "-z" /\ args[i] \notin {"-e", "-d"}
      BY <2>3, <3>4 DEF GroupsAt, Places
    <3> QED BY <3>1, <3>2, <3>3, <3>4 DEF Places
  <2> QED BY <2>2, <2>7
<1>3. F \in [D \X [D -> S] -> S]
  <2>1. F = [x \in D \X [D -> S] |-> F[x]]
    OBVIOUS
  <2>2. \A x \in D \X [D -> S] : x = <<x[1], x[2]>> /\ x[1] \in D /\ x[2] \in [D -> S]
    OBVIOUS
  <2> HIDE DEF F, D, S
  <2>3. \A x \in D \X [D -> S] : F[x] \in S
    BY <1>2, <2>2
  <2> QED BY <2>1, <2>3
<1>4. \A i \in D, h, g \in [D -> S] :
         (\A j \in D : depth[j] < depth[i] => h[j] = g[j]) => F[<<i, h>>] = F[<<i, g>>]
  <2> SUFFICES ASSUME NEW i \in D, NEW h \in [D -> S], NEW g \in [D -> S],
                      \A j \in D : depth[j] < depth[i] => h[j] = g[j]
               PROVE  F[<<i, h>>] = F[<<i, g>>]
    OBVIOUS
  <2>1. \A j \in D : j > i => h[j] = g[j]
    <3> SUFFICES ASSUME NEW j \in D, j > i PROVE depth[j] < depth[i]
      OBVIOUS
    <3>1. i \in Nat /\ j \in Nat /\ n + 1 - j < n + 1 - i
      BY DEF Places
    <3> HIDE DEF depth
    <3> QED BY <1>1, <3>1
  <2>2. i <= n => /\ i + 1 \in D /\ i + 1 > i /\ SkipValue(args, i) \in D /\ SkipValue(args, i) > i
                  /\ args[i] = "-z" => EndFrom(args)[i] \in D /\ EndFrom(args)[i] > i
    BY SkipFacts DEF Places
  <2> HIDE DEF F, depth, D, S
  <2>3. i <= n => /\ h[i + 1] = g[i + 1] /\ h[SkipValue(args, i)] = g[SkipValue(args, i)]
                  /\ args[i] = "-z" => h[EndFrom(args)[i]] = g[EndFrom(args)[i]]
    BY <2>1, <2>2
  <2>4. GroupsAt(args, h, i) = GroupsAt(args, g, i)
    <3>1. i > n \/ i <= n
      BY DEF D, Places
    <3> QED BY <2>3, <3>1 DEF GroupsAt
  <2> QED BY <1>2, <2>4
<1>5. <<>> \in S
  OBVIOUS
<1> HIDE DEF F, depth, D, S
<1>6. \E h \in [D -> S] : \A i \in D : h[i] = F[<<i, h>>]
  <2>1. Founded(D, S, F, depth, n + 1)
    <3>1. S # {} /\ n + 1 \in Nat /\ \A i \in D : depth[i] < n + 1
      BY <1>1, <1>5
    <3> QED BY <1>1, <1>3, <1>4, <3>1 DEF Founded
  <2> QED BY <2>1, Recursion
<1>7. PICK h \in [D -> S] : \A i \in D : h[i] = GroupsAt(args, h, i)
  BY <1>2, <1>6
<1> DEFINE G(f) == f = [i \in 1..(Len(args) + 1) |->
                 IF i > Len(args) THEN <<>>
                 ELSE IF args[i] = "-z" THEN <<1>> \o f[EndFrom(args)[i]]
                 ELSE IF args[i] \in {"-e", "-d"}
                 THEN <<IF i < Len(args) THEN ResponseCount(args[i + 1]) ELSE Indeterminate>>
                      \o f[SkipValue(args, i)]
                 ELSE f[i + 1]]
           c == CHOOSE f : G(f)
<1>8. G(h)
  BY <1>7 DEF GroupsAt, CountAt, D, Places
<1>9. G(c) /\ GroupsFrom(args) = c
  <2>1. G(c)
    <3> HIDE DEF G
    <3> QED BY <1>8
  <2> QED BY <2>1 DEF GroupsFrom
<1> HIDE DEF c
<1> QED BY <1>9, Zenon DEF GroupsAt, CountAt, Places

-----------------------------------------------------------------------------
(* The run of -z from a place on: it ends at the next argument that is     *)
(* none, its values are no flags, and the others in it continue the first. *)
Continues(args, j) == j > 2 /\ args[j - 2] = "-z"
RunShape(args, i) ==
  LET e == EndFrom(args)[i]
  IN  /\ e \in i..(Len(args) + 1) /\ (i <= Len(args) /\ args[i] = "-z" => e > i)
      /\ e <= Len(args) => args[e] # "-z"
      /\ e > i /\ e <= Len(args) => args[e - 1] \notin Flags
      /\ \A j \in i..(e - 1) : args[j] \in Flags =>
            args[j] = "-z" /\ (j = i \/ Continues(args, j))

LEMMA RunEnds ==
  ASSUME NEW args, IsCommand(args)
  PROVE  \A i \in Places(args) : RunShape(args, i)
<1> DEFINE n == Len(args)
           e(i) == EndFrom(args)[i]
           P == {k \in Nat : \A i \in Places(args) : n + 1 - i <= k => RunShape(args, i)}
<1>0. n \in Nat /\ \A i \in 1..(n - 1) : args[i] \in Flags => args[i + 1] \notin Flags
  BY DEF IsCommand
<1>1. \A i \in Places(args) : EndFrom(args)[i] = EndsAt(args, EndFrom(args), i)
  BY <1>0, EndFromDef
<1>2. ASSUME NEW i \in Places(args), i > n \/ args[i] # "-z" PROVE RunShape(args, i)
  <2>1. e(i) = i
    BY <1>1, <1>2 DEF EndsAt
  <2>2. i \in 1..(n + 1)
    BY DEF Places
  <2> QED BY <1>0, <1>2, <2>1, <2>2 DEF RunShape
<1>3. 0 \in P
  <2>1. ASSUME NEW i \in Places(args), n + 1 - i <= 0 PROVE i > n
    BY <1>0, <2>1 DEF Places
  <2> QED BY <1>2, <2>1
<1>4. ASSUME NEW k \in Nat, k \in P PROVE k + 1 \in P
  <2> SUFFICES ASSUME NEW i \in Places(args), n + 1 - i <= k + 1, i <= n, args[i] = "-z"
               PROVE  RunShape(args, i)
    <3>1. \A i \in Places(args) : i <= n \/ i > n
      BY <1>0 DEF Places
    <3> QED BY <1>2, <3>1
  <2> DEFINE s == SkipValue(args, i)
  <2>1. i \in 1..n
    BY <1>0 DEF Places
  <2>2. e(i) = EndFrom(args)[s]
    BY <1>0, <1>1, <2>1 DEF EndsAt
  <2>3. CASE i = n
    <3>1. s = n + 1 /\ s \in Places(args)
      BY <1>0, <2>1, <2>3, SkipFacts
    <3>2. EndFrom(args)[n + 1] = n + 1
      BY <1>0, <1>1, <3>1 DEF EndsAt
    <3>3. i..(n + 1 - 1) = {i}
      BY <1>0, <2>1, <2>3
    <3> QED BY <1>0, <2>1, <2>2, <2>3, <3>1, <3>2, <3>3 DEF RunShape
  <2>4. CASE i < n
    <3>1. s = i + 2 /\ s \in Places(args)
      BY <1>0, <2>1, <2>4, SkipFacts
    <3>2. RunShape(args, i + 2)
      <4>1. n + 1 - (i + 2) <= k
        BY <1>0, <2>1
      <4> QED BY <1>4, <3>1, <4>1
    <3>3. args[i] \in Flags /\ args[i + 1] \notin Flags
      BY <1>0, <2>1, <2>4 DEF Flags
    <3>4. e(i) \in (i + 2)..(n + 1) /\ e(i) = EndFrom(args)[i + 2]
      BY <2>2, <3>1, <3>2 DEF RunShape
    <3>5. ASSUME NEW j \in i..(e(i) - 1), args[j] \in Flags
          PROVE  args[j] = "-z" /\ (j = i \/ Continues(args, j))
      <4>1. j = i \/ j = i + 1 \/ j \in (i + 2)..(e(i) - 1)
        BY <1>0, <2>1, <3>4
      <4>2. CASE j \in (i + 2)..(e(i) - 1)
        <5>1. args[j] = "-z" /\ (j = i + 2 \/ Continues(args, j))
          BY <3>2, <3>4, <3>5, <4>2 DEF RunShape
        <5>2. j = i + 2 => Continues(args, j)
          BY <2>1 DEF Continues
        <5> QED BY <5>1, <5>2
      <4> QED BY <3>3, <3>5, <4>1, <4>2
    <3>6. e(i) <= n => args[e(i)] # "-z" /\ args[e(i) - 1] \notin Flags
      <4>1. e(i) = i + 2 \/ e(i) > i + 2
        BY <1>0, <2>1, <3>4
      <4>2. CASE e(i) = i + 2
        <5>1. e(i) - 1 = i + 1
          BY <2>1, <4>2
        <5> QED BY <3>2, <3>3, <3>4, <5>1 DEF RunShape
      <4>3. CASE e(i) > i + 2
        BY <3>2, <3>4, <4>3 DEF RunShape
      <4> QED BY <4>1, <4>2, <4>3
    <3>7. e(i) \in i..(n + 1) /\ e(i) > i
      BY <1>0, <2>1, <3>4
    <3> QED BY <3>5, <3>6, <3>7 DEF RunShape
  <2> QED BY <1>0, <2>1, <2>3, <2>4
<1> HIDE DEF P
<1>5. Nat \subseteq P
  BY <1>3, <1>4, SetInduction
<1>6. \A i \in Places(args) : n + 1 - i \in Nat
  BY <1>0 DEF Places
<1> QED BY <1>5, <1>6 DEF P

-----------------------------------------------------------------------------
(* gs are the answers to the operations at the places T, in their order.   *)
Enumerates(args, gs, T, o) ==
  /\ o \in [1..Len(gs) -> T] /\ \A t \in T : \E k \in 1..Len(gs) : o[k] = t
  /\ \A j, k \in 1..Len(gs) : j < k => o[j] < o[k]
  /\ \A k \in 1..Len(gs) : gs[k] = Answers(args, o[k])
Counted(args, gs, T) == gs \in Seq(Counts) /\ \E o : Enumerates(args, gs, T, o)

LEMMA NoneCounted ==
  ASSUME NEW args
  PROVE  Counted(args, <<>>, {})
<1>1. <<>> \in Seq(Counts) /\ Len(<<>>) = 0
  OBVIOUS
<1>2. Enumerates(args, <<>>, {}, [k \in 1..0 |-> 0])
  BY <1>1 DEF Enumerates
<1> QED BY <1>1, <1>2 DEF Counted

LEMMA OneMoreCounted ==
  ASSUME NEW args, NEW gs, NEW T, T \subseteq Nat, Counted(args, gs, T), NEW i \in Nat,
         \A t \in T : i < t, NEW c \in Counts, c = Answers(args, i)
  PROVE  Counted(args, <<c>> \o gs, {i} \cup T)
<1>0. gs \in Seq(Counts) /\ Len(gs) \in Nat
  BY DEF Counted
<1>1. PICK o : Enumerates(args, gs, T, o)
  BY DEF Counted
<1> DEFINE hs == <<c>> \o gs
           p == [k \in 1..(Len(gs) + 1) |-> IF k = 1 THEN i ELSE o[k - 1]]
<1>2. /\ hs \in Seq(Counts) /\ Len(hs) = Len(gs) + 1 /\ hs[1] = c
      /\ \A k \in 2..(Len(gs) + 1) : hs[k] = gs[k - 1]
  <2>1. <<c>> \in Seq(Counts) /\ Len(<<c>>) = 1 /\ <<c>>[1] = c
    OBVIOUS
  <2> QED BY <1>0, <2>1
<1> HIDE DEF hs
<1>3. \A k \in 1..(Len(gs) + 1) : k = 1 \/ (k \in 2..(Len(gs) + 1) /\ k - 1 \in 1..Len(gs))
  BY <1>0
<1>4. \A k \in 2..(Len(gs) + 1) : p[k] = o[k - 1] /\ p[k] \in T
  BY <1>0, <1>1 DEF Enumerates
<1>5. p[1] = i /\ p \in [1..Len(hs) -> {i} \cup T]
  <2>1. p[1] = i /\ DOMAIN p = 1..Len(hs) /\ p = [k \in DOMAIN p |-> p[k]]
    BY <1>0, <1>2
  <2> HIDE DEF p
  <2> QED BY <1>2, <1>3, <1>4, <2>1
<1>6. ASSUME NEW t \in {i} \cup T PROVE \E k \in 1..Len(hs) : p[k] = t
  <2>1. CASE t = i
    BY <1>0, <1>2, <1>5, <2>1
  <2>2. CASE t \in T
    <3>1. PICK k \in 1..Len(gs) : o[k] = t
      BY <1>1, <2>2 DEF Enumerates
    <3>2. k + 1 \in 1..Len(hs) /\ k + 1 \in 2..(Len(gs) + 1) /\ (k + 1) - 1 = k
      BY <1>0, <1>2
    <3> QED BY <1>4, <3>1, <3>2
  <2> QED BY <2>1, <2>2
<1>7. ASSUME NEW j \in 1..Len(hs), NEW k \in 1..Len(hs), j < k PROVE p[j] < p[k]
  <2>1. k \in 2..(Len(gs) + 1) /\ k - 1 \in 1..Len(gs)
    BY <1>0, <1>2, <1>7
  <2>2. CASE j = 1
    BY <1>4, <1>5, <2>1, <2>2
  <2>3. CASE j # 1
    <3>1. j \in 2..(Len(gs) + 1) /\ j - 1 \in 1..Len(gs) /\ j - 1 < k - 1
      BY <1>0, <1>2, <1>7, <2>3
    <3>2. o[j - 1] < o[k - 1]
      BY <1>1, <2>1, <3>1 DEF Enumerates
    <3> QED BY <1>4, <2>1, <3>1, <3>2
  <2> QED BY <2>2, <2>3
<1>8. \A k \in 1..Len(hs) : hs[k] = Answers(args, p[k])
  <2> TAKE k \in 1..Len(hs)
  <2>1. CASE k = 1
    BY <1>2, <1>5, <2>1
  <2>2. CASE k \in 2..(Len(gs) + 1) /\ k - 1 \in 1..Len(gs)
    BY <1>1, <1>2, <1>4, <2>2 DEF Enumerates
  <2> QED BY <1>2, <1>3, <2>1, <2>2
<1> HIDE DEF p
<1>9. Enumerates(args, hs, {i} \cup T, p)
  BY <1>5, <1>6, <1>7, <1>8 DEF Enumerates
<1>10. Counted(args, hs, {i} \cup T)
  BY <1>2, <1>9 DEF Counted
<1> QED BY <1>10 DEF hs

-----------------------------------------------------------------------------
(* ackCommandGroups counts every operation once and in order: a place that *)
(* the walk reaches is no value, nor within a run of -z.                    *)
FlagOps(args) ==
  {i \in 1..Len(args) : \/ args[i] \in {"-e", "-d"}
                        \/ args[i] = "-z" /\ ~Continues(args, i)}
From(args, p) == {i \in FlagOps(args) : i >= p}
Reached(args, p) ==
  p <= Len(args) => /\ p > 1 => args[p - 1] \notin Flags
                    /\ args[p] = "-z" => ~Continues(args, p)

LEMMA GroupsCounted ==
  ASSUME NEW args, IsCommand(args)
  PROVE  \A p \in Places(args) : Reached(args, p) => Counted(args, GroupsFrom(args)[p], From(args, p))
<1> DEFINE n == Len(args)
           gs(p) == GroupsFrom(args)[p]
           Good(p) == Reached(args, p) => Counted(args, gs(p), From(args, p))
           P == {k \in Nat : \A p \in Places(args) : n + 1 - p <= k => Good(p)}
<1>0. n \in Nat /\ \A i \in 1..(n - 1) : args[i] \in Flags => args[i + 1] \notin Flags
  BY DEF IsCommand
<1>1. \A i \in 1..n : args[i] = "-z" => EndFrom(args)[i] \in Places(args) /\ EndFrom(args)[i] > i
  BY <1>0, RunEnds DEF RunShape, Places
<1>2. \A i \in Places(args) : gs(i) = GroupsAt(args, GroupsFrom(args), i)
  BY <1>0, <1>1, GroupsFromDef
<1>3. ASSUME NEW p \in Places(args), p > n PROVE Good(p)
  <2>1. gs(p) = <<>>
    BY <1>2, <1>3 DEF GroupsAt
  <2>2. From(args, p) = {}
    BY <1>0, <1>3 DEF From, FlagOps, Places
  <2> QED BY <2>1, <2>2, NoneCounted
<1>4. ASSUME NEW p \in 1..n, Reached(args, p), NEW q \in Places(args), q > p,
             Good(q), Reached(args, q), p \in FlagOps(args),
             \A j \in p..(q - 1) : j \in FlagOps(args) => j = p,
             NEW c \in Counts, c = Answers(args, p), gs(p) = <<c>> \o gs(q)
      PROVE  Good(p)
  <2>1. From(args, p) = {p} \cup From(args, q)
    BY <1>0, <1>4 DEF From, FlagOps, Places
  <2>2. From(args, q) \subseteq Nat /\ \A t \in From(args, q) : p < t
    BY <1>0, <1>4 DEF From, FlagOps, Places
  <2>3. Counted(args, gs(q), From(args, q))
    BY <1>4
  <2> HIDE DEF gs
  <2>4. Counted(args, <<c>> \o gs(q), {p} \cup From(args, q))
    BY <1>4, <2>2, <2>3, OneMoreCounted
  <2> QED BY <1>4, <2>1, <2>4
<1>5. 0 \in P
  <2>1. \A p \in Places(args) : n + 1 - p <= 0 => p > n
    BY <1>0 DEF Places
  <2> QED BY <1>3, <2>1
<1>6. ASSUME NEW k \in Nat, k \in P PROVE k + 1 \in P
  <2> SUFFICES ASSUME NEW p \in Places(args), n + 1 - p <= k + 1, p <= n, Reached(args, p)
               PROVE  Good(p)
    <3>1. \A q \in Places(args) : q <= n \/ q > n
      BY <1>0 DEF Places
    <3> QED BY <1>3, <3>1
  <2>1. p \in 1..n
    BY <1>0 DEF Places
  <2>2. \A q \in Places(args) : q > p => Good(q)
    <3>1. \A q \in Places(args) : q > p => n + 1 - q <= k
      BY <1>0, <2>1 DEF Places
    <3> HIDE DEF Good
    <3> QED BY <1>6, <3>1
  <2>3. 1 \in Counts /\ CountAt(args, p) \in Counts
    BY DEF CountAt, ResponseCount, Counts
  <2>7. gs(p) = GroupsAt(args, GroupsFrom(args), p) /\ ~(p > n)
    BY <1>0, <1>2, <2>1
  <2>4. CASE args[p] = "-z"
    <3> DEFINE q == EndFrom(args)[p]
    <3>1. RunShape(args, p) /\ q \in Places(args) /\ q > p
      BY <1>1, <2>1, <2>4, RunEnds
    <3>2. gs(p) = <<1>> \o gs(q)
      BY <2>7, <2>4 DEF GroupsAt
    <3>3. p \in FlagOps(args) /\ Answers(args, p) = 1
      BY <2>1, <2>4 DEF FlagOps, Reached, Answers
    <3>4. \A j \in p..(q - 1) : j \in FlagOps(args) => j = p
      BY <3>1 DEF RunShape, FlagOps, Flags
    <3>5. Reached(args, q)
      <4>1. q <= n => args[q - 1] \notin Flags /\ args[q] # "-z"
        BY <3>1 DEF RunShape
      <4> HIDE DEF q
      <4> QED BY <4>1 DEF Reached
    <3> HIDE DEF Good, gs, q
    <3> QED BY <1>4, <2>1, <2>2, <2>3, <3>1, <3>2, <3>3, <3>4, <3>5
  <2>5. CASE args[p] \in {"-e", "-d"}
    <3> DEFINE q == SkipValue(args, p)
    <3>1. q \in Places(args) /\ q > p /\ (p < n => q = p + 2) /\ (p = n => q = p + 1)
      BY <1>0, <2>1, SkipFacts
    <3> HIDE DEF q
    <3>2. gs(p) = <<CountAt(args, p)>> \o gs(q)
      BY <2>7, <2>5 DEF GroupsAt, q
    <3>3. p \in FlagOps(args) /\ Answers(args, p) = CountAt(args, p)
      BY <2>1, <2>5 DEF FlagOps, Answers, CountAt
    <3>4. args[p] \in Flags /\ args[p] # "-z" /\ (p < n => args[p + 1] \notin Flags)
      BY <1>0, <2>1, <2>5 DEF Flags
    <3>5. \A j \in p..(q - 1) : j \in FlagOps(args) => j = p
      <4>1. \A j \in p..(q - 1) : j = p \/ (p < n /\ j = p + 1)
        BY <1>0, <2>1, <3>1
      <4> QED BY <3>4, <4>1 DEF FlagOps, Flags
    <3>6. Reached(args, q)
      <4> SUFFICES ASSUME q <= n PROVE args[q - 1] \notin Flags /\ ~Continues(args, q)
        BY DEF Reached
      <4>1. q = p + 2 /\ q - 1 = p + 1 /\ q - 2 = p /\ p < n
        BY <1>0, <2>1, <3>1
      <4> QED BY <3>4, <4>1 DEF Continues
    <3> HIDE DEF Good, gs
    <3> QED BY <1>4, <2>1, <2>2, <2>3, <3>1, <3>2, <3>3, <3>5, <3>6
  <2>6. CASE args[p] \notin Flags
    <3>1. p + 1 \in Places(args) /\ p + 1 > p
      BY <1>0, <2>1 DEF Places
    <3>2. gs(p) = gs(p + 1)
      BY <2>7, <2>6 DEF GroupsAt, Flags
    <3>3. From(args, p) = From(args, p + 1)
      BY <1>0, <2>1, <2>6 DEF From, FlagOps, Flags
    <3>4. Reached(args, p + 1)
      <4> SUFFICES ASSUME p + 1 <= n
                   PROVE  args[(p + 1) - 1] \notin Flags /\ ~Continues(args, p + 1)
        BY DEF Reached
      <4>1. (p + 1) - 1 = p /\ (p + 1) - 2 = p - 1
        BY <2>1
      <4>2. p > 1 => args[p - 1] # "-z"
        BY <2>1 DEF Reached, Flags
      <4> QED BY <2>1, <2>6, <4>1, <4>2 DEF Continues
    <3> QED BY <2>2, <3>1, <3>2, <3>3, <3>4
  <2> QED BY <2>4, <2>5, <2>6 DEF Flags
<1> HIDE DEF P, Good
<1>7. Nat \subseteq P
  BY <1>5, <1>6, SetInduction
<1>8. \A p \in Places(args) : n + 1 - p \in Nat
  BY <1>0 DEF Places
<1>9. \A p \in Places(args) : Good(p)
  BY <1>7, <1>8 DEF P
<1> QED BY <1>9 DEF Good

(* Of a command that is run. *)
LEMMA AllCounted ==
  ASSUME NEW args, IsCommand(args), ackCommandGroups(args) # <<>>
  PROVE  Counted(args, ackCommandGroups(args), Operations(args)) /\ Operations(args) \subseteq 1..Len(args)
<1> DEFINE n == Len(args)
           gs == GroupsFrom(args)[1]
           saves == {i \in 1..n : args[i] = "SAVE"}
<1>0. n \in Nat
  BY DEF IsCommand
<1>1. Counted(args, gs, FlagOps(args))
  <2>1. 1 \in Places(args) /\ Reached(args, 1)
    BY <1>0 DEF Places, Reached, Continues
  <2>2. From(args, 1) = FlagOps(args)
    BY DEF From, FlagOps
  <2> QED BY <2>1, <2>2, GroupsCounted
<1>2. Operations(args) = IF FlagOps(args) = {} THEN saves ELSE FlagOps(args)
  BY Zenon DEF Operations, FlagOps, Continues
<1>3. Operations(args) \subseteq 1..n
  BY <1>2 DEF FlagOps
<1>4. gs = <<>> => FlagOps(args) = {}
  <2> SUFFICES ASSUME gs = <<>> PROVE FlagOps(args) = {}
    OBVIOUS
  <2>1. 1..Len(gs) = {}
    OBVIOUS
  <2> HIDE DEF gs
  <2> QED BY <1>1, <2>1 DEF Counted, Enumerates
<1>5. gs # <<>> => FlagOps(args) # {}
  <2> SUFFICES ASSUME gs # <<>> PROVE FlagOps(args) # {}
    OBVIOUS
  <2>1. gs \in Seq(Counts)
    BY <1>1 DEF Counted
  <2> HIDE DEF gs
  <2>2. 1 \in 1..Len(gs)
    BY <2>1
  <2> QED BY <1>1, <2>2 DEF Counted, Enumerates
<1>6. CASE gs # <<>>
  <2>1. ackCommandGroups(args) = gs
    BY <1>6 DEF ackCommandGroups
  <2> QED BY <1>1, <1>2, <1>3, <1>5, <1>6, <2>1
<1>7. CASE gs = <<>>
  <2>1. ackCommandGroups(args) = <<1>> /\ isSaveCommand(args)
    BY <1>7 DEF ackCommandGroups
  <2>2. PICK i \in 1..n : args[i] = "SAVE"
    BY <1>0, <2>1 DEF isSaveCommand
  <2>3. saves = {i}
    BY <2>2 DEF IsCommand
  <2>4. Operations(args) = {i} \cup {}
    BY <1>2, <1>4, <1>7, <2>3
  <2>5. Answers(args, i) = 1 /\ 1 \in Counts /\ <<1>> = <<1>> \o <<>>
    BY <2>2 DEF Answers, Counts
  <2>6. Counted(args, <<1>> \o <<>>, {i} \cup {})
    <3>1. Counted(args, <<>>, {}) /\ {} \subseteq Nat /\ i \in Nat /\ \A t \in {} : i < t
      BY NoneCounted
    <3> HIDE DEF Counted, Counts
    <3> QED BY <2>5, <3>1, OneMoreCounted, Zenon
  <2> QED BY <1>3, <2>1, <2>4, <2>5, <2>6
<1> QED BY <1>6, <1>7

-----------------------------------------------------------------------------
(* Where the answers to an operation are among all: e[k] is the number of  *)
(* answers to the first k operations.                                      *)
Adds(args, acks, o, n, e) ==
  /\ e[0] = 0 /\ \A k \in 0..n : e[k] \in Nat
  /\ \A k \in 1..n : e[k] = e[k - 1] + Len(acks[o[k]])
Placed(acks, o, e, s, k) ==
  /\ Len(s) = e[k]
  /\ \A j \in 1..k : /\ e[j] <= Len(s)
                     /\ \A x \in 1..Len(acks[o[j]]) : s[e[j - 1] + x] = acks[o[j]][x]

LEMMA AnswersPlaced ==
  ASSUME NEW args, Len(args) \in Nat, NEW acks, Operations(args) \subseteq 1..Len(args),
         \A i \in Operations(args) : acks[i] \in Seq(BOOLEAN),
         NEW gs \in Seq(Counts), NEW o, Enumerates(args, gs, Operations(args), o),
         NEW e, Adds(args, acks, o, Len(gs), e)
  PROVE  Flat(args, acks) \in Seq(BOOLEAN) /\ Placed(acks, o, e, Flat(args, acks), Len(gs))
<1> DEFINE n == Len(args)
           m == Len(gs)
           T == Operations(args)
<1>1. PICK f : IsFlat(args, acks, f) /\ Flat(args, acks) = f[n]
  BY FlatDef
<1> DEFINE Covers(i, k) == (k > 0 => o[k] <= i) /\ (k < m => i < o[k + 1])
           P == {i \in Nat : i <= n => \A k \in 0..m : Covers(i, k) => Placed(acks, o, e, f[i], k)}
<1>2. m \in Nat /\ \A k \in 1..m : o[k] \in T /\ o[k] \in 1..n
  BY DEF Enumerates
<1>3. 0 \in P
  <2> SUFFICES ASSUME NEW k \in 0..m, Covers(0, k) PROVE Placed(acks, o, e, f[0], k)
    OBVIOUS
  <2>1. k = 0
    BY <1>2
  <2>2. f[0] = <<>> /\ Len(<<>>) = 0 /\ e[0] = 0
    BY <1>1 DEF IsFlat, Adds
  <2> QED BY <2>1, <2>2 DEF Placed
<1>4. ASSUME NEW i \in Nat, i \in P PROVE i + 1 \in P
  <2> SUFFICES ASSUME i + 1 <= n, NEW k \in 0..m, Covers(i + 1, k)
               PROVE  Placed(acks, o, e, f[i + 1], k)
    OBVIOUS
  <2>1. i + 1 \in 1..n /\ (i + 1) - 1 = i /\ i \in 0..n
    OBVIOUS
  <2>2. f[i + 1] = IF i + 1 \in T THEN f[i] \o acks[i + 1] ELSE f[i]
    BY <1>1, <2>1 DEF IsFlat
  <2>3. \A j \in 0..m : Covers(i, j) => Placed(acks, o, e, f[i], j)
    BY <1>4
  <2>4. CASE i + 1 \notin T
    <3>1. k > 0 => o[k] # i + 1
      BY <1>2, <2>4
    <3>2. Covers(i, k)
      BY <1>2, <3>1
    <3> QED BY <2>2, <2>3, <2>4, <3>2
  <2>5. CASE i + 1 \in T
    <3>1. PICK j \in 1..m : o[j] = i + 1
      BY <2>5 DEF Enumerates
    <3>2. j = k
      <4>1. k \in Nat /\ j \in Nat /\ k <= m
        BY <1>2
      <4>2. ~(j < k)
        <5> SUFFICES ASSUME j < k PROVE FALSE
          OBVIOUS
        <5>1. k \in 1..m /\ o[j] < o[k] /\ o[k] <= i + 1
          BY <1>2, <4>1 DEF Enumerates
        <5> QED BY <1>2, <3>1, <5>1
      <4>3. ~(k < j)
        <5> SUFFICES ASSUME k < j PROVE FALSE
          OBVIOUS
        <5>1. k < m /\ k + 1 \in 1..m /\ i + 1 < o[k + 1] /\ (k + 1 = j \/ k + 1 < j)
          BY <1>2, <4>1
        <5>2. k + 1 < j => o[k + 1] < o[j]
          BY <5>1 DEF Enumerates
        <5> QED BY <1>2, <3>1, <5>1, <5>2
      <4> QED BY <4>1, <4>2, <4>3
    <3>3. k \in 1..m /\ k - 1 \in 0..m /\ (k - 1) + 1 = k /\ o[k] = i + 1
      BY <1>2, <3>1, <3>2
    <3>4. Covers(i, k - 1)
      <4>1. k - 1 > 0 => k - 1 \in 1..m /\ o[k - 1] < o[k]
        <5>1. k - 1 > 0 => k - 1 \in 1..m /\ k - 1 < k
          BY <1>2, <3>3
        <5> QED BY <3>3, <5>1 DEF Enumerates
      <4>2. k - 1 > 0 => o[k - 1] <= i
        BY <1>2, <3>3, <4>1
      <4>3. i < o[k]
        BY <3>3
      <4> QED BY <3>3, <4>2, <4>3
    <3>5. Placed(acks, o, e, f[i], k - 1)
      BY <2>3, <3>3, <3>4
    <3> DEFINE a == acks[o[k]]
               s == f[i]
    <3>6. s \in Seq(BOOLEAN) /\ a \in Seq(BOOLEAN) /\ f[i + 1] = s \o a
      BY <1>1, <2>1, <2>2, <2>5, <3>3 DEF IsFlat
    <3>7. Len(s) = e[k - 1] /\ e[k] = e[k - 1] + Len(a) /\ e[k - 1] \in Nat
      BY <3>3, <3>5 DEF Placed, Adds
    <3> HIDE DEF a, s
    <3>8. /\ Len(s \o a) = Len(s) + Len(a) /\ Len(a) \in Nat /\ Len(s) \in Nat
          /\ \A x \in 1..Len(s) : (s \o a)[x] = s[x]
          /\ \A x \in 1..Len(a) : (s \o a)[Len(s) + x] = a[x]
      BY <3>6
    <3>9. ASSUME NEW q \in 1..k
          PROVE  /\ e[q] <= Len(s \o a)
                 /\ \A x \in 1..Len(acks[o[q]]) : (s \o a)[e[q - 1] + x] = acks[o[q]][x]
      <4>1. CASE q = k
        <5>1. acks[o[q]] = a /\ e[q - 1] = Len(s) /\ e[q] = Len(s) + Len(a)
          BY <3>7, <4>1 DEF a
        <5> QED BY <3>8, <5>1
      <4>2. CASE q # k
        <5>1. q \in 1..(k - 1) /\ q \in 1..m /\ q - 1 \in 0..m /\ q \in 0..m
          BY <3>3, <4>2
        <5>2. e[q] <= Len(s) /\ \A x \in 1..Len(acks[o[q]]) : s[e[q - 1] + x] = acks[o[q]][x]
          BY <3>5, <5>1 DEF Placed, s
        <5>3. e[q] = e[q - 1] + Len(acks[o[q]]) /\ e[q - 1] \in Nat /\ e[q] \in Nat
          BY <5>1 DEF Adds
        <5>4. Len(acks[o[q]]) \in Nat
          BY <1>2, <5>1
        <5>5. ASSUME NEW x \in 1..Len(acks[o[q]]) PROVE e[q - 1] + x \in 1..Len(s)
          <6>1. PICK u \in Nat, w \in Nat : u = e[q - 1] /\ w = Len(acks[o[q]])
            BY <5>3, <5>4
          <6>2. x \in Nat /\ x >= 1 /\ x <= w /\ u + w <= Len(s)
            BY <5>2, <5>3, <6>1
          <6>3. Len(s) \in Nat
            BY <3>8
          <6>4. u + x \in 1..Len(s)
            BY <6>2, <6>3
          <6> QED BY <6>1, <6>4
        <5> QED BY <3>8, <5>2, <5>3, <5>5
      <4> QED BY <4>1, <4>2
    <3>10. Len(s \o a) = e[k]
      BY <3>7, <3>8
    <3> QED BY <3>6, <3>9, <3>10 DEF Placed
  <2> QED BY <2>4, <2>5
<1> HIDE DEF P
<1>5. Nat \subseteq P
  BY <1>3, <1>4, SetInduction
<1>6. n \in P /\ Covers(n, m)
  BY <1>2, <1>5
<1>7. Placed(acks, o, e, f[n], m)
  BY <1>2, <1>6 DEF P
<1> QED BY <1>1, <1>7 DEF IsFlat

-----------------------------------------------------------------------------
(* What Run makes of all answers is what the receiver did.                 *)
Begins(gs, k) == Expected(SubSeq(gs, 1, k - 1))
IsBad(gs, all, k) ==
  IF gs[k] = Indeterminate THEN \A i \in (Begins(gs, k) + 1)..Len(all) : ~all[i]
  ELSE Begins(gs, k) + gs[k] > Len(all)
       \/ \E i \in (Begins(gs, k) + 1)..(Begins(gs, k) + gs[k]) : ~all[i]
IsShort(gs, all, k) == gs[k] # Indeterminate /\ Begins(gs, k) + gs[k] > Len(all)

LEMMA ErrorOfBad ==
  ASSUME NEW gs, Len(gs) \in Nat, NEW all
  PROVE  /\ (\A k \in 1..Len(gs) : ~IsBad(gs, all, k)) => ackBatchError(gs, all) = "ok"
         /\ (\E k \in 1..Len(gs) : IsBad(gs, all, k)) /\ (\A k \in 1..Len(gs) : ~IsShort(gs, all, k))
              => ackBatchError(gs, all) = "nak"
<1> DEFINE bad == {k \in 1..Len(gs) : IsBad(gs, all, k)}
           first == CHOOSE x \in bad : \A y \in bad : x <= y
<1>1. ackBatchError(gs, all) =
        IF bad = {} THEN "ok" ELSE IF IsShort(gs, all, first) THEN "short" ELSE "nak"
  BY DEF ackBatchError, IsBad, IsShort, Begins
<1>2. bad # {} => first \in 1..Len(gs)
  <2> SUFFICES ASSUME bad # {} PROVE first \in 1..Len(gs)
    OBVIOUS
  <2>1. bad \subseteq Nat /\ bad \subseteq 1..Len(gs)
    OBVIOUS
  <2> HIDE DEF bad
  <2>2. \E x \in bad : \A y \in bad : x <= y
    BY <2>1, LeastNumber
  <2> QED BY <2>1, <2>2
<1> QED BY <1>1, <1>2

IsAnswered(args, acks) ==
  /\ IsCommand(args) /\ ackCommandGroups(args) # <<>> /\ validateAckCommandBatch(args)
  /\ \A i \in Operations(args) :
        /\ acks[i] \in Seq(BOOLEAN) /\ Len(acks[i]) >= 1
        /\ Answers(args, i) # Indeterminate => Len(acks[i]) = Answers(args, i)

LEMMA KnownVerdict ==
  ASSUME NEW args, NEW acks, IsAnswered(args, acks), ~HasIndeterminate(ackCommandGroups(args))
  PROVE  LET gs == ackCommandGroups(args)
             all == Flat(args, acks)
         IN  /\ all \in Seq(BOOLEAN) /\ Len(all) = Expected(gs)
             /\ ackBatchError(gs, all) = Verdict(args, acks)
<1> DEFINE gs == ackCommandGroups(args)
           all == Flat(args, acks)
           m == Len(gs)
           T == Operations(args)
<1>1. gs \in Seq(Counts) /\ T \subseteq 1..Len(args) /\ Len(args) \in Nat
  BY AllCounted DEF IsAnswered, IsCommand, Counted
<1>2. PICK o : Enumerates(args, gs, T, o)
  BY AllCounted DEF IsAnswered, Counted
<1>3. PICK e : /\ IsSum(gs, e) /\ Expected(gs) = e[m]
               /\ \A k \in 0..m : Expected(SubSeq(gs, 1, k)) = e[k]
  BY <1>1, PrefixSums
<1> HIDE DEF gs, all
<1>4. ASSUME NEW k \in 1..m
      PROVE  /\ gs[k] # Indeterminate /\ Least(gs[k]) = gs[k] /\ gs[k] \in Nat
             /\ o[k] \in T /\ Answers(args, o[k]) = gs[k] /\ Len(acks[o[k]]) = gs[k]
  <2>1. gs[k] \in Counts /\ gs[k] # Indeterminate
    BY <1>1 DEF HasIndeterminate, gs
  <2>2. o[k] \in T /\ gs[k] = Answers(args, o[k])
    BY <1>2 DEF Enumerates
  <2>3. Len(acks[o[k]]) = gs[k]
    BY <2>1, <2>2 DEF IsAnswered
  <2>4. gs[k] \in {1, 2}
    BY <2>1, CountsAre DEF Indeterminate
  <2> QED BY <2>1, <2>2, <2>3, <2>4 DEF Least
<1>5. Adds(args, acks, o, m, e)
  BY <1>3, <1>4 DEF Adds, IsSum
<1>6. all \in Seq(BOOLEAN) /\ Placed(acks, o, e, all, m)
  BY <1>1, <1>2, <1>5, AnswersPlaced DEF IsAnswered, all
<1>7. ASSUME NEW k \in 1..m
      PROVE  /\ ~IsShort(gs, all, k)
             /\ IsBad(gs, all, k) <=> \E x \in 1..Len(acks[o[k]]) : ~acks[o[k]][x]
  <2>1. Begins(gs, k) = e[k - 1] /\ e[k - 1] \in Nat /\ e[k] = e[k - 1] + gs[k]
    <3>1. k - 1 \in 0..m
      BY <1>1
    <3> QED BY <1>3, <1>4, <3>1 DEF Begins, IsSum
  <2>2. e[k] <= Len(all) /\ \A x \in 1..gs[k] : all[e[k - 1] + x] = acks[o[k]][x]
    BY <1>4, <1>6 DEF Placed
  <2>3. ~(Begins(gs, k) + gs[k] > Len(all))
    BY <1>4, <1>6, <2>1, <2>2
  <2>4. (\E i \in (e[k - 1] + 1)..(e[k - 1] + gs[k]) : ~all[i]) <=> \E x \in 1..gs[k] : ~all[e[k - 1] + x]
    <3>1. PICK u \in Nat, w \in Nat : u = e[k - 1] /\ w = gs[k]
      BY <1>4, <2>1
    <3>2. \A i \in (u + 1)..(u + w) : i - u \in 1..w /\ u + (i - u) = i
      OBVIOUS
    <3>3. \A x \in 1..w : u + x \in (u + 1)..(u + w)
      OBVIOUS
    <3>4. (\E i \in (u + 1)..(u + w) : ~all[i]) <=> \E x \in 1..w : ~all[u + x]
      BY <3>2, <3>3
    <3> QED BY <3>1, <3>4
  <2> QED BY <1>4, <2>1, <2>2, <2>3, <2>4 DEF IsShort, IsBad
<1>8. Verdict(args, acks) = IF \E k \in 1..m : IsBad(gs, all, k) THEN "nak" ELSE "ok"
  <2>1. \A i \in T : \E k \in 1..m : o[k] = i
    BY <1>2 DEF Enumerates
  <2>2. \A i \in T : Answers(args, i) # Indeterminate
    BY <1>4, <2>1
  <2>3. (\E i \in T : \E x \in 1..Len(acks[i]) : ~acks[i][x]) <=> \E k \in 1..m : IsBad(gs, all, k)
    BY <1>4, <1>7, <2>1
  <2> QED BY <2>2, <2>3 DEF Verdict
<1>9. ackBatchError(gs, all) = Verdict(args, acks)
  <2>1. m \in Nat
    BY <1>1
  <2> QED BY <1>7, <1>8, <2>1, ErrorOfBad
<1>10. Len(all) = Expected(gs)
  BY <1>3, <1>6 DEF Placed
<1> QED BY <1>6, <1>9, <1>10 DEF gs, all

LEMMA UnknownVerdict ==
  ASSUME NEW args, NEW acks, IsAnswered(args, acks), HasIndeterminate(ackCommandGroups(args))
  PROVE  LET gs == ackCommandGroups(args)
             all == Flat(args, acks)
         IN  all \in Seq(BOOLEAN) /\ Len(all) >= 1 /\ ackBatchError(gs, all) = Verdict(args, acks)
<1> DEFINE gs == ackCommandGroups(args)
           all == Flat(args, acks)
           T == Operations(args)
<1>1. gs \in Seq(Counts) /\ T \subseteq 1..Len(args) /\ Len(args) \in Nat
  BY AllCounted DEF IsAnswered, IsCommand, Counted
<1>2. PICK o : Enumerates(args, gs, T, o)
  BY AllCounted DEF IsAnswered, Counted
<1>3. Len(gs) = 1 /\ gs[1] = Indeterminate
  <2>1. Len(gs) <= 1 /\ \E k \in 1..Len(gs) : gs[k] = Indeterminate
    BY <1>1 DEF IsAnswered, validateAckCommandBatch, HasIndeterminate
  <2> HIDE DEF gs
  <2>2. PICK k \in 1..Len(gs) : gs[k] = Indeterminate
    BY <2>1
  <2>3. Len(gs) \in Nat
    BY <1>1
  <2>4. k = 1 /\ Len(gs) = 1
    BY <2>1, <2>3
  <2> QED BY <2>2, <2>4
<1> HIDE DEF gs, all
<1>4. T = {o[1]} /\ Answers(args, o[1]) = Indeterminate
  BY <1>2, <1>3 DEF Enumerates
<1>5. acks[o[1]] \in Seq(BOOLEAN) /\ Len(acks[o[1]]) >= 1 /\ Len(acks[o[1]]) \in Nat
  BY <1>4 DEF IsAnswered
<1> DEFINE e == [k \in 0..1 |-> IF k = 0 THEN 0 ELSE Len(acks[o[1]])]
<1>6. Adds(args, acks, o, Len(gs), e)
  <2>1. e[0] = 0 /\ e[1] = Len(acks[o[1]])
    OBVIOUS
  <2> HIDE DEF e
  <2>2. 0..1 = {0, 1} /\ 1..1 = {1}
    OBVIOUS
  <2> QED BY <1>3, <1>5, <2>1, <2>2 DEF Adds
<1>7. all \in Seq(BOOLEAN) /\ Placed(acks, o, e, all, 1)
  <2>1. all \in Seq(BOOLEAN) /\ Placed(acks, o, e, all, Len(gs))
    <3> HIDE DEF e
    <3> QED BY <1>1, <1>2, <1>6, AnswersPlaced DEF IsAnswered, all
  <2> QED BY <1>3, <2>1
<1>8. Len(all) = Len(acks[o[1]]) /\ \A x \in 1..Len(all) : all[x] = acks[o[1]][x]
  <2>1. e[0] = 0 /\ e[1] = Len(acks[o[1]]) /\ 1 \in 1..1 /\ 1 - 1 = 0
    OBVIOUS
  <2> HIDE DEF e
  <2>2. Len(all) = e[1] /\ \A x \in 1..Len(acks[o[1]]) : all[e[0] + x] = acks[o[1]][x]
    BY <1>7, <2>1 DEF Placed
  <2>3. \A x \in 1..Len(acks[o[1]]) : 0 + x = x
    OBVIOUS
  <2> QED BY <2>1, <2>2, <2>3
<1>9. Begins(gs, 1) = 0
  <2>1. PICK f : IsSum(gs, f) /\ \A k \in 0..Len(gs) : Expected(SubSeq(gs, 1, k)) = f[k]
    BY <1>1, PrefixSums
  <2>2. 0 \in 0..Len(gs) /\ 1 - 1 = 0
    BY <1>3
  <2> QED BY <2>1, <2>2 DEF Begins, IsSum
<1>10. ~IsShort(gs, all, 1) /\ (IsBad(gs, all, 1) <=> \A x \in 1..Len(all) : ~all[x])
  BY <1>3, <1>9 DEF IsShort, IsBad
<1>11. Verdict(args, acks) = IF IsBad(gs, all, 1) THEN "nak" ELSE "ok"
  BY <1>4, <1>8, <1>10 DEF Verdict
<1>12. ackBatchError(gs, all) = Verdict(args, acks)
  <2>1. Len(gs) \in Nat /\ \A k \in 1..Len(gs) : k = 1
    BY <1>3
  <2>2. 1 \in 1..Len(gs)
    BY <1>3
  <2> QED BY <1>10, <1>11, <2>1, <2>2, ErrorOfBad
<1>13. Len(all) >= 1
  BY <1>5, <1>8
<1> QED BY <1>7, <1>12, <1>13 DEF gs, all

-----------------------------------------------------------------------------
(* The invariant: as long as no command was given up, what was collected   *)
(* and what is under way are together the answers to the command being     *)
(* run, and with a known number of them the last is under way.             *)
Answer == [cmd : Nat, ack : BOOLEAN]
Outcome == {"ok", "nak", "short", "timeout", "refused"}
Acks(s) == [i \in 1..Len(s) |-> s[i].ack]

UbxTypes ==
  /\ list \in CommandLists /\ at \in 0..Len(list) /\ phase \in {"idle", "collect"}
  /\ air \in Seq(Answer) /\ responses \in Seq(Answer)
  /\ truth \in Seq(Outcome) /\ Len(truth) = at /\ results \in Seq(Outcome)
  /\ Len(results) = IF phase = "idle" THEN at ELSE at - 1
  /\ phase = "collect" => at # 0
Collected ==
  LET got == responses \o air
  IN  /\ got # <<>> /\ ackBatchError(Groups, Acks(got)) = truth[at]
      /\ ~HasIndeterminate(Groups) => Len(got) = Expected(Groups) /\ air # <<>>
UbxRight ==
  ~leaked => /\ \A c \in 1..Len(results) : results[c] = truth[c]
             /\ IF phase = "idle" THEN air = <<>> ELSE Collected
UbxInv == UbxTypes /\ UbxRight

LEMMA UbxInitial == UbxInit => UbxInv
<1> SUFFICES ASSUME UbxInit PROVE UbxInv
  OBVIOUS
<1>1. list \in Seq(Seq(STRING))
  BY UbxAssumption DEF UbxInit
<1>2. 0 \in 0..Len(list)
  BY <1>1
<1> QED BY <1>2 DEF UbxInit, UbxInv, UbxTypes, UbxRight

LEMMA CommandsAre ==
  ASSUME NEW l \in CommandLists
  PROVE  Len(l) \in Nat /\ \A k \in 1..Len(l) : IsCommand(l[k])
<1>1. l \in Seq(Seq(STRING))
  BY UbxAssumption
<1> QED BY <1>1, UbxAssumption

LEMMA FinishKeeps ==
  ASSUME UbxInv, phase = "collect", NEW rs \in Seq(Answer), NEW rest \in Seq(Answer),
         rs \o rest = responses \o air, Finish(rs, rest), air' = rest,
         UNCHANGED <<list, at, truth>>, responses' \in Seq(Answer)
  PROVE  UbxInv'
<1> USE DEF UbxInv
<1> DEFINE out == IF rs = <<>> THEN "timeout" ELSE ackBatchError(Groups, Acks(rs))
<1>1. results' = Append(results, out) /\ phase' = "idle" /\ leaked' = (leaked \/ rest # <<>>)
  BY DEF Finish, Acks
<1>2. out \in Outcome
  <2>1. ackBatchError(Groups, Acks(rs)) \in {"ok", "short", "nak"}
    BY DEF ackBatchError
  <2> QED BY <2>1 DEF Outcome
<1> HIDE DEF out
<1>3. /\ results' \in Seq(Outcome) /\ Len(results') = Len(results) + 1
      /\ results'[Len(results) + 1] = out /\ \A c \in 1..Len(results) : results'[c] = results[c]
  BY <1>1, <1>2 DEF UbxTypes
<1>4. at \in Nat /\ Len(results) = at - 1 /\ Len(results') = at
  <2>1. Len(list) \in Nat
    BY CommandsAre DEF UbxTypes
  <2> QED BY <1>3, <2>1 DEF UbxTypes
<1>5. UbxTypes'
  BY <1>1, <1>3, <1>4 DEF UbxTypes
<1>6. ASSUME ~leaked' PROVE out = truth[at] /\ air' = <<>> /\ \A c \in 1..Len(results) : results[c] = truth[c]
  <2>1. ~leaked /\ rest = <<>>
    BY <1>1, <1>6
  <2>2. rs = responses \o air
    BY <2>1
  <2>3. Collected
    BY <2>1 DEF UbxRight
  <2> QED BY <2>1, <2>2, <2>3 DEF Collected, UbxRight, out
<1>7. UbxRight'
  <2> SUFFICES ASSUME ~leaked', NEW c \in 1..Len(results') PROVE results'[c] = truth[c]
    BY <1>1, <1>6 DEF UbxRight
  <2>1. c \in 1..Len(results) \/ c = at
    BY <1>4
  <2> QED BY <1>3, <1>4, <1>6, <2>1
<1> QED BY <1>5, <1>7

LEMMA IssueKeeps == UbxInv /\ Issue => UbxInv'
<1> SUFFICES ASSUME UbxInv, Issue PROVE UbxInv'
  OBVIOUS
<1> USE DEF UbxInv
<1> DEFINE args == list[at + 1]
<1>1. Len(list) \in Nat /\ at \in Nat /\ at + 1 \in 1..Len(list) /\ at' = at + 1 /\ list' = list
  BY CommandsAre DEF Issue, UbxTypes
<1>2. IsCommand(args) /\ Groups' = ackCommandGroups(args)
  BY <1>1, CommandsAre DEF UbxTypes, Groups
<1>3. phase = "idle" /\ responses' = <<>> /\ leaked' = leaked /\ responses' \in Seq(Answer)
  BY DEF Issue
<1>4. /\ Len(results) = at /\ Len(truth) = at /\ at' \in 0..Len(list)
      /\ ~leaked => air = <<>> /\ \A c \in 1..Len(results) : results[c] = truth[c]
  BY <1>1, <1>3 DEF UbxTypes, UbxRight
<1>5. CASE ~validateAckCommandBatch(args) \/ ackCommandGroups(args) = <<>>
  <2>1. /\ truth' = Append(truth, "refused") /\ results' = Append(results, "refused")
        /\ phase' = phase /\ air' = air
    BY <1>5 DEF Issue
  <2>2. /\ truth' \in Seq(Outcome) /\ results' \in Seq(Outcome)
        /\ Len(truth') = at + 1 /\ Len(results') = at + 1
        /\ truth'[at + 1] = "refused" /\ results'[at + 1] = "refused"
        /\ \A c \in 1..at : truth'[c] = truth[c] /\ results'[c] = results[c]
    BY <1>4, <2>1 DEF UbxTypes, Outcome
  <2>3. UbxTypes'
    BY <1>1, <1>3, <1>4, <2>1, <2>2 DEF UbxTypes
  <2>4. \A c \in 1..(at + 1) : c \in 1..at \/ c = at + 1
    BY <1>1
  <2>5. ~leaked' => \A c \in 1..Len(results') : results'[c] = truth'[c]
    BY <1>3, <1>4, <2>2, <2>4
  <2>6. UbxRight'
    BY <1>3, <1>4, <2>1, <2>5 DEF UbxRight
  <2> QED BY <2>3, <2>6
<1>6. CASE validateAckCommandBatch(args) /\ ackCommandGroups(args) # <<>>
  <2>1. PICK acks \in [Operations(args) -> UNION {[1..n -> BOOLEAN] : n \in 1..(2 + MaxExtra)}] :
          /\ \A i \in Operations(args) : Answers(args, i) # Indeterminate => Len(acks[i]) = Answers(args, i)
          /\ truth' = Append(truth, Verdict(args, acks))
          /\ \E all \in {Flat(args, acks)} :
               air' = air \o [k \in 1..Len(all) |-> [cmd |-> at + 1, ack |-> all[k]]]
          /\ phase' = "collect" /\ UNCHANGED results
    <3>1. \E acks \in [Operations(args) -> UNION {[1..n -> BOOLEAN] : n \in 1..(2 + MaxExtra)}] :
          /\ \A i \in Operations(args) : Answers(args, i) # Indeterminate => Len(acks[i]) = Answers(args, i)
          /\ truth' = Append(truth, Verdict(args, acks))
          /\ \E all \in {Flat(args, acks)} :
               air' = air \o [k \in 1..Len(all) |-> [cmd |-> at + 1, ack |-> all[k]]]
          /\ phase' = "collect" /\ UNCHANGED results
      BY <1>6, Zenon DEF Issue
    <3> QED BY <3>1
  <2> DEFINE all == Flat(args, acks)
             new == [k \in 1..Len(all) |-> [cmd |-> at + 1, ack |-> all[k]]]
  <2>2. air' = air \o new
    BY <2>1
  <2>3. IsAnswered(args, acks)
    <3>1. ASSUME NEW i \in Operations(args) PROVE acks[i] \in Seq(BOOLEAN) /\ Len(acks[i]) >= 1
      <4>1. PICK n \in 1..(2 + MaxExtra) : acks[i] \in [1..n -> BOOLEAN]
        BY <2>1
      <4>2. n \in Nat /\ n >= 1
        BY UbxAssumption
      <4> QED BY <4>1, <4>2
    <3> QED BY <1>2, <1>6, <2>1, <3>1 DEF IsAnswered
  <2>4. /\ all \in Seq(BOOLEAN) /\ Len(all) \in Nat
        /\ ackBatchError(Groups', all) = Verdict(args, acks)
        /\ IF HasIndeterminate(Groups') THEN Len(all) >= 1 ELSE Len(all) = Expected(Groups')
    <3> USE <1>2
    <3>1. CASE HasIndeterminate(Groups')
      BY <2>3, <3>1, UnknownVerdict
    <3>2. CASE ~HasIndeterminate(Groups')
      BY <2>3, <3>2, KnownVerdict
    <3> QED BY <3>1, <3>2
  <2>5. Len(all) >= 1
    <3>1. CASE ~HasIndeterminate(Groups')
      <4>1. Groups' \in Seq(Counts) /\ Groups' # <<>>
        BY <1>2, <1>6, AllCounted DEF Counted
      <4>2. PICK e : IsSum(Groups', e) /\ Expected(Groups') = e[Len(Groups')]
        BY <4>1, SumDef
      <4>3. Len(Groups') \in 1..Len(Groups') /\ Len(Groups') - 1 \in 0..Len(Groups')
        BY <4>1
      <4>4. Groups'[Len(Groups')] \in Counts
        BY <4>1, <4>3
      <4>5. Least(Groups'[Len(Groups')]) \in {1, 2}
        BY <4>4, CountsAre
      <4>6. e[Len(Groups')] = e[Len(Groups') - 1] + Least(Groups'[Len(Groups')])
            /\ e[Len(Groups') - 1] \in Nat
        BY <4>2, <4>3 DEF IsSum
      <4>7. e[Len(Groups')] >= 1
        BY <4>5, <4>6
      <4> QED BY <2>4, <3>1, <4>2, <4>7
    <3> QED BY <2>4, <3>1
  <2> HIDE DEF all
  <2>6. /\ new \in Seq(Answer) /\ Len(new) = Len(all) /\ \A k \in 1..Len(all) : new[k].ack = all[k]
        /\ DOMAIN all = 1..Len(all)
    <3>1. \A k \in 1..Len(all) : [cmd |-> at + 1, ack |-> all[k]] \in Answer
      BY <1>1, <2>4 DEF Answer
    <3>2. new \in [1..Len(all) -> Answer] /\ DOMAIN new = 1..Len(all)
      BY <3>1
    <3>3. new \in Seq(Answer) /\ Len(new) = Len(all)
      BY <2>4, <3>2
    <3> QED BY <2>4, <3>3
  <2> HIDE DEF new
  <2>7. Acks(new) = all
    <3>1. all = [k \in 1..Len(all) |-> all[k]]
      BY <2>4, <2>6
    <3> QED BY <2>6, <3>1 DEF Acks
  <2>8. Verdict(args, acks) \in Outcome
    BY DEF Verdict, Outcome
  <2>9. /\ truth' \in Seq(Outcome) /\ Len(truth') = at + 1 /\ truth'[at + 1] = Verdict(args, acks)
        /\ \A c \in 1..at : truth'[c] = truth[c]
    BY <1>4, <2>1, <2>8 DEF UbxTypes
  <2>10. UbxTypes'
    <3>1. air' \in Seq(Answer)
      BY <2>2, <2>6 DEF UbxTypes
    <3>2. at' - 1 = at /\ at' # 0
      BY <1>1
    <3> QED BY <1>1, <1>3, <1>4, <2>1, <2>9, <3>1, <3>2 DEF UbxTypes
  <2>11. ~leaked' => Collected'
    <3> SUFFICES ASSUME ~leaked PROVE Collected'
      BY <1>3
    <3>1. air' = new /\ responses' \o air' = new
      BY <1>3, <1>4, <2>2, <2>6
    <3>2. new # <<>>
      BY <2>5, <2>6
    <3>3. ackBatchError(Groups', Acks(new)) = truth'[at']
      BY <1>1, <2>4, <2>7, <2>9
    <3> QED BY <2>4, <2>6, <3>1, <3>2, <3>3 DEF Collected, Acks
  <2>12. UbxRight'
    BY <1>3, <1>4, <2>1, <2>9, <2>11 DEF UbxRight
  <2> QED BY <2>10, <2>12
<1> QED BY <1>5, <1>6

LEMMA AckArrivesKeeps == UbxInv /\ AckArrives => UbxInv'
<1> SUFFICES ASSUME UbxInv, AckArrives PROVE UbxInv'
  OBVIOUS
<1> USE DEF UbxInv
<1>1. /\ phase = "collect" /\ air # <<>> /\ air' = Tail(air) /\ responses' = Append(responses, Head(air))
      /\ UNCHANGED <<list, at, truth>>
  BY DEF AckArrives
<1>2. air \in Seq(Answer) /\ responses \in Seq(Answer)
  BY DEF UbxTypes
<1>3. /\ air' \in Seq(Answer) /\ responses' \in Seq(Answer)
      /\ responses' \o air' = responses \o air
      /\ air' = <<>> => Len(responses') = Len(responses \o air)
  <2>1. Head(air) \in Answer /\ Tail(air) \in Seq(Answer) /\ air = <<Head(air)>> \o Tail(air)
    BY <1>1, <1>2
  <2>2. Append(responses, Head(air)) \o Tail(air) = responses \o air
    BY <1>1, <1>2
  <2>3. Append(responses, Head(air)) \in Seq(Answer)
    BY <1>2, <2>1
  <2>4. Tail(air) = <<>> => Len(Append(responses, Head(air))) = Len(responses \o air)
    <3>1. Len(air) \in Nat /\ Len(Tail(air)) = Len(air) - 1 /\ Len(<<>>) = 0
      BY <1>1, <1>2
    <3>2. Len(responses) \in Nat /\ Len(responses \o air) = Len(responses) + Len(air)
          /\ Len(Append(responses, Head(air))) = Len(responses) + 1
      BY <1>2, <2>3
    <3> SUFFICES ASSUME Tail(air) = <<>>
                 PROVE  Len(Append(responses, Head(air))) = Len(responses \o air)
      OBVIOUS
    <3>3. Len(Tail(air)) = 0
      BY <3>1
    <3>4. Len(air) = 1
      BY <3>1, <3>3
    <3> QED BY <3>2, <3>4
  <2> QED BY <1>1, <2>1, <2>2, <2>3, <2>4
<1>4. CASE Enough(responses', seenNonAckNak)
  <2>1. Finish(responses', air')
    BY <1>1, <1>4 DEF AckArrives
  <2> QED BY <1>1, <1>3, <2>1, FinishKeeps
<1>5. CASE ~Enough(responses', seenNonAckNak)
  <2>1. UNCHANGED <<results, phase, leaked>>
    BY <1>5 DEF AckArrives
  <2>2. UbxTypes'
    BY <1>1, <1>3, <2>1 DEF UbxTypes
  <2>3. ASSUME ~leaked PROVE Collected'
    <3>1. Collected
      BY <1>1, <2>3 DEF UbxRight
    <3>2. Groups' = Groups /\ truth'[at'] = truth[at]
      BY <1>1 DEF Groups
    <3>3. ~HasIndeterminate(Groups) => air' # <<>>
      <4> SUFFICES ASSUME ~HasIndeterminate(Groups), air' = <<>> PROVE FALSE
        OBVIOUS
      <4>1. Len(responses') = Expected(Groups)
        BY <1>3, <3>1 DEF Collected
      <4>2. Len(responses') \in Nat
        BY <1>3
      <4> QED BY <1>5, <4>1, <4>2 DEF Enough
    <3> QED BY <1>3, <3>1, <3>2, <3>3 DEF Collected
  <2>4. UbxRight'
    BY <1>1, <2>1, <2>3 DEF UbxRight
  <2> QED BY <2>2, <2>4
<1> QED BY <1>4, <1>5

LEMMA UbxStep == UbxInv /\ [UbxNext]_ubxVars => UbxInv'
<1> SUFFICES ASSUME UbxInv, [UbxNext]_ubxVars PROVE UbxInv'
  OBVIOUS
<1> USE DEF UbxInv
<1>1. air \in Seq(Answer) /\ responses \in Seq(Answer)
  BY DEF UbxTypes
<1>2. CASE OtherArrives
  <2>1. phase = "collect" /\ UNCHANGED <<list, at, air, responses, truth>>
    BY <1>2 DEF OtherArrives
  <2>2. CASE Enough(responses, TRUE)
    <3>1. Finish(responses, air)
      BY <1>2, <2>2 DEF OtherArrives
    <3> QED BY <1>1, <2>1, <3>1, FinishKeeps
  <2>3. CASE ~Enough(responses, TRUE)
    <3>1. UNCHANGED <<results, phase, leaked>>
      BY <1>2, <2>3 DEF OtherArrives
    <3> QED BY <2>1, <3>1 DEF UbxTypes, UbxRight, Collected, Groups
  <2> QED BY <2>2, <2>3
<1>3. CASE TimesOut
  <2>1. /\ phase = "collect" /\ UNCHANGED <<list, at, air, responses, truth>>
        /\ Finish(responses, air)
    BY <1>3 DEF TimesOut
  <2> QED BY <1>1, <2>1, FinishKeeps
<1>4. CASE AckMissed
  <2>1. /\ phase = "idle" /\ air # <<>> /\ air' = Tail(air)
        /\ UNCHANGED <<list, at, phase, responses, truth, results, leaked>>
    BY <1>4 DEF AckMissed
  <2>2. Tail(air) \in Seq(Answer)
    BY <1>1, <2>1
  <2>3. leaked
    BY <2>1 DEF UbxRight
  <2> QED BY <2>1, <2>2, <2>3 DEF UbxTypes, UbxRight
<1>5. CASE UNCHANGED ubxVars
  BY <1>5 DEF ubxVars, UbxTypes, UbxRight, Collected, Groups
<1> QED BY <1>2, <1>3, <1>4, <1>5, IssueKeeps, AckArrivesKeeps DEF UbxNext

(* What Run returns of a command is what the receiver did with it, and no  *)
(* command waits for answers that will not come (CommandRunner.Run,        *)
(* collectAckResponses), until one is given up with answers under way.     *)
THEOREM AckIsAttributed == UbxSpec => []AckAttributed
<1>1. UbxInv => AckAttributed
  <2> SUFFICES ASSUME UbxInv, ~leaked
               PROVE  /\ \A c \in 1..Len(results) : results[c] = truth[c]
                      /\ phase = "collect" /\ air = <<>> => HasIndeterminate(Groups)
    BY DEF AckAttributed
  <2> QED BY DEF UbxInv, UbxRight, Collected
<1> QED BY UbxInitial, UbxStep, <1>1, PTL DEF UbxSpec
=============================================================================
