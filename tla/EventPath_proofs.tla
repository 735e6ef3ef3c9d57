-------------------------- MODULE EventPath_proofs --------------------------
(***************************************************************************)
(* Theorems about the path of an event from the clock manager to a         *)
(* subscriber.  First IPCLink, for every set of keys, resources and        *)
(* values, every capacity of the channel and of the socket, and any number *)
(* of updates, timeouts and restarts; then ProxyEvents, for every set of   *)
(* profiles and ports and any order of lines, timers, publications and     *)
(* restarts; then EventCache, for every set of subscribers, interfaces and *)
(* values and any order of messages, posts and subscriptions.              *)
(***************************************************************************)
EXTENDS IPCLink, ProxyEvents, EventCache, TLAPS

LinkHasConn == link = "serving" => conns # <<>>
TypeInv == TypeOK /\ LinkHasConn

(* What the cache holds of a resource, what the proxy may show of it, and  *)
(* the messages that make it show that.                                    *)
Holding(s) == {store[k] : k \in {k \in Keys : SlotOf[k] = s}} \ {None}
Shown(s) == IF Holding(s) = {} THEN {None} ELSE Holding(s)
Right(s) == IF Holding(s) = {} THEN {CacheClear}
            ELSE {UpdateOf(k, store[k]) : k \in {k \in Keys : SlotOf[k] = s /\ store[k] # None}}

(* A queue may leave a resource alone; otherwise its last message for the  *)
(* resource decides.                                                       *)
Touches(m, s) == m = CacheClear \/ SlotOf[m.key] = s
Untouched(q, s) == \A i \in 1..Len(q) : ~Touches(q[i], s)
LastIn(q, s, M) ==
  \E i \in 1..Len(q) : /\ Touches(q[i], s) /\ q[i] \in M
                       /\ \A j \in 1..Len(q) : j > i => ~Touches(q[j], s)

(* What the connections leave the proxy with. *)
Arrives(s) ==
  \/ \E n \in 1..Len(conns) :
       /\ LastIn(conns[n].msgs, s, Right(s))
       /\ \A m \in 1..Len(conns) : m > n => Untouched(conns[m].msgs, s)
  \/ /\ \A n \in 1..Len(conns) : Untouched(conns[n].msgs, s)
     /\ cep[s] \in Shown(s)

(* The proxy will still ask for a snapshot, or has asked. *)
WillAsk == link # "serving" \/ peer # "reading" \/ Len(conns) # 1 \/ request

(* The channel ends in the truth, a snapshot tells it unless the channel   *)
(* is about to, and where no snapshot is to come, or none would help, what *)
(* is on its way ends in the truth.                                        *)
ChannelRight(s) == Untouched(outCh, s) \/ LastIn(outCh, s, Right(s))
SnapshotRight(s) ==
  Untouched(outCh, s) => \A m \in snap : Touches(m, s) => m \in Right(s)
OnItsWay(s) ==
  Untouched(outCh, s) => (\E m \in snap : Touches(m, s)) \/ Arrives(s)

Truthful(s) ==
  /\ ChannelRight(s) /\ SnapshotRight(s)
  /\ Holding(s) = {} \/ ~WillAsk => OnItsWay(s)
LinkInv == TypeInv /\ (~dropped /\ ~clearLost => \A s \in Slots : Truthful(s))

-----------------------------------------------------------------------------
(* Types. *)

(* What the steps do to the connections. *)
Opens(l) == \A n \in 1..Len(conns) : conns[n].open <=> (n = Mine /\ l = "serving")
SameMsgs == Len(conns') = Len(conns) /\ \A n \in 1..Len(conns) : conns'[n].msgs = conns[n].msgs

LEMMA WriteShape ==
  ASSUME TypeInv, NEW m \in Msg, write(m)
  PROVE  /\ Mine \in 1..Len(conns) /\ link = "serving"
         /\ conns' \in Seq(Conn) /\ Len(conns') = Len(conns)
         /\ \A n \in 1..Len(conns) : /\ conns'[n].open = conns[n].open
                                     /\ n # Mine => conns'[n].msgs = conns[n].msgs
         /\ conns[Mine].msgs \in Seq(Msg)
         /\ conns'[Mine].msgs = Append(conns[Mine].msgs, m)
<1>1. link = "serving" /\ conns \in Seq(Conn) /\ conns # <<>>
  BY DEF write, TypeInv, TypeOK, LinkHasConn
<1>2. Mine \in 1..Len(conns) /\ Len(conns) \in Nat
  BY <1>1 DEF Mine
<1>3. conns[Mine] \in Conn /\ conns[Mine].msgs \in Seq(Msg)
  <2>1. conns[Mine] \in Conn
    BY <1>1, <1>2
  <2> QED BY <2>1 DEF Conn
<1> DEFINE new == [conns[Mine] EXCEPT !.msgs = Append(@, m)]
<1>4. /\ new \in Conn /\ new.open = conns[Mine].open /\ new.msgs = Append(conns[Mine].msgs, m)
  <2>1. Append(conns[Mine].msgs, m) \in Seq(Msg)
    BY <1>3
  <2> QED BY <1>3, <2>1 DEF Conn
<1>5. conns' = [conns EXCEPT ![Mine] = new]
  BY <1>1, <1>2, <1>3 DEF write
<1> HIDE DEF new
<1> QED BY <1>1, <1>2, <1>3, <1>4, <1>5

LEMMA HangUpShape ==
  ASSUME TypeInv, hangUp
  PROVE  /\ conns' \in Seq(Conn) /\ SameMsgs
         /\ \A n \in 1..Len(conns) : ~conns'[n].open
         /\ link' = "dialing" /\ snap' = {} /\ request' = FALSE
<1>0. conns \in Seq(Conn) /\ Len(conns) \in Nat /\ Opens(link)
  BY DEF TypeInv, TypeOK, Opens
<1>1. CASE link = "serving"
  <2>1. Mine \in 1..Len(conns)
    BY <1>0, <1>1 DEF Mine, TypeInv, LinkHasConn
  <2>2. conns[Mine] \in Conn
    BY <1>0, <2>1
  <2> DEFINE new == [conns[Mine] EXCEPT !.open = FALSE]
  <2>3. new \in Conn /\ new.open = FALSE /\ new.msgs = conns[Mine].msgs
    BY <2>2 DEF Conn
  <2>4. conns' = [conns EXCEPT ![Mine] = new]
    BY <1>0, <1>1, <2>1, <2>2 DEF hangUp
  <2> HIDE DEF new
  <2>5. \A n \in 1..Len(conns) : n # Mine => ~conns[n].open
    BY <1>0 DEF Opens
  <2>6. /\ conns' \in Seq(Conn) /\ Len(conns') = Len(conns)
        /\ \A n \in 1..Len(conns) : conns'[n] = IF n = Mine THEN new ELSE conns[n]
    BY <1>0, <2>1, <2>3, <2>4
  <2>7. \A n \in 1..Len(conns) : ~conns'[n].open /\ conns'[n].msgs = conns[n].msgs
    BY <2>3, <2>5, <2>6
  <2> QED BY <2>6, <2>7 DEF SameMsgs, hangUp
<1>2. CASE link # "serving"
  BY <1>0, <1>2 DEF hangUp, Opens, SameMsgs
<1> QED BY <1>1, <1>2

(* The type invariant by variable. *)
StoreType == store \in [Keys -> Vals \cup {None}]
OutType == outCh \in Seq(Msg) /\ Len(outCh) <= OutCap
SnapType == snap \subseteq [type : {"update"}, key : Keys, val : Vals] /\ request \in BOOLEAN
ConnsType ==
  /\ link \in {"dialing", "serving", "broken"}
  /\ conns \in Seq(Conn) /\ Len(conns) <= MaxConns /\ Opens(link) /\ LinkHasConn
  /\ peer \in {"accepting", "reading"} /\ (peer = "reading" => conns # <<>>)
CepType == cep \in [Slots -> Vals \cup {None}]
BudgetType == budget \in [{"updates", "restarts", "timeouts"} -> Nat]
HistoryType == missed \in BOOLEAN /\ dropped \in BOOLEAN /\ clearLost \in BOOLEAN

LEMMA TypeParts ==
  TypeInv <=> /\ StoreType /\ OutType /\ SnapType /\ ConnsType /\ CepType /\ BudgetType
              /\ HistoryType
BY DEF TypeInv, TypeOK, LinkHasConn, StoreType, OutType, SnapType, ConnsType, CepType,
       BudgetType, HistoryType, Opens

LEMMA TypeWhole ==
  ASSUME StoreType', OutType', SnapType', ConnsType', CepType', BudgetType', HistoryType'
  PROVE  TypeInv'
BY DEF TypeInv, TypeOK, LinkHasConn, StoreType, OutType, SnapType, ConnsType, CepType,
       BudgetType, HistoryType, Opens

LEMMA TypeInit == Init => TypeInv
<1> SUFFICES ASSUME Init PROVE TypeInv
  OBVIOUS
<1>1. StoreType /\ SnapType /\ CepType /\ HistoryType
  BY DEF Init, StoreType, SnapType, CepType, HistoryType
<1>2. Len(<<>>) <= OutCap /\ Len(<<>>) <= MaxConns
  BY IPCLinkAssumption
<1>3. OutType
  BY <1>2 DEF Init, OutType
<1>4. ConnsType
  BY <1>2 DEF Init, ConnsType, Opens, LinkHasConn
<1>5. BudgetType
  BY IPCLinkAssumption DEF Init, BudgetType
<1> QED BY <1>1, <1>3, <1>4, <1>5, TypeParts

LEMMA SpendType ==
  ASSUME BudgetType, NEW what \in {"updates", "restarts", "timeouts"}, Spend(what)
  PROVE  BudgetType'
<1>1. budget[what] \in Nat /\ budget[what] > 0
  BY DEF BudgetType, Spend
<1>2. budget[what] - 1 \in Nat
  BY <1>1
<1> QED BY <1>2 DEF BudgetType, Spend

LEMMA PushType ==
  ASSUME OutType, NEW m \in Msg, push(m)
  PROVE  OutType'
BY IPCLinkAssumption DEF OutType, push, Full

LEMMA TailType ==
  ASSUME NEW S, NEW q \in Seq(S), q # <<>>
  PROVE  /\ Head(q) \in S /\ Tail(q) \in Seq(S) /\ Len(Tail(q)) = Len(q) - 1 /\ Len(q) \in Nat
         /\ Len(q) >= 1 /\ Head(q) = q[1]
         /\ \A i \in 1..Len(Tail(q)) : Tail(q)[i] = q[i + 1] /\ i + 1 \in 1..Len(q)
OBVIOUS

LEMMA MsgsTyped ==
  /\ CacheClear \in Msg /\ \A k \in Keys, v \in Vals : UpdateOf(k, v) \in Msg
  /\ \A m \in Msg : m # CacheClear => m.key \in Keys /\ m.val \in Vals /\ m = UpdateOf(m.key, m.val)
  /\ \A k \in Keys, v \in Vals : UpdateOf(k, v) # CacheClear /\ UpdateOf(k, v).key = k
  /\ [type : {"update"}, key : Keys, val : Vals] \subseteq Msg \ {CacheClear}
BY DEF Msg, CacheClear, UpdateOf

LEMMA HangUpType ==
  ASSUME TypeInv, hangUp, UNCHANGED peer
  PROVE  ConnsType' /\ SnapType'
<1>1. /\ conns' \in Seq(Conn) /\ SameMsgs /\ \A n \in 1..Len(conns) : ~conns'[n].open
      /\ link' = "dialing" /\ snap' = {} /\ request' = FALSE
  BY HangUpShape
<1>2. ConnsType /\ conns \in Seq(Conn)
  BY TypeParts DEF ConnsType
<1>3. conns # <<>> => conns' # <<>>
  BY <1>1, <1>2 DEF SameMsgs
<1>4. Opens(link)'
  BY <1>1, <1>2 DEF SameMsgs, Opens
<1> QED BY <1>1, <1>2, <1>3, <1>4 DEF SameMsgs, ConnsType, LinkHasConn, SnapType

LEMMA WriteType ==
  ASSUME TypeInv, NEW m \in Msg, write(m), UNCHANGED <<link, peer>>
  PROVE  ConnsType'
<1>1. ConnsType
  BY TypeParts
<1>2. /\ Mine \in 1..Len(conns) /\ link = "serving"
      /\ conns' \in Seq(Conn) /\ Len(conns') = Len(conns)
      /\ \A n \in 1..Len(conns) : conns'[n].open = conns[n].open
  BY WriteShape
<1>3. conns' # <<>>
  BY <1>2
<1> QED BY <1>1, <1>2, <1>3 DEF ConnsType, Opens, Mine, LinkHasConn

(* The clock manager. *)
LEMMA ManagerType ==
  ASSUME TypeInv, Clear \/ \E k \in Keys, v \in Vals : Send(k, v)
  PROVE  TypeInv'
<1>0. /\ StoreType /\ OutType /\ SnapType /\ ConnsType /\ CepType /\ BudgetType /\ HistoryType
  BY TypeParts
<1>1. BudgetType'
  BY <1>0, SpendType DEF Clear, Send
<1>2. OutType'
  BY <1>0, PushType, MsgsTyped DEF Clear, Send
<1>3. StoreType' /\ HistoryType'
  <2>1. StoreType'
    BY <1>0 DEF Clear, Send, StoreType
  <2>2. HistoryType'
    BY <1>0 DEF Clear, Send, HistoryType
  <2> QED BY <2>1, <2>2
<1>4. SnapType' /\ ConnsType' /\ CepType'
  BY <1>0 DEF Clear, Send, linkVars, cepVars, SnapType, ConnsType, Opens, Mine, LinkHasConn, CepType
<1> QED BY <1>1, <1>2, <1>3, <1>4, TypeWhole

(* The link. *)
LEMMA LinkType ==
  ASSUME TypeInv, LinkStep
  PROVE  TypeInv'
<1>0. /\ StoreType /\ OutType /\ SnapType /\ ConnsType /\ CepType /\ BudgetType /\ HistoryType
  BY TypeParts
<1>1. StoreType' /\ CepType' /\ peer' = peer
  BY <1>0 DEF LinkStep, Dial, TransmitOut, TransmitOutFails, AnswerRequest, WriteSnapshot,
     WriteSnapshotFails, PeerGone, cepVars, StoreType, CepType
<1>2. OutType'
  <2>1. CASE UNCHANGED outCh
    BY <1>0, <2>1 DEF OutType
  <2>2. CASE outCh # <<>> /\ outCh' = Tail(outCh)
    BY <1>0, <2>2, TailType, IPCLinkAssumption DEF OutType
  <2> QED BY <2>1, <2>2 DEF LinkStep, Dial, TransmitOut, TransmitOutFails, AnswerRequest,
     WriteSnapshot, WriteSnapshotFails, PeerGone
<1>3. BudgetType'
  <2>1. CASE UNCHANGED budget
    BY <1>0, <2>1 DEF BudgetType
  <2>2. CASE Spend("timeouts")
    BY <1>0, <2>2, SpendType
  <2> QED BY <2>1, <2>2 DEF LinkStep, Dial, TransmitOut, TransmitOutFails, AnswerRequest,
     WriteSnapshot, WriteSnapshotFails, PeerGone, writeFails
<1>4. HistoryType'
  <2>1. CASE UNCHANGED history
    BY <1>0, <2>1 DEF HistoryType, history
  <2>2. CASE TransmitOutFails
    BY <1>0, <2>2 DEF TransmitOutFails, HistoryType
  <2>3. CASE AnswerRequest
    BY <1>0, <2>3 DEF AnswerRequest, HistoryType
  <2> QED BY <2>1, <2>2, <2>3 DEF LinkStep, Dial, TransmitOut, WriteSnapshot,
     WriteSnapshotFails, PeerGone
<1>5. SnapType' /\ ConnsType'
  <2>1. CASE hangUp
    BY <1>1, <2>1, HangUpType
  <2>2. CASE Dial
    <3> DEFINE new == [msgs |-> <<>>, open |-> TRUE]
    <3>1. new \in Conn /\ new.open
      BY DEF Conn
    <3>2. conns \in Seq(Conn) /\ Len(conns) < MaxConns /\ conns' = Append(conns, new)
      BY <1>0, <2>2 DEF Dial, ConnsType
    <3> HIDE DEF new
    <3>3. /\ conns' \in Seq(Conn) /\ Len(conns') = Len(conns) + 1 /\ Len(conns) \in Nat
          /\ conns' # <<>> /\ conns'[Len(conns')] = new
          /\ \A n \in 1..Len(conns) : conns'[n] = conns[n]
      BY <3>1, <3>2
    <3>4. Opens(link)'
      <4> SUFFICES ASSUME NEW n \in 1..Len(conns')
                   PROVE (conns[n].open <=> (n = Mine /\ link = "serving"))'
        BY DEF Opens
      <4>1. CASE n = Len(conns')
        BY <2>2, <3>1, <3>3, <4>1 DEF Dial, Mine
      <4>2. CASE n # Len(conns')
        <5>1. n \in 1..Len(conns) /\ link # "serving"
          BY <2>2, <3>3, <4>2 DEF Dial
        <5> QED BY <1>0, <3>3, <4>2, <5>1 DEF ConnsType, Opens, Mine
      <4> QED BY <4>1, <4>2
    <3>5. Len(conns') <= MaxConns
      BY <3>2, <3>3, IPCLinkAssumption
    <3>6. link' = "serving" /\ snap' = {} /\ request' = FALSE
      BY <2>2 DEF Dial
    <3> QED BY <1>0, <1>1, <3>3, <3>4, <3>5, <3>6 DEF ConnsType, SnapType, LinkHasConn
  <2>3. CASE AnswerRequest
    <3>1. snap' \subseteq [type : {"update"}, key : Keys, val : Vals]
      BY <1>0, <2>3 DEF AnswerRequest, StoreType, UpdateOf
    <3>2. UNCHANGED <<conns, link, peer>> /\ request' = FALSE
      BY <2>3, <1>1 DEF AnswerRequest
    <3> QED BY <1>0, <3>1, <3>2 DEF SnapType, ConnsType, Opens, Mine, LinkHasConn
  <2>4. CASE TransmitOut
    <3>1. Head(outCh) \in Msg
      BY <1>0, <2>4, TailType DEF TransmitOut, OutType
    <3> QED BY <1>0, <1>1, <2>4, <3>1, WriteType DEF TransmitOut, SnapType
  <2>5. CASE WriteSnapshot
    <3>1. PICK m \in snap : write(m) /\ snap' = snap \ {m} /\ UNCHANGED <<link, request>>
      BY <2>5 DEF WriteSnapshot
    <3>2. m \in Msg
      BY <1>0, MsgsTyped DEF SnapType
    <3> QED BY <1>0, <1>1, <3>1, <3>2, WriteType DEF SnapType
  <2> QED BY <2>1, <2>2, <2>3, <2>4, <2>5 DEF LinkStep, TransmitOutFails, WriteSnapshotFails,
     PeerGone, writeFails
<1> QED BY <1>1, <1>2, <1>3, <1>4, <1>5, TypeWhole

(* The oldest connection is gone. *)
LEMMA DropFirst ==
  ASSUME ConnsType, conns # <<>>, ~conns[1].open, conns' = Tail(conns), UNCHANGED link
  PROVE  /\ conns' \in Seq(Conn) /\ Len(conns') <= MaxConns /\ Opens(link)' /\ LinkHasConn'
         /\ Len(conns') = Len(conns) - 1
         /\ \A n \in 1..Len(conns') : conns'[n] = conns[n + 1] /\ n + 1 \in 1..Len(conns)
<1>1. conns \in Seq(Conn) /\ Opens(link) /\ LinkHasConn /\ Len(conns) <= MaxConns
  BY DEF ConnsType
<1>2. /\ conns' \in Seq(Conn) /\ Len(conns') = Len(conns) - 1 /\ Len(conns) \in Nat
      /\ Len(conns) >= 1
      /\ \A n \in 1..Len(conns') : conns'[n] = conns[n + 1] /\ n + 1 \in 1..Len(conns)
  BY <1>1, TailType
<1>3. link = "serving" => Len(conns) # 1
  <2>1. 1 \in 1..Len(conns)
    BY <1>2
  <2>2. conns[1].open <=> (1 = Mine /\ link = "serving")
    BY <1>1, <2>1 DEF Opens
  <2> QED BY <2>2 DEF Mine
<1>4. Opens(link)'
  <2> SUFFICES ASSUME NEW n \in 1..Len(conns')
               PROVE (conns[n].open <=> (n = Mine /\ link = "serving"))'
    BY DEF Opens
  <2>1. conns'[n] = conns[n + 1] /\ n + 1 \in 1..Len(conns)
    BY <1>2
  <2>2. conns[n + 1].open <=> (n + 1 = Mine /\ link = "serving")
    BY <1>1, <2>1 DEF Opens
  <2>3. (n + 1 = Mine) <=> (n = Mine')
    BY <1>2 DEF Mine
  <2> QED BY <2>1, <2>2, <2>3
<1>5. LinkHasConn'
  <2>1. link' = "serving" => Len(conns') # 0
    BY <1>2, <1>3
  <2>2. conns' = <<>> => Len(conns') = 0
    OBVIOUS
  <2> QED BY <2>1, <2>2 DEF LinkHasConn
<1> QED BY <1>1, <1>2, <1>4, <1>5, IPCLinkAssumption

(* The proxy, and restarts. *)
LEMMA ProxyType ==
  ASSUME TypeInv, ProxyStep \/ ProxyRestart \/ DaemonRestart
  PROVE  TypeInv'
<1>0. /\ StoreType /\ OutType /\ SnapType /\ ConnsType /\ CepType /\ BudgetType /\ HistoryType
  BY TypeParts
<1>1. CASE Accept
  <2>1. ConnsType' /\ SnapType'
    BY <1>0, <1>1 DEF Accept, ConnsType, SnapType, Opens, Mine, LinkHasConn
  <2> QED BY <1>0, <1>1, <2>1, TypeWhole
    DEF Accept, StoreType, OutType, CepType, BudgetType, HistoryType, history
<1>2. CASE AcceptFails
  <2>1. ConnsType'
    BY <1>0, <1>2, DropFirst DEF AcceptFails, ConnsType, cepVars
  <2>2. HistoryType'
    BY <1>0, <1>2 DEF AcceptFails, HistoryType
  <2> QED BY <1>0, <1>2, <2>1, <2>2, TypeWhole
    DEF AcceptFails, StoreType, OutType, CepType, BudgetType, SnapType, cepVars
<1>3. CASE EndOfStream
  <2>1. ConnsType'
    BY <1>0, <1>3, DropFirst DEF EndOfStream, ConnsType
  <2> QED BY <1>0, <1>3, <2>1, TypeWhole
    DEF EndOfStream, StoreType, OutType, CepType, BudgetType, SnapType, HistoryType, history
<1>4. CASE Listen
  <2>1. /\ conns \in Seq(Conn) /\ 1 \in 1..Len(conns) /\ conns[1] \in Conn
        /\ conns[1].msgs \in Seq(Msg) /\ conns[1].msgs # <<>>
    <3>1. conns \in Seq(Conn) /\ conns # <<>>
      BY <1>0, <1>4 DEF Listen, ConnsType
    <3>2. 1 \in 1..Len(conns) /\ conns[1] \in Conn
      BY <3>1
    <3> QED BY <1>4, <3>1, <3>2 DEF Listen, Conn
  <2> DEFINE new == [conns[1] EXCEPT !.msgs = Tail(@)]
  <2>2. new \in Conn /\ new.open = conns[1].open
    <3>1. Tail(conns[1].msgs) \in Seq(Msg)
      BY <2>1
    <3> QED BY <2>1, <3>1 DEF Conn
  <2>3. conns' = [conns EXCEPT ![1] = new]
    BY <1>4, <2>1 DEF Listen
  <2> HIDE DEF new
  <2>4. /\ conns' \in Seq(Conn) /\ Len(conns') = Len(conns) /\ conns' # <<>>
        /\ \A n \in 1..Len(conns) : conns'[n].open = conns[n].open
    BY <2>1, <2>2, <2>3
  <2>5. ConnsType'
    BY <1>0, <1>4, <2>4 DEF Listen, ConnsType, Opens, Mine, LinkHasConn
  <2>6. CepType'
    <3>1. PICK m \in Msg : m = Head(conns[1].msgs)
      BY <2>1, TailType
    <3>2. CASE m = CacheClear
      BY <1>4, <3>1, <3>2 DEF Listen, CepType
    <3>3. CASE m # CacheClear
      <4>1. m.val \in Vals
        BY <3>3, MsgsTyped
      <4> QED BY <1>0, <1>4, <3>1, <3>3, <4>1 DEF Listen, CepType
    <3> QED BY <3>2, <3>3
  <2> QED BY <1>0, <1>4, <2>5, <2>6, TypeWhole
    DEF Listen, StoreType, OutType, BudgetType, SnapType, HistoryType, history
<1>5. CASE ProxyRestart
  <2>1. BudgetType'
    BY <1>0, <1>5, SpendType DEF ProxyRestart
  <2>2. conns' = <<>> /\ peer' = "accepting" /\ link' \in {"dialing", "broken"}
    BY <1>0, <1>5 DEF ProxyRestart, ConnsType
  <2>3. ConnsType'
    BY <1>0, <2>2, IPCLinkAssumption DEF ConnsType, Opens, LinkHasConn
  <2>4. CepType' /\ SnapType'
    BY <1>0, <1>5 DEF ProxyRestart, CepType, SnapType
  <2> QED BY <1>0, <1>5, <2>1, <2>3, <2>4, TypeWhole
    DEF ProxyRestart, StoreType, OutType, HistoryType, history
<1>6. CASE DaemonRestart
  <2>1. BudgetType'
    BY <1>0, <1>6, SpendType DEF DaemonRestart
  <2>2. ConnsType' /\ SnapType'
    BY <1>6, HangUpType DEF DaemonRestart, cepVars
  <2>3. HistoryType'
    BY <1>0, <1>6 DEF DaemonRestart, HistoryType
  <2>4. StoreType' /\ CepType'
    BY <1>0, <1>6 DEF DaemonRestart, StoreType, CepType, cepVars
  <2>5. OutType'
    <3>1. Len(<<>>) <= OutCap
      BY IPCLinkAssumption
    <3> QED BY <1>6, <3>1 DEF DaemonRestart, OutType
  <2> QED BY <2>1, <2>2, <2>3, <2>4, <2>5, TypeWhole
<1> QED BY <1>1, <1>2, <1>3, <1>4, <1>5, <1>6 DEF ProxyStep

LEMMA TypeNext == TypeInv /\ [Next]_vars => TypeInv'
<1> SUFFICES ASSUME TypeInv, [Next]_vars PROVE TypeInv'
  OBVIOUS
<1>1. CASE UNCHANGED vars
  BY <1>1 DEF vars, linkVars, cepVars, history, TypeInv, TypeOK, LinkHasConn, Mine
<1>2. CASE Clear \/ \E k \in Keys, v \in Vals : Send(k, v)
  BY <1>2, ManagerType
<1>3. CASE LinkStep
  BY <1>3, LinkType
<1>4. CASE ProxyStep \/ ProxyRestart \/ DaemonRestart
  BY <1>4, ProxyType
<1> QED BY <1>1, <1>2, <1>3, <1>4 DEF Next, LinkStep, ProxyStep

(* The cache, the channel, the backlog of connections and the event cache  *)
(* keep their types, and only the youngest connection is ever open.        *)
THEOREM LinkTypes == Spec => []TypeOK
<1>1. TypeInv => TypeOK
  BY DEF TypeInv
<1> QED BY TypeInit, TypeNext, <1>1, PTL DEF Spec

-----------------------------------------------------------------------------
(* Queues. *)

LEMMA AppendUntouched ==
  ASSUME NEW q \in Seq(Msg), NEW m \in Msg, NEW s
  PROVE  Untouched(Append(q, m), s) <=> Untouched(q, s) /\ ~Touches(m, s)
<1> DEFINE p == Append(q, m)
<1>1. /\ Len(q) \in Nat /\ Len(p) = Len(q) + 1 /\ p[Len(q) + 1] = m
      /\ \A i \in 1..Len(q) : p[i] = q[i] /\ i \in 1..Len(p)
      /\ \A i \in 1..Len(p) : i \in 1..Len(q) \/ i = Len(q) + 1
      /\ Len(q) + 1 \in 1..Len(p)
  OBVIOUS
<1> HIDE DEF p
<1>2. Untouched(p, s) <=> Untouched(q, s) /\ ~Touches(m, s)
  BY <1>1 DEF Untouched
<1> QED BY <1>2 DEF p

LEMMA AppendQueue ==
  ASSUME NEW q \in Seq(Msg), NEW m \in Msg, NEW s, NEW M
  PROVE  /\ ~Touches(m, s) /\ LastIn(q, s, M) => LastIn(Append(q, m), s, M)
         /\ Touches(m, s) /\ m \in M => LastIn(Append(q, m), s, M)
<1> DEFINE p == Append(q, m)
<1>1. /\ Len(q) \in Nat /\ Len(p) = Len(q) + 1 /\ p[Len(q) + 1] = m
      /\ \A i \in 1..Len(q) : p[i] = q[i] /\ i \in 1..Len(p)
      /\ \A i \in 1..Len(p) : i \in 1..Len(q) \/ i = Len(q) + 1
      /\ Len(q) + 1 \in 1..Len(p)
  OBVIOUS
<1> HIDE DEF p
<1>2. ~Touches(m, s) /\ LastIn(q, s, M) => LastIn(p, s, M)
  <2> SUFFICES ASSUME ~Touches(m, s), LastIn(q, s, M) PROVE LastIn(p, s, M)
    OBVIOUS
  <2>1. PICK i \in 1..Len(q) : /\ Touches(q[i], s) /\ q[i] \in M
                               /\ \A j \in 1..Len(q) : j > i => ~Touches(q[j], s)
    BY DEF LastIn
  <2>2. i \in 1..Len(p) /\ p[i] = q[i]
    BY <1>1
  <2>3. \A j \in 1..Len(p) : j > i => ~Touches(p[j], s)
    BY <1>1, <2>1
  <2> QED BY <2>1, <2>2, <2>3 DEF LastIn
<1>3. Touches(m, s) /\ m \in M => LastIn(p, s, M)
  <2>1. \A j \in 1..Len(p) : ~(j > Len(q) + 1)
    BY <1>1
  <2> QED BY <1>1, <2>1 DEF LastIn
<1> QED BY <1>2, <1>3 DEF p

LEMMA TailUntouched ==
  ASSUME NEW q \in Seq(Msg), q # <<>>, NEW s, Untouched(q, s)
  PROVE  Untouched(Tail(q), s) /\ ~Touches(Head(q), s)
<1> DEFINE p == Tail(q)
<1>1. /\ Head(q) = q[1] /\ 1 \in 1..Len(q)
      /\ \A i \in 1..Len(p) : p[i] = q[i + 1] /\ i + 1 \in 1..Len(q)
  BY TailType
<1> HIDE DEF p
<1>2. Untouched(p, s) /\ ~Touches(Head(q), s)
  BY <1>1 DEF Untouched
<1> QED BY <1>2 DEF p

LEMMA TailQueue ==
  ASSUME NEW q \in Seq(Msg), q # <<>>, NEW s, NEW M
  PROVE  LastIn(q, s, M) =>
           \/ LastIn(Tail(q), s, M)
           \/ Untouched(Tail(q), s) /\ Touches(Head(q), s) /\ Head(q) \in M
<1> DEFINE p == Tail(q)
<1>1. /\ Len(q) \in Nat /\ Len(q) >= 1 /\ Len(p) = Len(q) - 1 /\ Head(q) = q[1] /\ 1 \in 1..Len(q)
      /\ \A i \in 1..Len(p) : p[i] = q[i + 1] /\ i + 1 \in 1..Len(q)
      /\ \A i \in 1..Len(q) : i # 1 => i - 1 \in 1..Len(p)
  BY TailType
<1> HIDE DEF p
<1>2. ASSUME LastIn(q, s, M)
      PROVE  \/ LastIn(p, s, M)
             \/ Untouched(p, s) /\ Touches(Head(q), s) /\ Head(q) \in M
  <2>1. PICK i \in 1..Len(q) : /\ Touches(q[i], s) /\ q[i] \in M
                               /\ \A j \in 1..Len(q) : j > i => ~Touches(q[j], s)
    BY <1>2 DEF LastIn
  <2>2. CASE i = 1
    <3>1. \A j \in 1..Len(p) : ~Touches(p[j], s)
      BY <1>1, <2>1, <2>2
    <3> QED BY <1>1, <2>1, <2>2, <3>1 DEF Untouched
  <2>3. CASE i # 1
    <3>1. i - 1 \in 1..Len(p) /\ p[i - 1] = q[i]
      BY <1>1, <2>3
    <3>2. \A j \in 1..Len(p) : j > i - 1 => ~Touches(p[j], s)
      BY <1>1, <2>1
    <3> QED BY <2>1, <3>1, <3>2 DEF LastIn
  <2> QED BY <2>2, <2>3
<1> QED BY <1>2 DEF p

LEMMA EmptyQueue ==
  ASSUME NEW s
  PROVE  Untouched(<<>>, s) /\ \A M : ~LastIn(<<>>, s, M)
BY DEF Untouched, LastIn

(* What is right depends on the keys of the resource only. *)
LEMMA SameRight ==
  ASSUME NEW s, \A k \in Keys : SlotOf[k] = s => store'[k] = store[k]
  PROVE  Holding(s)' = Holding(s) /\ Right(s)' = Right(s) /\ Shown(s)' = Shown(s)
<1>1. Holding(s)' = Holding(s)
  BY DEF Holding
<1>2. {UpdateOf(k, store'[k]) : k \in {k \in Keys : SlotOf[k] = s /\ store'[k] # None}}
        = {UpdateOf(k, store[k]) : k \in {k \in Keys : SlotOf[k] = s /\ store[k] # None}}
  BY DEF UpdateOf
<1> QED BY <1>1, <1>2 DEF Right, Shown

LEMMA EmptyStore ==
  ASSUME NEW s, \A k \in Keys : store'[k] = None
  PROVE  Holding(s)' = {} /\ Right(s)' = {CacheClear} /\ Shown(s)' = {None}
BY DEF Holding, Right, Shown

LEMMA RightTypes ==
  ASSUME TypeInv, NEW s \in Slots, NEW m \in Right(s)
  PROVE  /\ m = CacheClear \/ (SlotOf[m.key] = s /\ m.val \in Shown(s) /\ m # CacheClear)
         /\ m = CacheClear <=> Holding(s) = {}
         /\ m = CacheClear => Shown(s) = {None}
         /\ Touches(m, s)
<1>1. CASE Holding(s) = {}
  BY <1>1 DEF Right, Shown, Touches
<1>2. CASE Holding(s) # {}
  <2>1. PICK k \in Keys : SlotOf[k] = s /\ store[k] # None /\ m = UpdateOf(k, store[k])
    BY <1>2 DEF Right
  <2>2. store[k] \in Vals
    BY <2>1 DEF TypeInv, TypeOK
  <2>3. m # CacheClear /\ m.key = k /\ m.val = store[k]
    BY <2>1, <2>2, MsgsTyped DEF UpdateOf
  <2>4. store[k] \in Holding(s)
    BY <2>1 DEF Holding
  <2> QED BY <1>2, <2>1, <2>3, <2>4 DEF Shown, Touches
<1> QED BY <1>1, <1>2

(* What the connections leave the proxy with, when they grow... *)
LEMMA WrittenArrives ==
  ASSUME TypeInv, NEW s \in Slots, NEW m \in Msg, write(m), UNCHANGED <<store, cep>>
  PROVE  /\ Touches(m, s) /\ m \in Right(s) => Arrives(s)'
         /\ ~Touches(m, s) /\ Arrives(s) => Arrives(s)'
<1>1. /\ Mine \in 1..Len(conns) /\ Len(conns') = Len(conns)
      /\ \A n \in 1..Len(conns) : n # Mine => conns'[n].msgs = conns[n].msgs
      /\ conns[Mine].msgs \in Seq(Msg) /\ conns'[Mine].msgs = Append(conns[Mine].msgs, m)
  BY WriteShape
<1>2. Right(s)' = Right(s) /\ Shown(s)' = Shown(s)
  BY SameRight
<1>3. \A n \in 1..Len(conns) : ~(n > Mine)
  BY DEF Mine, TypeInv, TypeOK
<1>4. ASSUME Touches(m, s), m \in Right(s)
      PROVE  Arrives(s)'
  <2>1. LastIn(conns'[Mine].msgs, s, Right(s)')
    BY <1>1, <1>2, <1>4, AppendQueue
  <2> QED BY <1>1, <1>3, <2>1 DEF Arrives
<1>5. ASSUME ~Touches(m, s), Arrives(s)
      PROVE  Arrives(s)'
  <2>1. \A n \in 1..Len(conns) : Untouched(conns[n].msgs, s) => Untouched(conns'[n].msgs, s)
    <3>1. Untouched(conns[Mine].msgs, s) => Untouched(Append(conns[Mine].msgs, m), s)
      BY <1>1, <1>5, AppendUntouched
    <3> QED BY <1>1, <3>1
  <2>2. \A n \in 1..Len(conns) :
          LastIn(conns[n].msgs, s, Right(s)) => LastIn(conns'[n].msgs, s, Right(s)')
    BY <1>1, <1>2, <1>5, AppendQueue
  <2> QED BY <1>1, <1>2, <1>5, <2>1, <2>2 DEF Arrives
<1> QED BY <1>4, <1>5

(* ...when nothing is added to them... *)
LEMMA SameArrives ==
  ASSUME NEW s, SameMsgs, cep'[s] = cep[s], Right(s)' = Right(s), Shown(s)' = Shown(s), Arrives(s)
  PROVE  Arrives(s)'
BY DEF Arrives, SameMsgs

LEMMA DialArrives ==
  ASSUME TypeInv, Dial, NEW s, Arrives(s)
  PROVE  Arrives(s)'
<1>1. Right(s)' = Right(s) /\ Shown(s)' = Shown(s) /\ cep' = cep
  BY SameRight DEF Dial, cepVars
<1> DEFINE new == [msgs |-> <<>>, open |-> TRUE]
<1>2. conns \in Seq(Conn) /\ conns' = Append(conns, new) /\ new \in Conn
  BY DEF Dial, TypeInv, TypeOK, Conn
<1>3. new.msgs = <<>>
  OBVIOUS
<1> HIDE DEF new
<1>4. /\ Len(conns') = Len(conns) + 1 /\ Len(conns) \in Nat /\ conns'[Len(conns) + 1] = new
      /\ \A n \in 1..Len(conns) : conns'[n] = conns[n] /\ n \in 1..Len(conns')
      /\ \A n \in 1..Len(conns') : n \in 1..Len(conns) \/ n = Len(conns) + 1
  BY <1>2
<1>5. \A n \in 1..Len(conns') : n \notin 1..Len(conns) => Untouched(conns'[n].msgs, s)
  BY <1>3, <1>4, EmptyQueue
<1>6. CASE \E n \in 1..Len(conns) :
             /\ LastIn(conns[n].msgs, s, Right(s))
             /\ \A m \in 1..Len(conns) : m > n => Untouched(conns[m].msgs, s)
  <2>1. PICK n \in 1..Len(conns) :
               /\ LastIn(conns[n].msgs, s, Right(s))
               /\ \A m \in 1..Len(conns) : m > n => Untouched(conns[m].msgs, s)
    BY <1>6
  <2>2. n \in 1..Len(conns') /\ LastIn(conns'[n].msgs, s, Right(s)')
    BY <1>1, <1>4, <2>1
  <2>3. \A m \in 1..Len(conns') : m > n => Untouched(conns'[m].msgs, s)
    BY <1>4, <1>5, <2>1
  <2> QED BY <2>2, <2>3 DEF Arrives
<1>7. CASE (\A n \in 1..Len(conns) : Untouched(conns[n].msgs, s)) /\ cep[s] \in Shown(s)
  <2>1. \A n \in 1..Len(conns') : Untouched(conns'[n].msgs, s)
    BY <1>4, <1>5, <1>7
  <2> QED BY <1>1, <1>7, <2>1 DEF Arrives
<1> QED BY <1>6, <1>7 DEF Arrives

(* ...and when the first one, without a message that counts, is given up. *)
LEMMA DroppedArrives ==
  ASSUME TypeInv, NEW s, conns # <<>>, ~conns[1].open, conns' = Tail(conns), UNCHANGED link,
         UNCHANGED <<store, cep>>, ~LastIn(conns[1].msgs, s, Right(s)), Arrives(s)
  PROVE  Arrives(s)'
<1>1. Right(s)' = Right(s) /\ Shown(s)' = Shown(s)
  BY SameRight
<1>2. /\ Len(conns') = Len(conns) - 1 /\ Len(conns) \in Nat
      /\ \A n \in 1..Len(conns') : conns'[n] = conns[n + 1] /\ n + 1 \in 1..Len(conns)
  BY DropFirst, TypeParts DEF TypeInv, TypeOK
<1>3. \A n \in 1..Len(conns) : n # 1 => n - 1 \in 1..Len(conns') /\ conns'[n - 1] = conns[n]
  <2> SUFFICES ASSUME NEW n \in 1..Len(conns), n # 1
               PROVE n - 1 \in 1..Len(conns') /\ conns'[n - 1] = conns[n]
    OBVIOUS
  <2>1. n - 1 \in 1..Len(conns') /\ (n - 1) + 1 = n
    BY <1>2
  <2> QED BY <1>2, <2>1
<1>4. CASE \E n \in 1..Len(conns) :
             /\ LastIn(conns[n].msgs, s, Right(s))
             /\ \A m \in 1..Len(conns) : m > n => Untouched(conns[m].msgs, s)
  <2>1. PICK n \in 1..Len(conns) :
               /\ LastIn(conns[n].msgs, s, Right(s))
               /\ \A m \in 1..Len(conns) : m > n => Untouched(conns[m].msgs, s)
    BY <1>4
  <2>2. n - 1 \in 1..Len(conns') /\ conns'[n - 1] = conns[n]
    BY <1>3, <2>1
  <2>3. \A m \in 1..Len(conns') : m > n - 1 => Untouched(conns'[m].msgs, s)
    <3> SUFFICES ASSUME NEW m \in 1..Len(conns'), m > n - 1 PROVE Untouched(conns'[m].msgs, s)
      OBVIOUS
    <3>1. conns'[m] = conns[m + 1] /\ m + 1 \in 1..Len(conns) /\ m + 1 > n
      BY <1>2
    <3> QED BY <2>1, <3>1
  <2> QED BY <1>1, <2>1, <2>2, <2>3 DEF Arrives
<1>5. CASE (\A n \in 1..Len(conns) : Untouched(conns[n].msgs, s)) /\ cep[s] \in Shown(s)
  BY <1>1, <1>2, <1>5 DEF Arrives
<1> QED BY <1>4, <1>5 DEF Arrives

-----------------------------------------------------------------------------
(* Up to date. *)

(* A step that leaves the cache and the channel alone. *)
LEMMA SameChannel ==
  ASSUME NEW s, Truthful(s), UNCHANGED <<store, outCh>>,
         SnapshotRight(s)', Holding(s) = {} \/ ~WillAsk' => OnItsWay(s)'
  PROVE  Truthful(s)'
<1>1. Holding(s)' = Holding(s) /\ Right(s)' = Right(s)
  BY SameRight
<1> QED BY <1>1 DEF Truthful, ChannelRight

(* The snapshot cannot bring back what the cache no longer holds. *)
LEMMA NothingToShow ==
  ASSUME TypeInv, NEW s \in Slots, Truthful(s), Holding(s) = {}, Untouched(outCh, s)
  PROVE  Arrives(s) /\ \A m \in snap : ~Touches(m, s)
<1>1. \A m \in snap : m # CacheClear
  BY MsgsTyped DEF TypeInv, TypeOK
<1>2. Right(s) = {CacheClear}
  BY DEF Right
<1>3. \A m \in snap : ~Touches(m, s)
  BY <1>1, <1>2 DEF Truthful, SnapshotRight
<1> QED BY <1>3 DEF Truthful, OnItsWay

LEMMA SendTruthful ==
  ASSUME TypeInv, NEW s \in Slots, Truthful(s), NEW k \in Keys, NEW v \in Vals, Send(k, v), ~Full
  PROVE  Truthful(s)'
<1>1. /\ store \in [Keys -> Vals \cup {None}] /\ outCh \in Seq(Msg) /\ UpdateOf(k, v) \in Msg
      /\ store' = [store EXCEPT ![k] = v] /\ outCh' = Append(outCh, UpdateOf(k, v))
      /\ UNCHANGED <<linkVars, cepVars>> /\ v # None
  BY MsgsTyped, IPCLinkAssumption DEF TypeInv, TypeOK, Send, push
<1>2. CASE SlotOf[k] = s
  <2>1. UpdateOf(k, v) \in Right(s)' /\ Touches(UpdateOf(k, v), s)
    <3>1. store'[k] = v
      BY <1>1
    <3>2. v \in Holding(s)'
      BY <1>1, <1>2, <3>1 DEF Holding
    <3>3. UpdateOf(k, v) \in {UpdateOf(j, store'[j]) : j \in {j \in Keys : SlotOf[j] = s /\ store'[j] # None}}
      BY <1>1, <1>2, <3>1
    <3>4. UpdateOf(k, v).key = k
      BY MsgsTyped
    <3> QED BY <1>2, <3>2, <3>3, <3>4 DEF Right, Touches
  <2>2. LastIn(outCh', s, Right(s)')
    BY <1>1, <2>1, AppendQueue
  <2>3. ~Untouched(outCh', s)
    BY <1>1, <2>1, AppendUntouched
  <2> QED BY <2>2, <2>3 DEF Truthful, ChannelRight, SnapshotRight, OnItsWay
<1>3. CASE SlotOf[k] # s
  <2>1. Holding(s)' = Holding(s) /\ Right(s)' = Right(s) /\ Shown(s)' = Shown(s)
    <3>1. \A j \in Keys : SlotOf[j] = s => store'[j] = store[j]
      BY <1>1, <1>3
    <3> QED BY <3>1, SameRight
  <2>2. ~Touches(UpdateOf(k, v), s)
    BY <1>3, MsgsTyped DEF Touches
  <2>3. Untouched(outCh', s) <=> Untouched(outCh, s)
    BY <1>1, <2>2, AppendUntouched
  <2>4. ChannelRight(s)'
    <3>1. LastIn(outCh, s, Right(s)) => LastIn(outCh', s, Right(s)')
      BY <1>1, <2>1, <2>2, AppendQueue
    <3> QED BY <2>3, <3>1 DEF Truthful, ChannelRight
  <2>5. SnapshotRight(s)'
    BY <1>1, <2>1, <2>3 DEF Truthful, SnapshotRight, linkVars
  <2>6. Arrives(s) => Arrives(s)'
    BY <1>1, <2>1, SameArrives DEF SameMsgs, linkVars, cepVars
  <2>7. OnItsWay(s) => OnItsWay(s)'
    BY <1>1, <2>3, <2>6 DEF OnItsWay, linkVars
  <2>8. WillAsk' <=> WillAsk
    BY <1>1 DEF WillAsk, linkVars, cepVars
  <2> QED BY <2>1, <2>4, <2>5, <2>7, <2>8 DEF Truthful
<1> QED BY <1>2, <1>3

LEMMA ClearTruthful ==
  ASSUME TypeInv, NEW s \in Slots, Clear, ~Full
  PROVE  Truthful(s)'
<1>1. Right(s)' = {CacheClear}
  BY EmptyStore DEF Clear
<1>2. outCh \in Seq(Msg) /\ outCh' = Append(outCh, CacheClear) /\ CacheClear \in Msg
  BY MsgsTyped DEF TypeInv, TypeOK, Clear, push
<1>3. Touches(CacheClear, s)
  BY DEF Touches
<1>4. LastIn(outCh', s, Right(s)') /\ ~Untouched(outCh', s)
  BY <1>1, <1>2, <1>3, AppendQueue, AppendUntouched
<1> QED BY <1>4 DEF Truthful, ChannelRight, SnapshotRight, OnItsWay

(* The proxy has no open connection to the link that it has accepted. *)
LEMMA MustAsk ==
  ASSUME TypeInv, Dial \/ hangUp
  PROVE  WillAsk'
<1>1. CASE hangUp
  BY <1>1 DEF hangUp, WillAsk
<1>2. CASE Dial
  <2>1. conns \in Seq(Conn) /\ (peer = "reading" => conns # <<>>) /\ peer' = peer
    BY <1>2 DEF Dial, cepVars, TypeInv, TypeOK
  <2> DEFINE new == [msgs |-> <<>>, open |-> TRUE]
  <2>2. conns' = Append(conns, new)
    BY <1>2 DEF Dial
  <2> HIDE DEF new
  <2>3. conns # <<>> => Len(conns') # 1
    BY <2>1, <2>2
  <2> QED BY <2>1, <2>3 DEF WillAsk
<1> QED BY <1>1, <1>2

LEMMA DialTruthful ==
  ASSUME TypeInv, NEW s \in Slots, Truthful(s), Dial
  PROVE  Truthful(s)'
<1>1. UNCHANGED <<store, outCh>> /\ snap' = {}
  BY DEF Dial
<1>2. SnapshotRight(s)'
  BY <1>1 DEF SnapshotRight
<1>3. Holding(s) = {} => OnItsWay(s)'
  BY <1>1, NothingToShow, DialArrives DEF OnItsWay
<1> QED BY <1>1, <1>2, <1>3, MustAsk, SameChannel

(* The link hangs up without losing anything but copies of a snapshot. *)
LEMMA HangUpTruthful ==
  ASSUME TypeInv, NEW s \in Slots, Truthful(s), hangUp, UNCHANGED <<store, outCh, cep>>
  PROVE  Truthful(s)'
<1>1. snap' = {} /\ SameMsgs
  BY HangUpShape
<1>2. SnapshotRight(s)'
  BY <1>1 DEF SnapshotRight
<1>3. Right(s)' = Right(s) /\ Shown(s)' = Shown(s)
  BY SameRight
<1>4. Holding(s) = {} => OnItsWay(s)'
  BY <1>1, <1>3, NothingToShow, SameArrives DEF OnItsWay
<1> QED BY <1>2, <1>4, MustAsk, SameChannel

LEMMA TransmitTruthful ==
  ASSUME TypeInv, NEW s \in Slots, Truthful(s), TransmitOut
  PROVE  Truthful(s)'
<1>0. /\ outCh \in Seq(Msg) /\ outCh # <<>> /\ outCh' = Tail(outCh) /\ snap = {} /\ snap' = {}
      /\ write(Head(outCh)) /\ UNCHANGED <<store, cep, link, peer, request>>
  BY DEF TypeInv, TypeOK, TransmitOut, cepVars
<1>1. PICK m \in Msg : m = Head(outCh)
  BY <1>0, TailType
<1>2. Holding(s)' = Holding(s) /\ Right(s)' = Right(s)
  BY <1>0, SameRight
<1>3. WillAsk' <=> WillAsk
  BY <1>0, <1>1, WriteShape DEF WillAsk
<1>4. SnapshotRight(s)'
  BY <1>0 DEF SnapshotRight
<1>5. CASE Untouched(outCh, s)
  <2>1. Untouched(outCh', s) /\ ~Touches(m, s)
    BY <1>0, <1>1, <1>5, TailUntouched
  <2>2. Arrives(s) => Arrives(s)'
    BY <1>0, <1>1, <2>1, WrittenArrives
  <2>3. OnItsWay(s) => OnItsWay(s)'
    BY <1>0, <1>5, <2>2 DEF OnItsWay
  <2> QED BY <1>2, <1>3, <1>4, <2>1, <2>3 DEF Truthful, ChannelRight
<1>6. CASE LastIn(outCh, s, Right(s))
  <2>1. CASE LastIn(Tail(outCh), s, Right(s))
    <3>1. ~Untouched(outCh', s) /\ LastIn(outCh', s, Right(s)')
      BY <1>0, <1>2, <2>1 DEF LastIn, Untouched
    <3> QED BY <1>4, <3>1 DEF Truthful, ChannelRight, OnItsWay
  <2>2. CASE Untouched(Tail(outCh), s) /\ Touches(m, s) /\ m \in Right(s)
    <3>1. Arrives(s)'
      BY <1>0, <1>1, <2>2, WrittenArrives
    <3> QED BY <1>0, <1>4, <2>2, <3>1 DEF Truthful, ChannelRight, OnItsWay
  <2> QED BY <1>0, <1>1, <1>6, <2>1, <2>2, TailQueue
<1> QED BY <1>5, <1>6 DEF Truthful, ChannelRight

(* The message that is lost is not a cache_clear. *)
LEMMA LostTruthful ==
  ASSUME TypeInv, NEW s \in Slots, Truthful(s), TransmitOutFails, Head(outCh) # CacheClear
  PROVE  Truthful(s)'
<1>0. /\ outCh \in Seq(Msg) /\ outCh # <<>> /\ outCh' = Tail(outCh) /\ snap = {}
      /\ hangUp /\ UNCHANGED <<store, cep>>
  BY DEF TypeInv, TypeOK, TransmitOutFails, writeFails, cepVars
<1>1. snap' = {} /\ SameMsgs /\ WillAsk'
  BY <1>0, HangUpShape, MustAsk
<1>2. Holding(s)' = Holding(s) /\ Right(s)' = Right(s) /\ Shown(s)' = Shown(s)
  BY <1>0, SameRight
<1>3. SnapshotRight(s)'
  BY <1>1 DEF SnapshotRight
<1>4. CASE Untouched(outCh, s)
  <2>1. Untouched(outCh', s)
    BY <1>0, <1>4, TailUntouched
  <2>2. Holding(s) = {} => Arrives(s)'
    BY <1>0, <1>1, <1>2, <1>4, NothingToShow, SameArrives
  <2> QED BY <1>1, <1>2, <1>3, <2>1, <2>2 DEF Truthful, ChannelRight, OnItsWay
<1>5. CASE LastIn(outCh, s, Right(s))
  <2>1. CASE LastIn(Tail(outCh), s, Right(s))
    <3>1. ~Untouched(outCh', s) /\ LastIn(outCh', s, Right(s)')
      BY <1>0, <1>2, <2>1 DEF LastIn, Untouched
    <3> QED BY <1>3, <3>1 DEF Truthful, ChannelRight, OnItsWay
  <2>2. CASE Untouched(Tail(outCh), s) /\ Head(outCh) \in Right(s)
    <3>1. Holding(s) # {}
      BY <2>2 DEF Right
    <3> QED BY <1>0, <1>1, <1>2, <1>3, <2>2, <3>1 DEF Truthful, ChannelRight
  <2> QED BY <1>0, <1>5, <2>1, <2>2, TailQueue
<1> QED BY <1>4, <1>5 DEF Truthful, ChannelRight

LEMMA AnswerTruthful ==
  ASSUME TypeInv, NEW s \in Slots, Truthful(s), AnswerRequest
  PROVE  Truthful(s)'
<1>0. /\ UNCHANGED <<store, outCh, conns, cep>> /\ snap = {}
      /\ snap' = {UpdateOf(k, store[k]) : k \in {k \in Keys : store[k] # None}}
      /\ \A k \in Keys : store[k] # None => store[k] \in Vals
  BY DEF AnswerRequest, cepVars, TypeInv, TypeOK
<1>1. Holding(s)' = Holding(s) /\ Right(s)' = Right(s) /\ Shown(s)' = Shown(s)
  BY <1>0, SameRight
<1>2. SnapshotRight(s)'
  <2> SUFFICES ASSUME NEW m \in snap', Touches(m, s) PROVE m \in Right(s)
    BY <1>1 DEF SnapshotRight
  <2>1. PICK k \in Keys : store[k] # None /\ m = UpdateOf(k, store[k])
    BY <1>0
  <2>2. SlotOf[k] = s
    BY <1>0, <2>1, MsgsTyped DEF Touches
  <2>3. Holding(s) # {}
    BY <2>1, <2>2 DEF Holding
  <2> QED BY <2>1, <2>2, <2>3 DEF Right
<1>3. OnItsWay(s)'
  <2>1. CASE Holding(s) = {}
    <3>1. Untouched(outCh, s) => Arrives(s)'
      BY <1>0, <1>1, <2>1, NothingToShow, SameArrives DEF SameMsgs
    <3> QED BY <1>0, <3>1 DEF OnItsWay
  <2>2. CASE Holding(s) # {}
    <3>1. PICK k \in Keys : SlotOf[k] = s /\ store[k] # None
      BY <2>2 DEF Holding
    <3>2. UpdateOf(k, store[k]) \in snap' /\ Touches(UpdateOf(k, store[k]), s)
      BY <1>0, <3>1, MsgsTyped DEF Touches
    <3> QED BY <3>2 DEF OnItsWay
  <2> QED BY <2>1, <2>2
<1> QED BY <1>0, <1>2, <1>3, SameChannel

LEMMA SnapshotTruthful ==
  ASSUME TypeInv, NEW s \in Slots, Truthful(s), WriteSnapshot
  PROVE  Truthful(s)'
<1>0. PICK m \in snap : /\ write(m) /\ snap' = snap \ {m}
                        /\ UNCHANGED <<store, outCh, link, request, peer, cep>>
  BY DEF WriteSnapshot, cepVars
<1>1. m \in Msg
  BY MsgsTyped DEF TypeInv, TypeOK
<1>2. Holding(s)' = Holding(s) /\ Right(s)' = Right(s)
  BY <1>0, SameRight
<1>3. SnapshotRight(s)'
  BY <1>0, <1>2 DEF Truthful, SnapshotRight
<1>4. WillAsk' <=> WillAsk
  BY <1>0, <1>1, WriteShape DEF WillAsk
<1>5. OnItsWay(s) => OnItsWay(s)'
  <2> SUFFICES ASSUME OnItsWay(s), Untouched(outCh, s)
               PROVE (\E x \in snap' : Touches(x, s)) \/ Arrives(s)'
    BY <1>0 DEF OnItsWay
  <2>1. CASE Touches(m, s)
    <3>1. m \in Right(s)
      BY <2>1 DEF Truthful, SnapshotRight
    <3> QED BY <1>0, <1>1, <2>1, <3>1, WrittenArrives
  <2>2. CASE ~Touches(m, s)
    <3>1. (\E x \in snap : Touches(x, s)) \/ Arrives(s)
      BY DEF OnItsWay
    <3>2. Arrives(s) => Arrives(s)'
      BY <1>0, <1>1, <2>2, WrittenArrives
    <3> QED BY <1>0, <2>2, <3>1, <3>2
  <2> QED BY <2>1, <2>2
<1> QED BY <1>0, <1>3, <1>4, <1>5, SameChannel DEF Truthful

LEMMA AcceptTruthful ==
  ASSUME TypeInv, NEW s \in Slots, Truthful(s), Accept
  PROVE  Truthful(s)'
<1>1. UNCHANGED <<store, outCh, snap, conns, cep>> /\ WillAsk'
  BY DEF Accept, WillAsk
<1>2. Right(s)' = Right(s) /\ Shown(s)' = Shown(s)
  BY <1>1, SameRight
<1>3. SnapshotRight(s)'
  BY <1>1, <1>2 DEF Truthful, SnapshotRight
<1>4. Holding(s) = {} => OnItsWay(s)'
  BY <1>1, <1>2, NothingToShow, SameArrives DEF SameMsgs, OnItsWay
<1> QED BY <1>1, <1>3, <1>4, SameChannel

LEMMA DroppedTruthful ==
  ASSUME TypeInv, NEW s \in Slots, Truthful(s), AcceptFails \/ EndOfStream,
         ~(CacheClear \in ToSet(conns[1].msgs))
  PROVE  Truthful(s)'
<1>1. /\ UNCHANGED <<store, outCh, snap, cep, link>> /\ conns' = Tail(conns) /\ ~conns[1].open
      /\ conns # <<>> /\ peer' = "accepting" /\ WillAsk'
  BY DEF AcceptFails, EndOfStream, cepVars, WillAsk, TypeInv, TypeOK
<1>2. Right(s)' = Right(s) /\ Shown(s)' = Shown(s)
  BY <1>1, SameRight
<1>3. SnapshotRight(s)'
  BY <1>1, <1>2 DEF Truthful, SnapshotRight
<1>4. conns[1].msgs \in Seq(Msg)
  <2>1. conns \in Seq(Conn) /\ conns # <<>>
    BY <1>1 DEF TypeInv, TypeOK
  <2>2. conns[1] \in Conn
    BY <2>1
  <2> QED BY <2>2 DEF Conn
<1>5. Holding(s) = {} => ~LastIn(conns[1].msgs, s, Right(s))
  <2> SUFFICES ASSUME Holding(s) = {}, LastIn(conns[1].msgs, s, {CacheClear}) PROVE FALSE
    BY DEF Right
  <2>1. PICK i \in 1..Len(conns[1].msgs) : conns[1].msgs[i] = CacheClear
    BY DEF LastIn
  <2>2. i \in DOMAIN conns[1].msgs
    BY <1>4
  <2> QED BY <2>1, <2>2 DEF ToSet
<1>6. Holding(s) = {} => OnItsWay(s)'
  BY <1>1, <1>5, NothingToShow, DroppedArrives DEF OnItsWay
<1> QED BY <1>1, <1>3, <1>6, SameChannel

(* The proxy takes the next message of its connection. *)
LEMMA ListenArrives ==
  ASSUME TypeInv, NEW s \in Slots, Listen, Arrives(s)
  PROVE  Arrives(s)'
<1>0. /\ conns \in Seq(Conn) /\ 1 \in 1..Len(conns) /\ conns[1] \in Conn
      /\ conns[1].msgs \in Seq(Msg) /\ conns[1].msgs # <<>> /\ UNCHANGED store
  <2>1. conns \in Seq(Conn) /\ conns # <<>>
    BY DEF TypeInv, TypeOK, Listen
  <2>2. 1 \in 1..Len(conns) /\ conns[1] \in Conn
    BY <2>1
  <2> QED BY <2>1, <2>2 DEF Listen, Conn
<1>1. /\ Len(conns') = Len(conns) /\ conns'[1].msgs = Tail(conns[1].msgs)
      /\ \A n \in 1..Len(conns) : n # 1 => conns'[n].msgs = conns[n].msgs
  <2> DEFINE new == [conns[1] EXCEPT !.msgs = Tail(@)]
  <2>1. conns' = [conns EXCEPT ![1] = new] /\ new.msgs = Tail(conns[1].msgs)
    BY <1>0 DEF Listen, Conn
  <2> HIDE DEF new
  <2> QED BY <1>0, <2>1
<1>2. Right(s)' = Right(s) /\ Shown(s)' = Shown(s)
  BY <1>0, SameRight
<1>3. PICK m \in Msg : m = Head(conns[1].msgs)
  BY <1>0, TailType
<1>4. /\ m = CacheClear => cep'[s] = None
      /\ m # CacheClear => cep'[s] = IF SlotOf[m.key] = s THEN m.val ELSE cep[s]
  BY <1>3 DEF Listen, TypeInv, TypeOK
<1>5. Untouched(conns[1].msgs, s) => Untouched(conns'[1].msgs, s) /\ ~Touches(m, s)
  BY <1>0, <1>1, <1>3, TailUntouched
<1>6. CASE \E n \in 1..Len(conns) :
             /\ LastIn(conns[n].msgs, s, Right(s))
             /\ \A k \in 1..Len(conns) : k > n => Untouched(conns[k].msgs, s)
  <2>1. PICK n \in 1..Len(conns) :
               /\ LastIn(conns[n].msgs, s, Right(s))
               /\ \A k \in 1..Len(conns) : k > n => Untouched(conns[k].msgs, s)
    BY <1>6
  <2>2. CASE n # 1
    BY <1>1, <1>2, <2>1, <2>2 DEF Arrives
  <2>3. CASE n = 1 /\ LastIn(Tail(conns[1].msgs), s, Right(s))
    BY <1>0, <1>1, <1>2, <2>1, <2>3 DEF Arrives
  <2>4. CASE n = 1 /\ Untouched(Tail(conns[1].msgs), s) /\ Touches(m, s) /\ m \in Right(s)
    <3>1. \A k \in 1..Len(conns') : Untouched(conns'[k].msgs, s)
      BY <1>1, <2>1, <2>4
    <3>2. cep'[s] \in Shown(s)
      BY <1>4, <2>4, RightTypes
    <3> QED BY <1>2, <3>1, <3>2 DEF Arrives
  <2> QED BY <1>0, <1>3, <2>1, <2>2, <2>3, <2>4, TailQueue
<1>7. CASE (\A n \in 1..Len(conns) : Untouched(conns[n].msgs, s)) /\ cep[s] \in Shown(s)
  <2>1. \A n \in 1..Len(conns') : Untouched(conns'[n].msgs, s)
    BY <1>0, <1>1, <1>5, <1>7
  <2>2. cep'[s] = cep[s]
    BY <1>0, <1>4, <1>5, <1>7 DEF Touches
  <2> QED BY <1>2, <1>7, <2>1, <2>2 DEF Arrives
<1> QED BY <1>6, <1>7 DEF Arrives

LEMMA ListenTruthful ==
  ASSUME TypeInv, NEW s \in Slots, Truthful(s), Listen
  PROVE  Truthful(s)'
<1>1. UNCHANGED <<store, outCh, snap, link, request, peer>>
  BY DEF Listen
<1>2. Len(conns') = Len(conns)
  BY DEF Listen, TypeInv, TypeOK
<1>3. Right(s)' = Right(s)
  BY <1>1, SameRight
<1>4. SnapshotRight(s)'
  BY <1>1, <1>3 DEF Truthful, SnapshotRight
<1>5. OnItsWay(s) => OnItsWay(s)'
  BY <1>1, ListenArrives DEF OnItsWay
<1>6. WillAsk' <=> WillAsk
  BY <1>1, <1>2 DEF WillAsk
<1> QED BY <1>1, <1>4, <1>5, <1>6, SameChannel DEF Truthful

LEMMA ProxyRestartTruthful ==
  ASSUME TypeInv, NEW s \in Slots, Truthful(s), ProxyRestart
  PROVE  Truthful(s)'
<1>1. /\ UNCHANGED <<store, outCh, snap>> /\ conns' = <<>> /\ cep'[s] = None /\ peer' = "accepting"
  BY DEF ProxyRestart
<1>2. Right(s)' = Right(s) /\ Shown(s)' = Shown(s)
  BY <1>1, SameRight
<1>3. SnapshotRight(s)'
  BY <1>1, <1>2 DEF Truthful, SnapshotRight
<1>4. Holding(s) = {} => OnItsWay(s)'
  <2>1. Holding(s) = {} => Shown(s) = {None}
    BY DEF Shown
  <2>2. Len(conns') = 0
    BY <1>1
  <2> QED BY <1>1, <1>2, <2>1, <2>2 DEF OnItsWay, Arrives
<1>5. WillAsk'
  BY <1>1 DEF WillAsk
<1> QED BY <1>1, <1>3, <1>4, <1>5, SameChannel

LEMMA DaemonRestartTruthful ==
  ASSUME TypeInv, NEW s \in Slots, Truthful(s), DaemonRestart,
         \A k \in Keys : store[k] = None, ~(CacheClear \in ToSet(outCh))
  PROVE  Truthful(s)'
<1>1. /\ store' = [k \in Keys |-> None] /\ outCh' = <<>> /\ hangUp /\ cep' = cep
      /\ outCh \in Seq(Msg)
  BY DEF DaemonRestart, cepVars, TypeInv, TypeOK
<1>2. snap' = {} /\ SameMsgs
  BY <1>1, HangUpShape
<1>3. Holding(s) = {} /\ Right(s) = {CacheClear}
  BY DEF Holding, Right
<1>4. Right(s)' = Right(s) /\ Shown(s)' = Shown(s)
  BY <1>1, SameRight
<1>5. ~LastIn(outCh, s, Right(s))
  <2> SUFFICES ASSUME LastIn(outCh, s, {CacheClear}) PROVE FALSE
    BY <1>3
  <2>1. PICK i \in 1..Len(outCh) : outCh[i] = CacheClear
    BY DEF LastIn
  <2>2. i \in DOMAIN outCh
    BY <1>1
  <2> QED BY <2>1, <2>2 DEF ToSet
<1>6. Untouched(outCh, s)
  BY <1>5 DEF Truthful, ChannelRight
<1>7. Arrives(s)'
  BY <1>1, <1>2, <1>3, <1>4, <1>6, NothingToShow, SameArrives
<1>8. Untouched(outCh', s)
  BY <1>1, EmptyQueue
<1> QED BY <1>2, <1>7, <1>8 DEF Truthful, ChannelRight, SnapshotRight, OnItsWay

LEMMA LinkNext == LinkInv /\ [Next]_vars => LinkInv'
<1> SUFFICES ASSUME LinkInv, [Next]_vars PROVE LinkInv'
  OBVIOUS
<1>0. TypeInv /\ TypeInv' /\ HistoryType
  BY TypeNext, TypeParts DEF LinkInv
<1> SUFFICES ASSUME ~dropped', ~clearLost', NEW s \in Slots PROVE Truthful(s)'
  BY <1>0 DEF LinkInv
<1>1. ~dropped /\ ~clearLost
  <2>1. CASE UNCHANGED <<dropped, clearLost>>
    BY <2>1
  <2>2. CASE \E k \in Keys, v \in Vals : Send(k, v)
    <3>1. dropped' = (dropped \/ Full) /\ clearLost' = clearLost
      BY <2>2 DEF Send
    <3> QED BY <3>1
  <2>3. CASE Clear
    BY <2>3 DEF Clear
  <2>4. CASE TransmitOutFails
    BY <2>4 DEF TransmitOutFails
  <2>5. CASE AcceptFails
    BY <2>5 DEF AcceptFails
  <2>6. CASE DaemonRestart
    BY <2>6 DEF DaemonRestart
  <2>7. CASE \/ Dial \/ TransmitOut \/ AnswerRequest \/ WriteSnapshot \/ WriteSnapshotFails
             \/ PeerGone
    BY <2>1, <2>7 DEF Dial, TransmitOut, AnswerRequest, WriteSnapshot, WriteSnapshotFails,
       PeerGone, history
  <2>8. CASE Accept \/ Listen \/ EndOfStream \/ ProxyRestart \/ UNCHANGED vars
    BY <2>1, <2>8 DEF Accept, Listen, EndOfStream, ProxyRestart, vars, history
  <2> QED BY <2>2, <2>3, <2>4, <2>5, <2>6, <2>7, <2>8 DEF Next
<1>2. Truthful(s)
  BY <1>1 DEF LinkInv
<1>3. CASE UNCHANGED vars
  <2>1. Right(s)' = Right(s) /\ Shown(s)' = Shown(s) /\ Holding(s)' = Holding(s)
    BY <1>3, SameRight DEF vars
  <2>2. Arrives(s) => Arrives(s)'
    BY <1>3, <2>1, SameArrives DEF vars, linkVars, cepVars, SameMsgs
  <2> QED BY <1>2, <1>3, <2>1, <2>2
    DEF vars, linkVars, cepVars, Truthful, ChannelRight, SnapshotRight, OnItsWay, WillAsk
<1>4. CASE \E k \in Keys, v \in Vals : Send(k, v)
  <2>1. ~Full
    BY <1>4 DEF Send
  <2> QED BY <1>0, <1>2, <1>4, <2>1, SendTruthful
<1>5. CASE Clear
  <2>1. ~Full
    BY <1>5 DEF Clear
  <2> QED BY <1>0, <1>5, <2>1, ClearTruthful
<1>6. CASE Dial
  BY <1>0, <1>2, <1>6, DialTruthful
<1>7. CASE TransmitOut
  BY <1>0, <1>2, <1>7, TransmitTruthful
<1>8. CASE TransmitOutFails
  <2>1. Head(outCh) # CacheClear
    BY <1>8 DEF TransmitOutFails
  <2> QED BY <1>0, <1>2, <1>8, <2>1, LostTruthful
<1>9. CASE AnswerRequest
  BY <1>0, <1>2, <1>9, AnswerTruthful
<1>10. CASE WriteSnapshot
  BY <1>0, <1>2, <1>10, SnapshotTruthful
<1>11. CASE WriteSnapshotFails \/ PeerGone
  BY <1>0, <1>2, <1>11, HangUpTruthful DEF WriteSnapshotFails, PeerGone, writeFails, cepVars
<1>12. CASE Accept
  BY <1>0, <1>2, <1>12, AcceptTruthful
<1>13. CASE AcceptFails
  <2>1. ~(CacheClear \in ToSet(conns[1].msgs))
    BY <1>13 DEF AcceptFails
  <2> QED BY <1>0, <1>2, <1>13, <2>1, DroppedTruthful
<1>14. CASE Listen
  BY <1>0, <1>2, <1>14, ListenTruthful
<1>15. CASE EndOfStream
  <2>1. ~(CacheClear \in ToSet(conns[1].msgs))
    BY <1>15 DEF EndOfStream, ToSet
  <2> QED BY <1>0, <1>2, <1>15, <2>1, DroppedTruthful
<1>16. CASE ProxyRestart
  BY <1>0, <1>2, <1>16, ProxyRestartTruthful
<1>17. CASE DaemonRestart
  <2>1. (\A k \in Keys : store[k] = None) /\ ~(CacheClear \in ToSet(outCh))
    BY <1>17 DEF DaemonRestart
  <2> QED BY <1>0, <1>2, <1>17, <2>1, DaemonRestartTruthful
<1> QED BY <1>3, <1>4, <1>5, <1>6, <1>7, <1>8, <1>9, <1>10, <1>11, <1>12, <1>13, <1>14, <1>15,
           <1>16, <1>17 DEF Next

LEMMA LinkInit == Init => LinkInv
<1> SUFFICES ASSUME Init, NEW s \in Slots PROVE Truthful(s)
  BY TypeInit DEF LinkInv
<1>1. outCh = <<>> /\ snap = {} /\ conns = <<>> /\ cep[s] = None /\ \A k \in Keys : store[k] = None
  BY DEF Init
<1>2. Shown(s) = {None}
  BY <1>1 DEF Shown, Holding
<1>3. Untouched(outCh, s) /\ Len(conns) = 0
  BY <1>1, EmptyQueue
<1>4. Arrives(s)
  BY <1>1, <1>2, <1>3 DEF Arrives
<1> QED BY <1>1, <1>3, <1>4 DEF Truthful, ChannelRight, SnapshotRight, OnItsWay

(* When everything that was on its way has arrived the proxy shows what    *)
(* the cache holds, for every interleaving of updates, clears, snapshots,  *)
(* write timeouts, reconnections and restarts, as long as no message was   *)
(* dropped at a full outbound channel and no cache_clear was lost.         *)
THEOREM ProxyUpToDate == Spec => []UpToDate
<1>1. LinkInv => UpToDate
  <2> SUFFICES ASSUME LinkInv, Settled, ~dropped, ~clearLost, NEW s \in Slots
               PROVE cep[s] \in Shown(s)
    BY DEF UpToDate, Agree, Shown, Holding
  <2>1. Truthful(s) /\ outCh = <<>> /\ snap = {} /\ ~WillAsk /\ Len(conns) = 1
        /\ conns[1].msgs = <<>>
    BY DEF LinkInv, Settled, WillAsk
  <2>2. Untouched(outCh, s) /\ ~LastIn(conns[1].msgs, s, Right(s))
    BY <2>1, EmptyQueue
  <2>3. Arrives(s)
    BY <2>1, <2>2 DEF Truthful, OnItsWay
  <2> QED BY <2>1, <2>2, <2>3 DEF Arrives
<1> QED BY LinkInit, LinkNext, <1>1, PTL DEF Spec

-----------------------------------------------------------------------------
(***************************************************************************)
(* ProxyEvents.  The invariant says of each queue of publications what its *)
(* subscribers will have been told once it is empty (Claims), provided the *)
(* other queue is empty; of the overall state, that told.sync is the       *)
(* remembered one or the one about to be remembered (OverallInv); and of   *)
(* the window, that phc2sys is found undisciplined only over a system      *)
(* clock in FREERUN (WindowInv).                                           *)
(***************************************************************************)
Who == {"reader", "timer"}
Maybe == SyncStates \cup {""}
Sources == {"", "ptp4l", "ts2phc"}
StatRec == [state : Maybe, proc : Sources \cup {"phc2sys", "chronyd"}, alias : BOOLEAN]
IsStat(s) ==
  /\ DOMAIN s \subseteq Clocks /\ s \in [DOMAIN s -> StatRec]
  /\ Has(s, "master") => s["master"].proc \in Sources
Pub == [step : {"expire", "event", "compare", "update"}, type : {"ptp", "os"}, state : SyncStates]

CoreTypes ==
  /\ profile \in ProxyProfiles /\ IsStat(stat) /\ overall \in Maybe /\ timer \in BOOLEAN
  /\ todo \in [Who -> Seq(Pub)] /\ told \in [{"ptp", "os", "sync"} -> Maybe]
  /\ silent \in {"no", "yes", "torn"}
SideTypes ==
  /\ slaves \subseteq ProxyPorts /\ source \in Sources /\ gmState \in Maybe
  /\ phase \in {"idle", "selecting", "sourceSelected", "undisciplined"}
  /\ settle \in BOOLEAN /\ settled \in BOOLEAN
ProxyTypes == CoreTypes /\ SideTypes

(* What the profile of a node excludes. *)
ProfileFits(s) ==
  CASE profile.type = "OC" -> DOMAIN s \cap {"GM", "T-BC", "nic"} = {}
    [] profile.type = "T-BC" -> ~Has(s, "GM")
    [] OTHER -> /\ ~Has(s, "T-BC")
                /\ Has(s, "master") => /\ s["master"].state = "" /\ ~s["master"].alias
                                       /\ s["master"].proc # "ptp4l"
QueuesFit ==
  /\ \A k \in 1..Len(todo.reader) : todo.reader[k].step # "expire"
  /\ \A who \in Who : \A k \in 2..Len(todo[who]) : todo[who][k].step = "event"
  /\ Len(todo.timer) <= 1
  /\ \A k \in 1..Len(todo.timer) :
        todo.timer[k].type = "ptp" /\ (todo.timer[k].step = "expire" => todo.timer[k].state = "FREERUN")
TimerFits == timer \/ todo.timer # <<>> => profile.type = "OC" /\ Known("master")
SourceFits ==
  /\ profile.type = "T-GM" => slaves = {} /\ source # "ptp4l"
  /\ source # "" => Known("master")

WindowInv ==
  /\ phase = "sourceSelected" => Known("realtime")
  /\ phase = "undisciplined" /\ ~profile.chronyd =>
       Known("realtime") /\ stat["realtime"].state = "FREERUN"

(* The states that a pull answers from. *)
StateOf(s, k) == IF Has(s, k) THEN s[k].state ELSE ""
PtpState(s) == StateOf(s, GetMainClockName(s))
OsState(s) == IF StateOf(s, "chronyd") # "" THEN StateOf(s, "chronyd") ELSE StateOf(s, "realtime")
BothOs(s) == StateOf(s, "chronyd") # "" /\ Has(s, "realtime")
SyncState(p, o) == IF p = "" /\ o = "" THEN "" ELSE Worst({p, o} \ {""}, "LOCKED")

(* The last event of a type that is told or waits in q says v. *)
Says(e, type) == e.step = "event" /\ e.type = type
Tells(t, q, type, v) ==
  \/ t[type] = v /\ \A k \in 1..Len(q) : ~Says(q[k], type)
  \/ \E k \in 1..Len(q) : /\ Says(q[k], type) /\ q[k].state = v
                          /\ \A j \in 1..Len(q) : j > k => ~Says(q[j], type)
SyncClaim(t, p, o, both, q) ==
  \/ both
  \/ IF q = <<>> THEN SyncState(p, o) \in {"", t.sync}
     ELSE LET last == q[Len(q)]
          IN CASE last.step = "expire" -> TRUE
               [] last.step = "update" -> SyncState(p, o) \in {"", last.state}
               [] OTHER -> last.state \in {p, o}
OsClaim(t, o, both, q) == o = "" \/ both \/ Tells(t, q, "os", o)
PtpClaim(t, p, q) == p = "" \/ (q # <<>> /\ q[1].step = "expire") \/ Tells(t, q, "ptp", p)
Claims(t, p, o, both, q, muted) ==
  muted # "torn" =>
    /\ OsClaim(t, o, both, q)
    /\ muted = "no" => PtpClaim(t, p, q) /\ SyncClaim(t, p, o, both, q)
Updating(who) == todo[who] # <<>> /\ todo[who][1].step = "update"
OverallInv ==
  silent # "torn" =>
    /\ \A who \in Who : Updating(who) => told.sync = todo[who][1].state
    /\ (\A who \in Who : ~Updating(who)) => told.sync = overall
ClaimInv ==
  \A who \in Who : todo[Other(who)] = <<>> =>
     Claims(told, PtpState(stat), OsState(stat), BothOs(stat), todo[who], silent)
Core == CoreTypes /\ ProfileFits(stat) /\ QueuesFit /\ TimerFits /\ OverallInv /\ ClaimInv
Side == SideTypes /\ SourceFits /\ WindowInv
ProxyInv == Core /\ Side

Events == [step : {"event"}, type : {"ptp", "os"}, state : SyncStates]
CtxTypes(c) ==
  /\ DOMAIN c = {"stat", "pubs", "timer", "silent"}
  /\ IsStat(c.stat) /\ ProfileFits(c.stat) /\ DOMAIN stat \subseteq DOMAIN c.stat
  /\ c.pubs \in Seq(Events) /\ c.timer \in BOOLEAN /\ c.silent \in {"no", "yes", "torn"}
  /\ c.timer => profile.type = "OC" /\ Has(c.stat, "master")
  /\ silent = "torn" => c.silent = "torn"
CtxOs(c) ==
  c.silent # "torn" => OsClaim(told, OsState(c.stat), BothOs(c.stat), todo.timer \o c.pubs)
CtxClaims(c) ==
  Claims(told, PtpState(c.stat), OsState(c.stat), BothOs(c.stat), todo.timer \o c.pubs, c.silent)
KeepsRealtime(c) ==
  Known("realtime") => c.stat["realtime"].state \in {stat["realtime"].state, "FREERUN"}

LEMMA AppendOs ==
  ASSUME NEW t, NEW p, NEW o, NEW both, NEW q \in Seq(Pub), NEW m, NEW v \in SyncStates,
         Claims(t, p, o, both, q, m), NEW o2, NEW both2, both => both2, o2 = v \/ both2
  PROVE  Claims(t, p, o2, both2, Append(q, Event("os", v)), m)
<1> DEFINE e == Event("os", v)
           r == Append(q, e)
<1>0. e \in Pub
  BY DEF Event, Pub
<1>1. /\ Len(r) = Len(q) + 1 /\ Len(q) \in Nat /\ r[Len(r)] = e /\ r # <<>>
      /\ \A k \in 1..Len(q) : k \in 1..Len(r) /\ r[k] = q[k]
      /\ \A k \in 1..Len(r) : k \in 1..Len(q) \/ k = Len(r)
      /\ Len(r) \in 1..Len(r) /\ \A k \in 1..Len(r) : ~(k > Len(r))
      /\ q # <<>> => r[1] = q[1]
  <2> HIDE DEF e
  <2>1. Len(r) = Len(q) + 1 /\ Len(q) \in Nat /\ \A k \in 1..Len(q) : r[k] = q[k]
    BY <1>0
  <2>2. r[Len(q) + 1] = e
    BY <1>0
  <2>3. q # <<>> => Len(q) >= 1
    BY <1>0
  <2> HIDE DEF r
  <2>4. r # <<>>
    BY <2>1
  <2> QED BY <2>1, <2>2, <2>3, <2>4
<1>2. e.step = "event" /\ e.type = "os" /\ e.state = v
  BY DEF Event
<1> HIDE DEF e, r
<1>3. OsClaim(t, o2, both2, r)
  BY <1>1, <1>2 DEF OsClaim, Tells, Says
<1>4. ASSUME PtpClaim(t, p, q) PROVE PtpClaim(t, p, r)
  <2>1. CASE Tells(t, q, "ptp", p)
    <3>1. CASE t["ptp"] = p /\ \A k \in 1..Len(q) : ~Says(q[k], "ptp")
      BY <3>1, <1>1, <1>2 DEF PtpClaim, Tells, Says
    <3>2. CASE \E k \in 1..Len(q) : /\ Says(q[k], "ptp") /\ q[k].state = p
                                    /\ \A j \in 1..Len(q) : j > k => ~Says(q[j], "ptp")
      <4>1. PICK k \in 1..Len(q) : /\ Says(q[k], "ptp") /\ q[k].state = p
                                  /\ \A j \in 1..Len(q) : j > k => ~Says(q[j], "ptp")
        BY <3>2
      <4>2. k \in 1..Len(r) /\ Says(r[k], "ptp") /\ r[k].state = p
        BY <4>1, <1>1
      <4>3. \A j \in 1..Len(r) : j > k => ~Says(r[j], "ptp")
        BY <4>1, <1>1, <1>2 DEF Says
      <4> QED BY <4>2, <4>3 DEF PtpClaim, Tells
    <3> QED BY <2>1, <3>1, <3>2 DEF Tells
  <2> QED BY <1>4, <2>1, <1>1 DEF PtpClaim
<1>5. SyncClaim(t, p, o2, both2, r)
  BY <1>1, <1>2 DEF SyncClaim
<1> QED BY <1>3, <1>4, <1>5 DEF Claims, r, e

LEMMA AppendPtp ==
  ASSUME NEW t, NEW p, NEW o, NEW both, NEW q \in Seq(Pub), NEW m, NEW m2, NEW v \in SyncStates,
         m # "torn" => OsClaim(t, o, both, q), m = "torn" => m2 = "torn", m2 = "no" => p = v
  PROVE  Claims(t, p, o, both, Append(q, Event("ptp", v)), m2)
<1> DEFINE e == Event("ptp", v)
           r == Append(q, e)
<1>0. e \in Pub
  BY DEF Event, Pub
<1>1. /\ Len(r) = Len(q) + 1 /\ Len(q) \in Nat /\ r[Len(r)] = e /\ r # <<>>
      /\ \A k \in 1..Len(q) : k \in 1..Len(r) /\ r[k] = q[k]
      /\ \A k \in 1..Len(r) : k \in 1..Len(q) \/ k = Len(r)
      /\ Len(r) \in 1..Len(r) /\ \A k \in 1..Len(r) : ~(k > Len(r))
      /\ q # <<>> => r[1] = q[1]
  <2> HIDE DEF e
  <2>1. Len(r) = Len(q) + 1 /\ Len(q) \in Nat /\ \A k \in 1..Len(q) : r[k] = q[k]
    BY <1>0
  <2>2. r[Len(q) + 1] = e
    BY <1>0
  <2>3. q # <<>> => Len(q) >= 1
    BY <1>0
  <2> HIDE DEF r
  <2>4. r # <<>>
    BY <2>1
  <2> QED BY <2>1, <2>2, <2>3, <2>4
<1>2. e.step = "event" /\ e.type = "ptp" /\ e.state = v
  BY DEF Event
<1> HIDE DEF e, r
<1>3. ASSUME OsClaim(t, o, both, q) PROVE OsClaim(t, o, both, r)
  <2>1. CASE Tells(t, q, "os", o)
    <3>1. CASE t["os"] = o /\ \A k \in 1..Len(q) : ~Says(q[k], "os")
      BY <3>1, <1>1, <1>2 DEF OsClaim, Tells, Says
    <3>2. CASE \E k \in 1..Len(q) : /\ Says(q[k], "os") /\ q[k].state = o
                                    /\ \A j \in 1..Len(q) : j > k => ~Says(q[j], "os")
      <4>1. PICK k \in 1..Len(q) : /\ Says(q[k], "os") /\ q[k].state = o
                                  /\ \A j \in 1..Len(q) : j > k => ~Says(q[j], "os")
        BY <3>2
      <4>2. k \in 1..Len(r) /\ Says(r[k], "os") /\ r[k].state = o
        BY <4>1, <1>1
      <4>3. \A j \in 1..Len(r) : j > k => ~Says(r[j], "os")
        BY <4>1, <1>1, <1>2 DEF Says
      <4> QED BY <4>2, <4>3 DEF OsClaim, Tells
    <3> QED BY <2>1, <3>1, <3>2 DEF Tells
  <2> QED BY <1>3, <2>1 DEF OsClaim
<1>4. m2 = "no" => PtpClaim(t, p, r) /\ SyncClaim(t, p, o, both, r)
  BY <1>1, <1>2 DEF PtpClaim, SyncClaim, Tells, Says
<1> QED BY <1>3, <1>4 DEF Claims, r, e

LEMMA ClaimsStay ==
  ASSUME NEW t, NEW p, NEW o, NEW both, NEW q, NEW m, Claims(t, p, o, both, q, m),
         NEW p2, NEW both2, both => both2, NEW m2, m = "torn" => m2 = "torn",
         m2 = "no" => m = "no" /\ p2 = p
  PROVE  Claims(t, p2, o, both2, q, m2)
BY DEF Claims, OsClaim, SyncClaim

LEMMA AppendAfter ==
  ASSUME NEW q \in Seq(Pub), NEW r \in Seq(Pub), NEW e \in Pub
  PROVE  q \o Append(r, e) = Append(q \o r, e)
OBVIOUS
-----------------------------------------------------------------------------
Procs == Sources \cup {"phc2sys", "chronyd"}

LEMMA NewContext ==
  ASSUME ProxyInv, Reader
  PROVE  CtxTypes(Context) /\ CtxClaims(Context) /\ KeepsRealtime(Context)
<1>1. Claims(told, PtpState(stat), OsState(stat), BothOs(stat), todo.timer, silent)
  BY DEF ProxyInv, Core, ClaimInv, Other, Reader, Who
<1>a. todo.timer \in Seq(Pub)
  BY DEF ProxyInv, Core, CoreTypes, Who
<1>2. \A q \in Seq(Pub) : q \o <<>> = q
  OBVIOUS
<1>3. Context = [stat |-> stat, pubs |-> <<>>, timer |-> timer, silent |-> silent]
  BY DEF Context
<1>4. CtxClaims(Context)
  BY <1>1, <1>a, <1>2, <1>3 DEF CtxClaims
<1>5. CtxTypes(Context)
  <2>1. DOMAIN Context = {"stat", "pubs", "timer", "silent"} /\ Context.stat = stat
        /\ Context.pubs = <<>> /\ Context.timer = timer /\ Context.silent = silent
    BY <1>3
  <2>2. Context.pubs \in Seq(Events)
    BY <2>1
  <2> QED BY <2>1, <2>2 DEF CtxTypes, ProxyInv, Core, CoreTypes, TimerFits, Known, Has
<1> QED BY <1>3, <1>4, <1>5 DEF KeepsRealtime

LEMMA ClaimsOs ==
  ASSUME NEW c, CtxClaims(c)
  PROVE  CtxOs(c)
BY DEF CtxClaims, CtxOs, Claims

CheckedAs(c, k, proc, d) ==
  /\ DOMAIN d = DOMAIN c /\ d.pubs = c.pubs /\ d.timer = c.timer /\ d.silent = c.silent
  /\ Has(c.stat, k) => d.stat = c.stat
  /\ DOMAIN d.stat = DOMAIN c.stat \cup {k} /\ IsStat(d.stat)
  /\ \A j \in DOMAIN c.stat : d.stat[j] = c.stat[j]
  /\ ~Has(c.stat, k) => d.stat[k].state = "" /\ d.stat[k].proc = proc /\ ~d.stat[k].alias

LEMMA Checked ==
  ASSUME NEW c, CtxTypes(c), NEW k \in Clocks, NEW proc \in Procs, k = "master" => proc \in Sources
  PROVE  CheckedAs(c, k, proc, CheckSource(c, k, proc))
<1> DEFINE r == [state |-> "", proc |-> proc, alias |-> FALSE]
           f == [j \in DOMAIN c.stat \cup {k} |-> IF j = k THEN r ELSE c.stat[j]]
<1>1. CASE Has(c.stat, k)
  <2>1. CheckSource(c, k, proc) = c
    BY <1>1 DEF CheckSource
  <2> QED BY <1>1, <2>1 DEF CheckedAs, CtxTypes, Has
<1>2. CASE ~Has(c.stat, k)
  <2>1. CheckSource(c, k, proc) = [c EXCEPT !.stat = f]
    BY <1>2 DEF CheckSource
  <2>2. r \in StatRec /\ r.proc = proc /\ r.state = "" /\ ~r.alias
    BY DEF StatRec, Procs, Maybe
  <2>3. /\ DOMAIN f = DOMAIN c.stat \cup {k} /\ f[k] = r /\ \A j \in DOMAIN c.stat : f[j] = c.stat[j]
        /\ f = [j \in DOMAIN f |-> f[j]]
    BY <1>2 DEF Has
  <2>4. IsStat(c.stat)
    BY DEF CtxTypes
  <2> HIDE DEF r, f
  <2>5. IsStat(f)
    <3>1. DOMAIN f \subseteq Clocks
      BY <2>3, <2>4 DEF IsStat
    <3>2. \A j \in DOMAIN f : f[j] \in StatRec
      BY <2>2, <2>3, <2>4 DEF IsStat
    <3>3. f \in [DOMAIN f -> StatRec]
      BY <2>3, <3>2
    <3>4. Has(f, "master") => f["master"].proc \in Sources
      BY <2>2, <2>3, <2>4 DEF IsStat, Has
    <3> QED BY <3>1, <3>3, <3>4 DEF IsStat
  <2> DEFINE d == CheckSource(c, k, proc)
  <2>6. DOMAIN d = DOMAIN c /\ d.stat = f /\ d.pubs = c.pubs /\ d.timer = c.timer /\ d.silent = c.silent
    BY <2>1 DEF CtxTypes
  <2> HIDE DEF d
  <2>7. CheckedAs(c, k, proc, d)
    BY <1>2, <2>2, <2>3, <2>5, <2>6 DEF CheckedAs
  <2> QED BY <2>7 DEF d
<1> QED BY <1>1, <1>2

(* A new record adds no state.                                             *)
LEMMA CheckedKeeps ==
  ASSUME NEW c, CtxTypes(c), NEW k \in Clocks, NEW proc \in Procs, k = "master" => proc \in Sources,
         k \in {"GM", "nic"} => profile.type # "OC", k = "GM" => profile.type = "T-GM",
         k = "T-BC" => profile.type = "T-BC",
         k = "master" /\ profile.type = "T-GM" => proc # "ptp4l",
         ProxyTypes, NEW d, d = CheckSource(c, k, proc)
  PROVE  /\ CtxTypes(d) /\ k \in DOMAIN d.stat
         /\ CtxOs(c) => CtxOs(d)
         /\ k # "T-BC" /\ CtxClaims(c) => CtxClaims(d)
         /\ KeepsRealtime(c) => KeepsRealtime(d)
<1>0. CheckedAs(c, k, proc, d)
  BY Checked
<1>a. profile.type \in {"OC", "T-BC", "T-GM"}
  BY ProxyAssumption DEF ProxyTypes, CoreTypes
<1>1. CtxTypes(d) /\ k \in DOMAIN d.stat
  <2>1. ProfileFits(d.stat)
    <3>1. ProfileFits(c.stat)
      BY DEF CtxTypes
    <3>2. CASE profile.type = "OC"
      BY <3>1, <3>2, <1>0 DEF CheckedAs, ProfileFits
    <3>3. CASE profile.type = "T-BC"
      BY <3>1, <3>3, <1>0 DEF CheckedAs, ProfileFits, Has
    <3>4. CASE profile.type = "T-GM"
      <4>1. ~Has(d.stat, "T-BC")
        BY <3>1, <3>4, <1>0 DEF CheckedAs, ProfileFits, Has
      <4>2. CASE Has(c.stat, "master")
        BY <4>1, <4>2, <3>1, <3>4, <1>0 DEF CheckedAs, ProfileFits, Has
      <4>3. CASE Has(d.stat, "master") /\ ~Has(c.stat, "master")
        <5>1. k = "master"
          BY <4>3, <1>0 DEF CheckedAs, Has
        <5>2. d.stat["master"].state = "" /\ d.stat["master"].proc # "ptp4l" /\ ~d.stat["master"].alias
          BY <5>1, <4>3, <3>4, <1>0 DEF CheckedAs
        <5> QED BY <4>1, <5>2, <3>4 DEF ProfileFits
      <4>4. CASE ~Has(d.stat, "master")
        BY <4>1, <4>4, <3>4 DEF ProfileFits
      <4> QED BY <4>2, <4>3, <4>4
    <3> QED BY <3>2, <3>3, <3>4, <1>a
  <2> QED BY <2>1, <1>0 DEF CheckedAs, CtxTypes, Has
<1>2. \A j : StateOf(d.stat, j) = StateOf(c.stat, j)
  <2> TAKE j
  <2>1. CASE Has(c.stat, j)
    BY <2>1, <1>0 DEF CheckedAs, StateOf, Has
  <2>2. CASE ~Has(c.stat, j) /\ j # k
    BY <2>2, <1>0 DEF CheckedAs, StateOf, Has
  <2>3. CASE ~Has(c.stat, j) /\ j = k
    <3> QED BY <2>3, <1>0 DEF CheckedAs, StateOf
  <2> QED BY <2>1, <2>2, <2>3
<1>3. OsState(d.stat) = OsState(c.stat) /\ (BothOs(c.stat) => BothOs(d.stat))
  BY <1>0, <1>2 DEF OsState, BothOs, CheckedAs, Has
<1>4. CtxOs(c) => CtxOs(d)
  BY <1>0, <1>3 DEF CtxOs, CheckedAs, OsClaim
<1>5. ASSUME k # "T-BC" PROVE PtpState(d.stat) = PtpState(c.stat)
  <2>1. CASE GetMainClockName(d.stat) = GetMainClockName(c.stat)
    BY <2>1, <1>2 DEF PtpState
  <2>2. CASE GetMainClockName(d.stat) # GetMainClockName(c.stat)
    <3>1. k = "GM" /\ ~Has(c.stat, "GM") /\ GetMainClockName(d.stat) = "GM"
      BY <2>2, <1>0, <1>5 DEF CheckedAs, GetMainClockName, Has
    <3>2. GetMainClockName(c.stat) = "master" /\ StateOf(c.stat, "master") = ""
      BY <3>1, <1>a DEF CtxTypes, ProfileFits, GetMainClockName, StateOf
    <3>3. StateOf(d.stat, "GM") = ""
      BY <3>1, <1>2 DEF StateOf
    <3> QED BY <3>1, <3>2, <3>3 DEF PtpState
  <2> QED BY <2>1, <2>2
<1>6. ASSUME k # "T-BC", CtxClaims(c) PROVE CtxClaims(d)
  <2>1. d.pubs = c.pubs /\ d.silent = c.silent
    BY <1>0 DEF CheckedAs
  <2>2. Claims(told, PtpState(d.stat), OsState(d.stat), BothOs(c.stat), todo.timer \o d.pubs, d.silent)
    BY <1>3, <1>5, <1>6, <2>1 DEF CtxClaims
  <2> QED BY <1>3, <2>2, ClaimsStay DEF CtxClaims
<1>7. KeepsRealtime(c) => KeepsRealtime(d)
  BY <1>0 DEF KeepsRealtime, CheckedAs, CtxTypes, Known
<1> QED BY <1>1, <1>4, <1>6, <1>7

(* Only the record of k differs, and of that only what is named.           *)
Relabelled(c, k, d) ==
  /\ DOMAIN d = DOMAIN c /\ d.pubs = c.pubs /\ d.silent = c.silent
  /\ d.timer \in BOOLEAN /\ (d.timer => c.timer)
  /\ DOMAIN d.stat = DOMAIN c.stat /\ IsStat(d.stat)
  /\ \A j \in DOMAIN c.stat : j # k => d.stat[j] = c.stat[j]
  /\ d.stat[k].state = c.stat[k].state
StateSet(s, k, v, t) ==
  /\ DOMAIN t = DOMAIN s /\ IsStat(t)
  /\ \A j \in DOMAIN s : j # k => t[j] = s[j]
  /\ t[k].state = v /\ t[k].proc = s[k].proc /\ t[k].alias = s[k].alias

LEMMA SetsState ==
  ASSUME NEW s, IsStat(s), NEW k \in DOMAIN s, NEW v \in Maybe
  PROVE  StateSet(s, k, v, [s EXCEPT ![k].state = v])
<1> DEFINE t == [s EXCEPT ![k].state = v]
           r == [s[k] EXCEPT !.state = v]
<1>1. s[k] \in StatRec
  BY DEF IsStat
<1>2. r \in StatRec /\ r.state = v /\ r.proc = s[k].proc /\ r.alias = s[k].alias
  BY <1>1 DEF StatRec
<1>3. /\ DOMAIN t = DOMAIN s /\ t[k] = r /\ \A j \in DOMAIN s : j # k => t[j] = s[j]
      /\ t = [j \in DOMAIN t |-> t[j]]
  BY DEF IsStat
<1> HIDE DEF r, t
<1>4. t \in [DOMAIN t -> StatRec]
  <2>1. \A j \in DOMAIN t : t[j] \in StatRec
    BY <1>2, <1>3 DEF IsStat
  <2> QED BY <1>3, <2>1
<1>5. StateSet(s, k, v, t)
  BY <1>2, <1>3, <1>4 DEF StateSet, IsStat, Has
<1> QED BY <1>5 DEF t

LEMMA Aliased ==
  ASSUME NEW c, CtxTypes(c), NEW k \in DOMAIN c.stat
  PROVE  /\ Relabelled(c, k, SetAlias(c, k))
         /\ SetAlias(c, k).stat[k].proc = c.stat[k].proc
<1> DEFINE d == SetAlias(c, k)
           t == [c.stat EXCEPT ![k].alias = TRUE]
           r == [c.stat[k] EXCEPT !.alias = TRUE]
<1>1. c.stat[k] \in StatRec /\ IsStat(c.stat)
  BY DEF CtxTypes, IsStat
<1>2. r \in StatRec /\ r.state = c.stat[k].state /\ r.proc = c.stat[k].proc
  BY <1>1 DEF StatRec
<1>3. /\ DOMAIN t = DOMAIN c.stat /\ t[k] = r /\ \A j \in DOMAIN c.stat : j # k => t[j] = c.stat[j]
      /\ t = [j \in DOMAIN t |-> t[j]]
  BY <1>1 DEF IsStat
<1>4. DOMAIN d = DOMAIN c /\ d.stat = t /\ d.pubs = c.pubs /\ d.timer = c.timer /\ d.silent = c.silent
  BY DEF SetAlias, CtxTypes
<1> HIDE DEF r, t, d
<1>5. IsStat(t)
  <2>1. \A j \in DOMAIN t : t[j] \in StatRec
    BY <1>1, <1>2, <1>3 DEF IsStat
  <2>2. t \in [DOMAIN t -> StatRec]
    BY <1>3, <2>1
  <2> QED BY <1>1, <1>2, <1>3, <2>2 DEF IsStat, Has
<1>6. Relabelled(c, k, d) /\ d.stat[k].proc = c.stat[k].proc
  BY <1>2, <1>3, <1>4, <1>5 DEF Relabelled, CtxTypes
<1> QED BY <1>6 DEF d

LEMMA Reassigned ==
  ASSUME NEW c, CtxTypes(c), NEW k \in DOMAIN c.stat, NEW proc \in Procs,
         k = "master" => proc \in Sources
  PROVE  /\ Relabelled(c, k, [c EXCEPT !.stat[k].proc = proc])
         /\ [c EXCEPT !.stat[k].proc = proc].stat[k].proc = proc
         /\ [c EXCEPT !.stat[k].proc = proc].stat[k].alias = c.stat[k].alias
<1> DEFINE d == [c EXCEPT !.stat[k].proc = proc]
           t == [c.stat EXCEPT ![k].proc = proc]
           r == [c.stat[k] EXCEPT !.proc = proc]
<1>1. c.stat[k] \in StatRec /\ IsStat(c.stat)
  BY DEF CtxTypes, IsStat
<1>2. r \in StatRec /\ r.state = c.stat[k].state /\ r.proc = proc /\ r.alias = c.stat[k].alias
  BY <1>1 DEF StatRec, Procs
<1>3. /\ DOMAIN t = DOMAIN c.stat /\ t[k] = r /\ \A j \in DOMAIN c.stat : j # k => t[j] = c.stat[j]
      /\ t = [j \in DOMAIN t |-> t[j]]
  BY <1>1 DEF IsStat
<1>4. DOMAIN d = DOMAIN c /\ d.stat = t /\ d.pubs = c.pubs /\ d.timer = c.timer /\ d.silent = c.silent
  BY DEF CtxTypes
<1> HIDE DEF r, t, d
<1>5. IsStat(t)
  <2>1. \A j \in DOMAIN t : t[j] \in StatRec
    BY <1>1, <1>2, <1>3 DEF IsStat
  <2>2. t \in [DOMAIN t -> StatRec]
    BY <1>3, <2>1
  <2> QED BY <1>1, <1>2, <1>3, <2>2 DEF IsStat, Has
<1>6. Relabelled(c, k, d) /\ d.stat[k].proc = proc /\ d.stat[k].alias = c.stat[k].alias
  BY <1>2, <1>3, <1>4, <1>5 DEF Relabelled, CtxTypes
<1> QED BY <1>6 DEF d

LEMMA RelabelledKeeps ==
  ASSUME NEW c, CtxTypes(c), NEW k \in DOMAIN c.stat, NEW d, Relabelled(c, k, d),
         profile.type = "T-GM" /\ k = "master" => d.stat[k].proc # "ptp4l" /\ ~d.stat[k].alias,
         ProxyTypes
  PROVE  /\ CtxTypes(d)
         /\ CtxOs(c) => CtxOs(d)
         /\ CtxClaims(c) => CtxClaims(d)
         /\ KeepsRealtime(c) => KeepsRealtime(d)
<1>1. /\ \A j : Has(d.stat, j) <=> Has(c.stat, j)
      /\ \A j \in DOMAIN c.stat : d.stat[j].state = c.stat[j].state
  BY DEF Relabelled, Has
<1>2. \A j : StateOf(d.stat, j) = StateOf(c.stat, j)
  BY <1>1 DEF StateOf, Has
<1>3. /\ OsState(d.stat) = OsState(c.stat) /\ BothOs(d.stat) = BothOs(c.stat)
      /\ PtpState(d.stat) = PtpState(c.stat)
  <2>1. GetMainClockName(d.stat) = GetMainClockName(c.stat)
    BY DEF GetMainClockName, Relabelled, Has
  <2>2. (Has(d.stat, "realtime") <=> Has(c.stat, "realtime"))
    BY <1>1
  <2> QED BY <1>2, <2>1, <2>2 DEF OsState, BothOs, PtpState
<1>4. CtxTypes(d)
  <2>1. profile.type \in {"OC", "T-BC", "T-GM"}
    BY ProxyAssumption DEF ProxyTypes, CoreTypes
  <2>2. ProfileFits(d.stat)
    BY <2>1, <1>1 DEF Relabelled, ProfileFits, CtxTypes, Has
  <2> QED BY <2>2 DEF Relabelled, CtxTypes, Has
<1> QED BY <1>1, <1>3, <1>4 DEF Relabelled, CtxOs, CtxClaims, KeepsRealtime, Known, CtxTypes

(* A step of a clock to the state v.                                       *)
Moves(c, k, v, d) ==
  /\ DOMAIN d = DOMAIN c /\ StateSet(c.stat, k, v, d.stat)
  /\ d.timer \in BOOLEAN /\ (d.timer => c.timer)
  /\ d.silent \in {"no", "yes", "torn"} /\ (c.silent = "torn" => d.silent = "torn")

LEMMA MovesTypes ==
  ASSUME NEW c, CtxTypes(c), NEW k \in DOMAIN c.stat, NEW v, NEW d, Moves(c, k, v, d),
         d.pubs \in Seq(Events), ~(k = "master" /\ profile.type = "T-GM"), ProxyTypes
  PROVE  CtxTypes(d)
<1>1. profile.type \in {"OC", "T-BC", "T-GM"}
  BY ProxyAssumption DEF ProxyTypes, CoreTypes
<1>2. ProfileFits(d.stat)
  BY <1>1 DEF Moves, StateSet, ProfileFits, CtxTypes, Has
<1> QED BY <1>2 DEF Moves, StateSet, CtxTypes, Has

Moved(c, k, v, d) ==
  /\ k = GetMainClockName(c.stat) => PtpState(d.stat) = v
  /\ k # GetMainClockName(c.stat) => PtpState(d.stat) = PtpState(c.stat)
  /\ GetMainClockName(d.stat) = GetMainClockName(c.stat)
  /\ k \notin {"realtime", "chronyd"} =>
       OsState(d.stat) = OsState(c.stat) /\ BothOs(d.stat) = BothOs(c.stat)
  /\ k = "realtime" => /\ OsState(d.stat) = v \/ BothOs(d.stat)
                       /\ BothOs(c.stat) => BothOs(d.stat)
  /\ k = "chronyd" /\ v # "" => OsState(d.stat) = v /\ (BothOs(c.stat) => BothOs(d.stat))

LEMMA MovedStates ==
  ASSUME NEW c, CtxTypes(c), NEW k \in DOMAIN c.stat, NEW v, NEW d, Moves(c, k, v, d)
  PROVE  Moved(c, k, v, d)
<1>1. DOMAIN d.stat = DOMAIN c.stat /\ d.stat[k].state = v
  BY DEF Moves, StateSet
<1>2. \A j : j # k => StateOf(d.stat, j) = StateOf(c.stat, j)
  BY DEF Moves, StateSet, StateOf, Has
<1>3. StateOf(d.stat, k) = v
  BY <1>1 DEF StateOf, Has
<1>4. GetMainClockName(d.stat) = GetMainClockName(c.stat)
  BY <1>1 DEF GetMainClockName, Has
<1>5. /\ k = GetMainClockName(c.stat) => PtpState(d.stat) = v
      /\ k # GetMainClockName(c.stat) => PtpState(d.stat) = PtpState(c.stat)
  BY <1>2, <1>3, <1>4 DEF PtpState
<1>6. Has(d.stat, "realtime") <=> Has(c.stat, "realtime")
  BY <1>1 DEF Has
<1>7. CASE k \notin {"realtime", "chronyd"}
  BY <1>2, <1>4, <1>5, <1>6, <1>7 DEF OsState, BothOs, Moved
<1>8. CASE k = "realtime"
  BY <1>1, <1>2, <1>3, <1>4, <1>5, <1>6, <1>8 DEF OsState, BothOs, Has, Moved
<1>9. CASE k = "chronyd"
  BY <1>2, <1>3, <1>4, <1>5, <1>6, <1>9 DEF OsState, BothOs, Moved
<1> QED BY <1>7, <1>8, <1>9

LEMMA PubsAre ==
  ASSUME NEW c, CtxTypes(c), NEW type \in {"ptp", "os"}, NEW v \in SyncStates, ProxyTypes
  PROVE  /\ Append(c.pubs, Event(type, v)) \in Seq(Events)
         /\ todo.timer \o Append(c.pubs, Event(type, v)) = Append(todo.timer \o c.pubs, Event(type, v))
         /\ todo.timer \o c.pubs \in Seq(Pub)
<1>1. Event(type, v) \in Events /\ Event(type, v) \in Pub /\ c.pubs \in Seq(Events)
  BY DEF Event, Events, Pub, CtxTypes
<1>2. todo.timer \in Seq(Pub)
  BY DEF ProxyTypes, CoreTypes, Who
<1>3. Events \subseteq Pub
  BY DEF Events, Pub
<1>4. c.pubs \in Seq(Pub)
  BY <1>1, <1>3
<1>5. todo.timer \o Append(c.pubs, Event(type, v)) = Append(todo.timer \o c.pubs, Event(type, v))
  BY <1>1, <1>2, <1>4, AppendAfter
<1> QED BY <1>1, <1>2, <1>4, <1>5

LEMMA EmitPtp ==
  ASSUME NEW c, CtxTypes(c), CtxOs(c), NEW k \in DOMAIN c.stat, k \notin {"realtime", "chronyd"},
         NEW v \in SyncStates, NEW d, Moves(c, k, v, d), ProxyTypes,
         d.pubs = Append(c.pubs, Event("ptp", v)), d.silent = "no" => PtpState(d.stat) = v
  PROVE  CtxClaims(d)
<1>0. Moved(c, k, v, d)
  BY MovedStates
<1>1. OsState(d.stat) = OsState(c.stat) /\ BothOs(d.stat) = BothOs(c.stat)
  BY <1>0 DEF Moved
<1>2. /\ todo.timer \o d.pubs = Append(todo.timer \o c.pubs, Event("ptp", v))
      /\ todo.timer \o c.pubs \in Seq(Pub)
  BY PubsAre
<1>3. c.silent # "torn" => OsClaim(told, OsState(d.stat), BothOs(d.stat), todo.timer \o c.pubs)
  BY <1>1 DEF CtxOs
<1>4. c.silent = "torn" => d.silent = "torn"
  BY DEF Moves
<1>5. Claims(told, PtpState(d.stat), OsState(d.stat), BothOs(d.stat),
             Append(todo.timer \o c.pubs, Event("ptp", v)), d.silent)
  BY <1>2, <1>3, <1>4, AppendPtp
<1> QED BY <1>2, <1>5 DEF CtxClaims

LEMMA EmitOs ==
  ASSUME NEW c, CtxTypes(c), CtxClaims(c), NEW k \in DOMAIN c.stat, k \in {"realtime", "chronyd"},
         NEW v \in SyncStates, NEW d, Moves(c, k, v, d), ProxyTypes,
         d.pubs = Append(c.pubs, Event("os", v)), d.silent = c.silent
  PROVE  CtxClaims(d)
<1>0. Moved(c, k, v, d)
  BY MovedStates
<1>1. v # ""
  BY DEF SyncStates
<1>2. /\ OsState(d.stat) = v \/ BothOs(d.stat)
      /\ BothOs(c.stat) => BothOs(d.stat)
      /\ k # GetMainClockName(c.stat)
  BY <1>0, <1>1 DEF GetMainClockName, Moved
<1>3. PtpState(d.stat) = PtpState(c.stat)
  BY <1>0, <1>2 DEF Moved
<1>4. /\ todo.timer \o d.pubs = Append(todo.timer \o c.pubs, Event("os", v))
      /\ todo.timer \o c.pubs \in Seq(Pub)
  BY PubsAre
<1>5. Claims(told, PtpState(c.stat), OsState(c.stat), BothOs(c.stat), todo.timer \o c.pubs, c.silent)
  BY DEF CtxClaims
<1>6. Claims(told, PtpState(c.stat), OsState(d.stat), BothOs(d.stat),
             Append(todo.timer \o c.pubs, Event("os", v)), c.silent)
  BY <1>2, <1>4, <1>5, AppendOs
<1> QED BY <1>3, <1>4, <1>6 DEF CtxClaims

LEMMA MovesMuted ==
  ASSUME NEW c, CtxTypes(c), CtxClaims(c), NEW k \in DOMAIN c.stat, k \notin {"realtime", "chronyd"},
         NEW v, NEW d, Moves(c, k, v, d), d.pubs = c.pubs,
         d.silent = "no" => c.silent = "no" /\ PtpState(d.stat) = PtpState(c.stat)
  PROVE  CtxClaims(d)
<1>0. Moved(c, k, v, d)
  BY MovedStates
<1>1. OsState(d.stat) = OsState(c.stat) /\ BothOs(d.stat) = BothOs(c.stat)
  BY <1>0 DEF Moved
<1>2. c.silent = "torn" => d.silent = "torn"
  BY DEF Moves
<1> QED BY <1>1, <1>2, ClaimsStay DEF CtxClaims

PtpPublished(c, k, v, d) ==
  /\ Moves(c, k, v, d) /\ d.silent = Mute(c, k, c.stat[k].state, v, "ptp", FALSE)
  /\ d.pubs = IF v = c.stat[k].state THEN c.pubs ELSE Append(c.pubs, Event("ptp", v))
Ours(c, k, v) == k = "nic" \/ k = GetMainClockName(c.stat) \/ PtpState(c.stat) = v

LEMMA PtpKeeps ==
  ASSUME NEW c, CtxTypes(c), NEW k \in DOMAIN c.stat, k \in {"GM", "T-BC", "master", "nic"},
         NEW v \in SyncStates, NEW d, PtpPublished(c, k, v, d), ProxyTypes,
         CtxOs(c), CtxClaims(c) \/ c.stat[k].state = "", ~(k = "master" /\ profile.type = "T-GM"),
         Ours(c, k, v)
  PROVE  CtxTypes(d) /\ CtxClaims(d) /\ (KeepsRealtime(c) => KeepsRealtime(d))
<1>1. Moves(c, k, v, d) /\ Moved(c, k, v, d)
  BY MovedStates DEF PtpPublished
<1>2. d.pubs \in Seq(Events)
  <2>1. Append(c.pubs, Event("ptp", v)) \in Seq(Events) /\ c.pubs \in Seq(Events)
    BY PubsAre DEF CtxTypes
  <2> QED BY <2>1 DEF PtpPublished
<1>3. CtxTypes(d)
  BY <1>1, <1>2, MovesTypes
<1>4. ASSUME v = c.stat[k].state PROVE CtxClaims(d)
  <2>1. d.pubs = c.pubs /\ d.silent = c.silent /\ CtxClaims(c)
    BY <1>4 DEF PtpPublished, Mute, SyncStates
  <2>2. PtpState(d.stat) = PtpState(c.stat)
    BY <1>1, <1>4 DEF Moved, PtpState, StateOf, Has
  <2>3. CtxClaims(d)
    BY <1>1, <2>1, <2>2, MovesMuted
  <2> QED BY <2>3
<1>5. ASSUME v # c.stat[k].state PROVE CtxClaims(d)
  <2>1. d.pubs = Append(c.pubs, Event("ptp", v))
    BY <1>5 DEF PtpPublished
  <2>2. ASSUME d.silent = "no" PROVE PtpState(d.stat) = v
    <3>1. k # "nic"
      BY <1>5, <2>2 DEF PtpPublished, Mute
    <3> QED BY <1>1, <3>1 DEF Moved, Ours
  <2> QED BY <1>1, <2>1, <2>2, EmitPtp
<1>6. KeepsRealtime(c) => KeepsRealtime(d)
  BY <1>1 DEF Moves, StateSet, KeepsRealtime, CtxTypes, Known
<1> QED BY <1>3, <1>4, <1>5, <1>6

LEMMA OsKeeps ==
  ASSUME NEW c, CtxTypes(c), NEW k \in DOMAIN c.stat, k \in {"realtime", "chronyd"},
         NEW v \in SyncStates, NEW d, Moves(c, k, v, d), d.silent = c.silent, ProxyTypes, CtxClaims(c),
         d.pubs = IF v = c.stat[k].state THEN c.pubs ELSE Append(c.pubs, Event("os", v))
  PROVE  /\ CtxTypes(d) /\ CtxClaims(d)
         /\ k = "chronyd" \/ v = "FREERUN" => (KeepsRealtime(c) => KeepsRealtime(d))
<1>1. d.pubs \in Seq(Events)
  BY PubsAre DEF CtxTypes
<1>2. CtxTypes(d)
  BY <1>1, MovesTypes
<1>3. ASSUME v = c.stat[k].state PROVE CtxClaims(d)
  <2>1. Relabelled(c, k, d)
    BY <1>3 DEF Relabelled, Moves, StateSet
  <2> QED BY <2>1, RelabelledKeeps
<1>4. ASSUME v # c.stat[k].state PROVE CtxClaims(d)
  BY <1>4, EmitOs
<1>5. k = "chronyd" \/ v = "FREERUN" => (KeepsRealtime(c) => KeepsRealtime(d))
  BY DEF Moves, StateSet, KeepsRealtime, CtxTypes, Known
<1> QED BY <1>2, <1>3, <1>4, <1>5

GeneratedAs(c, k, clock, in, type, d) ==
  LET last == c.stat[k].state
      new == NewState(last, clock, in)
      left == LeftToTimer(last, clock, type)
  IN /\ Moves(c, k, new, d) /\ new \in SyncStates
     /\ d.silent = Mute(c, k, last, new, type, left)
     /\ d.pubs = IF new = last \/ left THEN c.pubs ELSE Append(c.pubs, Event(type, new))

LEMMA Generated ==
  ASSUME NEW c, CtxTypes(c), NEW k \in DOMAIN c.stat, NEW clock \in SyncStates, NEW in \in BOOLEAN,
         NEW type \in {"ptp", "os"}
  PROVE  GeneratedAs(c, k, clock, in, type, GenPTPEvent(c, k, clock, in, type))
<1> DEFINE last == c.stat[k].state
           new == NewState(last, clock, in)
           left == LeftToTimer(last, clock, type)
           t == [c.stat EXCEPT ![k].state = new]
           d == GenPTPEvent(c, k, clock, in, type)
<1>1. new \in SyncStates /\ new \in Maybe
  BY DEF NewState, SyncStates, Maybe
<1>2. IsStat(c.stat)
  BY DEF CtxTypes
<1>3. /\ DOMAIN d = DOMAIN c /\ d.stat = t /\ d.silent = Mute(c, k, last, new, type, left)
      /\ d.pubs = IF new = last \/ left THEN c.pubs ELSE Append(c.pubs, Event(type, new))
      /\ d.timer \in BOOLEAN /\ (d.timer => c.timer)
  BY DEF GenPTPEvent, CtxTypes
<1>4. d.silent \in {"no", "yes", "torn"} /\ (c.silent = "torn" => d.silent = "torn")
  BY <1>3 DEF Mute, CtxTypes
<1> HIDE DEF new, left, d
<1>5. StateSet(c.stat, k, new, t)
  BY <1>1, <1>2, SetsState
<1>6. Moves(c, k, new, d)
  BY <1>3, <1>4, <1>5 DEF Moves
<1> QED BY <1>1, <1>3, <1>6 DEF GeneratedAs, new, left, d

LEMMA GenPtp ==
  ASSUME NEW c, CtxTypes(c), CtxClaims(c), NEW k \in DOMAIN c.stat, k \in {"T-BC", "master", "nic"},
         NEW clock \in SyncStates, NEW in \in BOOLEAN, ProxyTypes,
         ~(k = "master" /\ profile.type = "T-GM"),
         k = "nic" \/ k = GetMainClockName(c.stat) \/ (clock = "FREERUN" /\ PtpState(c.stat) = "FREERUN"),
         NEW d, d = GenPTPEvent(c, k, clock, in, "ptp")
  PROVE  CtxTypes(d) /\ CtxClaims(d) /\ (KeepsRealtime(c) => KeepsRealtime(d))
<1> DEFINE new == NewState(c.stat[k].state, clock, in)
           left == LeftToTimer(c.stat[k].state, clock, "ptp")
<1>1. GeneratedAs(c, k, clock, in, "ptp", d)
  BY Generated
<1>2. Moves(c, k, new, d) /\ new \in SyncStates
  BY <1>1 DEF GeneratedAs
<1>3. CtxOs(c)
  BY ClaimsOs
<1>4. CASE left
  <2>1. d.pubs = c.pubs /\ d.silent # "no"
    BY <1>1, <1>4 DEF GeneratedAs, Mute
  <2> HIDE DEF new, left
  <2>2. CtxClaims(d)
    BY <1>2, <2>1, MovesMuted
  <2>3. d.pubs \in Seq(Events)
    BY <2>1 DEF CtxTypes
  <2>4. CtxTypes(d)
    BY <1>2, <2>3, MovesTypes
  <2>5. KeepsRealtime(c) => KeepsRealtime(d)
    BY <1>2 DEF Moves, StateSet, KeepsRealtime, CtxTypes, Known
  <2> QED BY <2>2, <2>4, <2>5
<1>5. CASE ~left
  <2>1. PtpPublished(c, k, new, d)
    <3>1. d.pubs = IF new = c.stat[k].state THEN c.pubs ELSE Append(c.pubs, Event("ptp", new))
      BY <1>1, <1>5 DEF GeneratedAs
    <3>2. d.silent = Mute(c, k, c.stat[k].state, new, "ptp", FALSE)
      BY <1>1, <1>5 DEF GeneratedAs, Mute
    <3> QED BY <1>2, <3>1, <3>2 DEF PtpPublished
  <2>2. Ours(c, k, new)
    BY DEF NewState, Ours
  <2> HIDE DEF new, left
  <2>3. k \in {"GM", "T-BC", "master", "nic"} /\ new \in SyncStates
    BY <1>2
  <2>4. CtxTypes(d)
    BY <1>3, <2>1, <2>2, <2>3, PtpKeeps
  <2>5. CtxClaims(d)
    BY <1>3, <2>1, <2>2, <2>3, PtpKeeps
  <2>6. KeepsRealtime(c) => KeepsRealtime(d)
    BY <1>2 DEF Moves, StateSet, KeepsRealtime, CtxTypes, Known
  <2> QED BY <2>4, <2>5, <2>6
<1> QED BY <1>4, <1>5

LEMMA GenOs ==
  ASSUME NEW c, CtxTypes(c), CtxClaims(c), NEW k \in DOMAIN c.stat, k \in {"realtime", "chronyd"},
         NEW clock \in SyncStates, NEW in \in BOOLEAN, ProxyTypes,
         NEW d, d = GenPTPEvent(c, k, clock, in, "os")
  PROVE  /\ CtxTypes(d) /\ CtxClaims(d)
         /\ k = "chronyd" \/ clock = "FREERUN" => (KeepsRealtime(c) => KeepsRealtime(d))
         /\ clock = "FREERUN" => d.stat[k].state = "FREERUN"
<1> DEFINE new == NewState(c.stat[k].state, clock, in)
<1>1. GeneratedAs(c, k, clock, in, "os", d)
  BY Generated
<1>2. ~LeftToTimer(c.stat[k].state, clock, "os")
  BY DEF LeftToTimer
<1>3. /\ Moves(c, k, new, d) /\ new \in SyncStates /\ d.silent = c.silent
      /\ d.pubs = IF new = c.stat[k].state THEN c.pubs ELSE Append(c.pubs, Event("os", new))
  BY <1>1, <1>2 DEF GeneratedAs, Mute
<1>4. clock = "FREERUN" => new = "FREERUN"
  BY DEF NewState
<1>5. d.stat[k].state = new
  BY <1>3 DEF Moves, StateSet
<1> HIDE DEF new
<1> QED BY <1>3, <1>4, <1>5, OsKeeps

LEMMA ChangePublished ==
  ASSUME NEW c, CtxTypes(c), NEW k \in DOMAIN c.stat, k \in {"GM", "T-BC", "master"},
         NEW clock \in SyncStates, ProxyTypes, CtxOs(c), CtxClaims(c) \/ c.stat[k].state = "",
         ~(k = "master" /\ profile.type = "T-GM"), k = GetMainClockName(c.stat),
         NEW d, d = PublishChange(c, k, clock)
  PROVE  /\ CtxTypes(d) /\ CtxClaims(d) /\ (KeepsRealtime(c) => KeepsRealtime(d))
         /\ d.timer = c.timer /\ Moves(c, k, clock, d)
<1> DEFINE t == [c.stat EXCEPT ![k].state = clock]
<1>1. clock \in Maybe /\ IsStat(c.stat)
  BY DEF Maybe, CtxTypes
<1>2. /\ DOMAIN d = DOMAIN c /\ d.stat = t /\ d.silent = Mute(c, k, c.stat[k].state, clock, "ptp", FALSE)
      /\ d.pubs = IF clock = c.stat[k].state THEN c.pubs ELSE Append(c.pubs, Event("ptp", clock))
      /\ d.timer = c.timer
  BY DEF PublishChange, CtxTypes
<1>3. d.silent \in {"no", "yes", "torn"} /\ (c.silent = "torn" => d.silent = "torn")
  BY <1>2 DEF Mute, CtxTypes
<1>t. StateSet(c.stat, k, clock, t)
  BY <1>1, SetsState
<1>4. Moves(c, k, clock, d)
  BY <1>2, <1>3, <1>t DEF Moves, CtxTypes
<1>5. PtpPublished(c, k, clock, d)
  BY <1>2, <1>4 DEF PtpPublished
<1>6. Ours(c, k, clock)
  BY DEF Ours
<1> QED BY <1>2, <1>4, <1>5, <1>6, PtpKeeps

LEMMA QuietlySet ==
  ASSUME NEW c, CtxTypes(c), CtxClaims(c), NEW k \in DOMAIN c.stat, k = "master",
         NEW clock \in SyncStates, ProxyTypes, profile.type # "T-GM", NEW d, d = SetQuietly(c, k, clock)
  PROVE  CtxTypes(d) /\ CtxClaims(d) /\ (KeepsRealtime(c) => KeepsRealtime(d)) /\ d.timer = c.timer
<1> DEFINE t == [c.stat EXCEPT ![k].state = clock]
<1>1. clock \in Maybe /\ IsStat(c.stat)
  BY DEF Maybe, CtxTypes
<1>2. /\ DOMAIN d = DOMAIN c /\ d.stat = t /\ d.pubs = c.pubs /\ d.timer = c.timer
      /\ d.silent = IF c.silent = "torn" \/ k # GetMainClockName(c.stat) \/ clock = c.stat[k].state
                    THEN c.silent ELSE "yes"
  BY DEF SetQuietly, CtxTypes
<1>3. d.silent \in {"no", "yes", "torn"} /\ (c.silent = "torn" => d.silent = "torn")
  BY <1>2 DEF CtxTypes
<1>t. StateSet(c.stat, k, clock, t)
  BY <1>1, SetsState
<1>4. Moves(c, k, clock, d)
  BY <1>2, <1>3, <1>t DEF Moves, CtxTypes
<1>5. Moved(c, k, clock, d)
  BY <1>4, MovedStates
<1>6. ASSUME d.silent = "no" PROVE c.silent = "no" /\ PtpState(d.stat) = PtpState(c.stat)
  BY <1>2, <1>5, <1>6 DEF Moved, PtpState, StateOf, Has
<1>7. CtxClaims(d)
  BY <1>2, <1>4, <1>6, MovesMuted
<1>8. d.pubs \in Seq(Events)
  BY <1>2 DEF CtxTypes
<1>9. CtxTypes(d)
  BY <1>4, <1>8, MovesTypes
<1>10. KeepsRealtime(c) => KeepsRealtime(d)
  BY <1>4 DEF Moves, StateSet, KeepsRealtime, CtxTypes, Known
<1> QED BY <1>2, <1>7, <1>9, <1>10

LEMMA HandleKeeps ==
  ASSUME ProxyInv, Reader, NEW c, CtxTypes(c), CtxClaims(c), Handle(c)
  PROVE  Core' /\ (\A k : Known(k) => Known(k)')
<1>1. /\ stat' = c.stat /\ timer' = c.timer /\ silent' = c.silent
      /\ todo' = [todo EXCEPT !.reader = c.pubs]
      /\ profile' = profile /\ overall' = overall /\ told' = told
  BY DEF Handle
<1>2. todo \in [Who -> Seq(Pub)] /\ todo.reader = <<>> /\ todo.timer \in Seq(Pub) /\ c.pubs \in Seq(Events)
  BY DEF ProxyInv, Core, CoreTypes, Reader, CtxTypes, Who
<1>3. c.pubs \in Seq(Pub)
  <2>1. Events \subseteq Pub
    BY DEF Events, Pub
  <2> QED BY <1>2, <2>1
<1>4. todo' \in [Who -> Seq(Pub)] /\ todo'.reader = c.pubs /\ todo'.timer = todo.timer
  BY <1>1, <1>2, <1>3 DEF Who
<1>5. CoreTypes'
  BY <1>1, <1>4 DEF ProxyInv, Core, CoreTypes, CtxTypes
<1>6. ProfileFits(stat)'
  BY <1>1 DEF CtxTypes, ProfileFits
<1>7. \A k \in 1..Len(c.pubs) : c.pubs[k].step = "event"
  <2>1. \A k \in 1..Len(c.pubs) : c.pubs[k] \in Events
    BY <1>2
  <2> QED BY <2>1 DEF Events
<1>8. QueuesFit'
  <2>1. \A k \in 1..Len(c.pubs) : c.pubs[k].step # "expire"
    BY <1>7
  <2>2. Len(c.pubs) \in Nat
    BY <1>2
  <2>3. \A k \in 2..Len(c.pubs) : c.pubs[k].step = "event"
    BY <1>7, <2>2
  <2> QED BY <1>4, <2>1, <2>3 DEF QueuesFit, ProxyInv, Core, Who
<1>9. TimerFits'
  BY <1>1, <1>4 DEF TimerFits, ProxyInv, Core, CtxTypes, Known, Has
<1>10. c.pubs # <<>> => c.pubs[1].step = "event"
  BY <1>2, <1>7
<1>11. OverallInv'
  BY <1>1, <1>2, <1>4, <1>10 DEF OverallInv, Updating, ProxyInv, Core, CtxTypes, Who
<1>12. ClaimInv'
  <2>1. Claims(told, PtpState(c.stat), OsState(c.stat), BothOs(c.stat), todo.timer \o c.pubs, c.silent)
    BY DEF CtxClaims
  <2>2. ASSUME todo.timer = <<>> PROVE todo.timer \o c.pubs = c.pubs
    BY <1>2, <2>2
  <2>3. ASSUME c.pubs = <<>> PROVE todo.timer \o c.pubs = todo.timer
    BY <1>2, <2>3
  <2>4. todo'.timer = <<>> =>
          Claims(told, PtpState(stat), OsState(stat), BothOs(stat), todo.reader, silent)'
    BY <1>1, <1>4, <2>1, <2>2
  <2>5. todo'.reader = <<>> =>
          Claims(told, PtpState(stat), OsState(stat), BothOs(stat), todo.timer, silent)'
    BY <1>1, <1>4, <2>1, <2>3
  <2> QED BY <2>4, <2>5 DEF ClaimInv, Who, Other
<1>13. \A k : Known(k) => Known(k)'
  BY <1>1 DEF Known, CtxTypes
<1> QED BY <1>5, <1>6, <1>8, <1>9, <1>11, <1>12, <1>13 DEF Core
-----------------------------------------------------------------------------
Good(c) == CtxTypes(c) /\ CtxClaims(c) /\ KeepsRealtime(c)

LEMMA ProfileType ==
  ASSUME ProxyInv
  PROVE  profile.type \in {"OC", "T-BC", "T-GM"} /\ profile.chronyd \in BOOLEAN
BY ProxyAssumption DEF ProxyInv, Core, CoreTypes

(* What CheckSource asks of a clock and its process.                       *)
Fits(k, proc) ==
  /\ k \in Clocks /\ proc \in Procs /\ (k = "master" => proc \in Sources)
  /\ k \in {"GM", "nic"} => profile.type # "OC"
  /\ k = "GM" => profile.type = "T-GM"
  /\ k = "T-BC" => profile.type = "T-BC"
  /\ k = "master" /\ profile.type = "T-GM" => proc # "ptp4l"

LEMMA CheckGood ==
  ASSUME ProxyInv, NEW c, Good(c), NEW k, NEW proc, Fits(k, proc), k # "T-BC", NEW d, d = CheckSource(c, k, proc)
  PROVE  Good(d) /\ k \in DOMAIN d.stat /\ DOMAIN c.stat \subseteq DOMAIN d.stat
<1>1. ProxyTypes /\ CtxTypes(c) /\ k \in Clocks /\ proc \in Procs /\ (k = "master" => proc \in Sources)
  BY DEF ProxyInv, Core, Side, ProxyTypes, Good, Fits
<1>2. CheckedAs(c, k, proc, d)
  BY <1>1, Checked
<1>3. CtxTypes(d) /\ k \in DOMAIN d.stat /\ CtxClaims(d) /\ KeepsRealtime(d)
  BY <1>1, CheckedKeeps DEF Good, Fits
<1> QED BY <1>2, <1>3 DEF Good, CheckedAs

LEMMA AliasGood ==
  ASSUME ProxyInv, NEW c, Good(c), NEW k \in DOMAIN c.stat, ~(k = "master" /\ profile.type = "T-GM"),
         NEW d, d = SetAlias(c, k)
  PROVE  Good(d) /\ DOMAIN d.stat = DOMAIN c.stat
<1>1. ProxyTypes /\ CtxTypes(c)
  BY DEF ProxyInv, Core, Side, ProxyTypes, Good
<1>2. Relabelled(c, k, d)
  BY <1>1, Aliased
<1> QED BY <1>1, <1>2, RelabelledKeeps DEF Good, Relabelled

LEMMA ProcessGood ==
  ASSUME ProxyInv, NEW c, Good(c), NEW k, NEW proc, Fits(k, proc), k # "T-BC", NEW d, d = SetProcess(c, k, proc)
  PROVE  Good(d) /\ k \in DOMAIN d.stat /\ DOMAIN c.stat \subseteq DOMAIN d.stat
<1>1. PICK e : e = CheckSource(c, k, proc)
  OBVIOUS
<1>2. Good(e) /\ k \in DOMAIN e.stat /\ DOMAIN c.stat \subseteq DOMAIN e.stat
  BY <1>1, CheckGood
<1>3. d = [e EXCEPT !.stat[k].proc = proc]
  BY <1>1 DEF SetProcess
<1>4. CtxTypes(e) /\ proc \in Procs /\ (k = "master" => proc \in Sources) /\ ProxyTypes
  BY <1>2 DEF Good, Fits, ProxyInv, Core, Side, ProxyTypes
<1>5. Relabelled(e, k, d) /\ d.stat[k].proc = proc /\ d.stat[k].alias = e.stat[k].alias
  BY <1>2, <1>3, <1>4, Reassigned
<1>6. profile.type = "T-GM" /\ k = "master" => d.stat[k].proc # "ptp4l" /\ ~d.stat[k].alias
  BY <1>2, <1>4, <1>5 DEF Fits, CtxTypes, ProfileFits, Has
<1> QED BY <1>2, <1>4, <1>5, <1>6, RelabelledKeeps DEF Good, Relabelled

(* Which of its records are known makes the main clock of a profile.       *)
LEMMA MainClock ==
  ASSUME ProxyInv, NEW c, Good(c)
  PROVE  /\ profile.type = "OC" => GetMainClockName(c.stat) = "master"
         /\ profile.type = "T-GM" /\ Has(c.stat, "GM") => GetMainClockName(c.stat) = "GM"
         /\ profile.type = "T-BC" /\ Has(c.stat, "T-BC") => GetMainClockName(c.stat) = "T-BC"
         /\ profile.type = "T-BC" /\ ~Has(c.stat, "T-BC") => GetMainClockName(c.stat) = "master"
BY DEF Good, CtxTypes, ProfileFits, GetMainClockName, Has

LEMMA LineSource ==
  ASSUME ProxyInv, Line
  PROVE  /\ source' \in Sources /\ (source' # "" => Known("master"))
         /\ profile.type = "T-GM" => source' # "ptp4l"
BY DEF ProxyInv, Core, CoreTypes, Side, SideTypes, SourceFits, ProfileFits, Line, Source, Known, IsStat, Has

LEMMA WindowKept ==
  ASSUME ProxyInv, Reader, NEW c, Good(c), Handle(c), KeepsWindow
  PROVE  WindowInv' /\ phase' = phase /\ settle' = settle /\ settled' = settled
<1>1. \A k : Known(k) => Known(k)'
  BY HandleKeeps DEF Good
<1>2. stat' = c.stat /\ profile' = profile
  BY DEF Handle
<1> QED BY <1>1, <1>2 DEF WindowInv, KeepsWindow, Good, KeepsRealtime, ProxyInv, Side

LEMMA WindowLine ==
  ASSUME ProxyInv, Reader, NEW c, CtxTypes(c), CtxClaims(c), Handle(c), gmState' \in Maybe, WindowInv',
         phase' \in {"idle", "selecting", "sourceSelected", "undisciplined"},
         settle' \in BOOLEAN, settled' \in BOOLEAN,
         slaves' \subseteq ProxyPorts, profile.type = "T-GM" => slaves' = {} /\ source' # "ptp4l",
         source' \in Sources, source' # "" => Known("master")
  PROVE  ProxyInv'
<1>1. Core' /\ (\A k : Known(k) => Known(k)')
  BY HandleKeeps
<1>2. profile' = profile
  BY DEF Handle
<1>3. SideTypes'
  BY DEF SideTypes
<1>4. SourceFits'
  BY <1>1, <1>2 DEF SourceFits
<1> QED BY <1>1, <1>3, <1>4 DEF ProxyInv, Side

LEMMA LineKeeps ==
  ASSUME ProxyInv, Reader, NEW c, Good(c), Handle(c), KeepsWindow, gmState' \in Maybe,
         slaves' \subseteq ProxyPorts, profile.type = "T-GM" => slaves' = {} /\ source' # "ptp4l",
         source' \in Sources, source' # "" => Known("master")
  PROVE  ProxyInv'
<1>1. WindowInv' /\ phase' = phase /\ settle' = settle /\ settled' = settled
  BY WindowKept
<1>2. /\ phase' \in {"idle", "selecting", "sourceSelected", "undisciplined"}
      /\ settle' \in BOOLEAN /\ settled' \in BOOLEAN
  BY <1>1 DEF ProxyInv, Side, SideTypes
<1> QED BY <1>1, <1>2, WindowLine DEF Good

-----------------------------------------------------------------------------
LEMMA GoodContext ==
  ASSUME ProxyInv, Reader
  PROVE  Good(Context) /\ Context.stat = stat
BY NewContext DEF Good, Context

(* Whose state an event of the PTP clock may tell.                         *)
MayTell(c, k, clock) ==
  \/ k = "nic"
  \/ k = "master" /\ profile.type = "OC"
  \/ k \in {"T-BC", "master"} /\ profile.type = "T-BC" /\ k = GetMainClockName(c.stat)
  \/ k = "master" /\ profile.type = "T-BC" /\ clock = "FREERUN" /\ PtpState(c.stat) = "FREERUN"

LEMMA GenGood ==
  ASSUME ProxyInv, NEW c, Good(c), NEW k \in DOMAIN c.stat, NEW clock \in SyncStates, NEW in \in BOOLEAN,
         MayTell(c, k, clock),
         NEW d, d = GenPTPEvent(c, k, clock, in, "ptp")
  PROVE  Good(d) /\ DOMAIN d.stat = DOMAIN c.stat
<1>1. ProxyTypes /\ CtxTypes(c) /\ CtxClaims(c)
  BY DEF ProxyInv, Core, Side, ProxyTypes, Good
<1>2. GeneratedAs(c, k, clock, in, "ptp", d)
  BY <1>1, Generated
<1>3. DOMAIN d.stat = DOMAIN c.stat
  BY <1>2 DEF GeneratedAs, Moves, StateSet
<1>4. k \in {"T-BC", "master", "nic"} /\ ~(k = "master" /\ profile.type = "T-GM")
  BY DEF MayTell
<1>5. k = "nic" \/ k = GetMainClockName(c.stat) \/ (clock = "FREERUN" /\ PtpState(c.stat) = "FREERUN")
  BY MainClock DEF MayTell
<1>6. CtxTypes(d) /\ CtxClaims(d) /\ (KeepsRealtime(c) => KeepsRealtime(d))
  BY <1>1, <1>4, <1>5, GenPtp
<1> QED BY <1>3, <1>6 DEF Good

LEMMA GenFreerun ==
  ASSUME ProxyInv, NEW c, Good(c), NEW k \in DOMAIN c.stat, k = GetMainClockName(c.stat),
         NEW d, d = GenPTPEvent(c, k, "FREERUN", FALSE, "ptp")
  PROVE  PtpState(d.stat) = "FREERUN"
<1>1. CtxTypes(c) /\ "FREERUN" \in SyncStates
  BY DEF Good, SyncStates
<1>2. GeneratedAs(c, k, "FREERUN", FALSE, "ptp", d)
  BY <1>1, Generated
<1>3. NewState(c.stat[k].state, "FREERUN", FALSE) = "FREERUN"
  BY DEF NewState
<1>4. Moves(c, k, "FREERUN", d)
  BY <1>2, <1>3 DEF GeneratedAs
<1>5. Moved(c, k, "FREERUN", d)
  BY <1>1, <1>4, MovedStates
<1> QED BY <1>5 DEF Moved

LEMMA GenOsGood ==
  ASSUME ProxyInv, NEW c, Good(c), NEW k \in DOMAIN c.stat, k \in {"realtime", "chronyd"},
         NEW clock \in SyncStates, NEW in \in BOOLEAN, k = "chronyd" \/ clock = "FREERUN",
         NEW d, d = GenPTPEvent(c, k, clock, in, "os")
  PROVE  Good(d) /\ DOMAIN d.stat = DOMAIN c.stat /\ (clock = "FREERUN" => d.stat[k].state = "FREERUN")
<1>1. ProxyTypes /\ CtxTypes(c) /\ CtxClaims(c) /\ KeepsRealtime(c)
  BY DEF ProxyInv, Core, Side, ProxyTypes, Good
<1>2. GeneratedAs(c, k, clock, in, "os", d)
  BY <1>1, Generated
<1>3. DOMAIN d.stat = DOMAIN c.stat
  BY <1>2 DEF GeneratedAs, Moves, StateSet
<1> QED BY <1>1, <1>3, GenOs DEF Good

LEMMA MasterOffsetKeeps ==
  ASSUME ProxyInv, NEW clock \in {"FREERUN", "LOCKED"}, NEW in \in BOOLEAN, MasterOffset(clock, in)
  PROVE  ProxyInv'
<1>1. /\ Reader /\ Line /\ profile.type # "T-GM" /\ KeepsWindow /\ slaves' = slaves /\ gmState' = gmState
      /\ profile.type \in {"OC", "T-BC", "T-GM"}
  BY ProfileType DEF MasterOffset, Line
<1>2. PICK c : c = SetProcess(Context, "master", "ptp4l")
  OBVIOUS
<1>3. Good(c) /\ "master" \in DOMAIN c.stat
  <2>1. Fits("master", "ptp4l")
    BY <1>1 DEF Fits, Clocks, Procs, Sources
  <2> QED BY <1>1, <1>2, <2>1, GoodContext, ProcessGood
<1>4. PICK a : a = SetAlias(c, "master")
  OBVIOUS
<1>5. Good(a) /\ "master" \in DOMAIN a.stat
  BY <1>1, <1>3, <1>4, AliasGood
<1>6. PICK said : said = IF Source = "ts2phc" /\ gmState = "FREERUN" THEN "FREERUN" ELSE clock
  OBVIOUS
<1>7. said \in SyncStates
  BY <1>6 DEF SyncStates
<1>8. PICK d : d = IF slaves = {} THEN c ELSE IF IsTBC THEN SetQuietly(a, "master", said)
                   ELSE GenPTPEvent(a, "master", said, in, "ptp")
  OBVIOUS
<1>9. Good(d)
  <2>1. CASE slaves = {}
    BY <2>1, <1>3, <1>8
  <2>2. CASE slaves # {} /\ IsTBC
    <3>1. d = SetQuietly(a, "master", said) /\ CtxTypes(a) /\ CtxClaims(a) /\ ProxyTypes
      BY <2>2, <1>5, <1>8 DEF Good, ProxyInv, Core, Side, ProxyTypes
    <3> QED BY <3>1, <1>1, <1>5, <1>7, QuietlySet DEF Good
  <2>3. CASE slaves # {} /\ ~IsTBC
    <3>1. d = GenPTPEvent(a, "master", said, in, "ptp") /\ profile.type = "OC"
      BY <2>3, <1>1, <1>8 DEF IsTBC
    <3>2. MayTell(a, "master", said)
      BY <3>1 DEF MayTell
    <3> QED BY <3>1, <3>2, <1>5, <1>7, GenGood
  <2> QED BY <2>1, <2>2, <2>3
<1>10. Handle(d)
  BY <1>2, <1>4, <1>6, <1>8 DEF MasterOffset
<1>11. gmState' \in Maybe /\ slaves' \subseteq ProxyPorts
  BY <1>1 DEF ProxyInv, Side, SideTypes
<1>12. source' \in Sources /\ (source' # "" => Known("master"))
  BY <1>1, LineSource
<1> QED BY <1>1, <1>9, <1>10, <1>11, <1>12, LineKeeps

LEMMA NicOffsetKeeps ==
  ASSUME ProxyInv, NEW clock \in SyncStates, NEW in \in BOOLEAN, NicOffset(clock, in)
  PROVE  ProxyInv'
<1>1. /\ Reader /\ Line /\ profile.type # "OC" /\ KeepsWindow /\ slaves' = slaves /\ gmState' = gmState
      /\ profile.type \in {"OC", "T-BC", "T-GM"}
  BY ProfileType DEF NicOffset, Line
<1>2. PICK c : c = SetProcess(Context, "master", "ts2phc")
  OBVIOUS
<1>3. Good(c)
  <2>1. Fits("master", "ts2phc")
    BY <1>1 DEF Fits, Clocks, Procs, Sources
  <2> QED BY <1>1, <1>2, <2>1, GoodContext, ProcessGood
<1>4. PICK b : b = CheckSource(c, "nic", "ts2phc")
  OBVIOUS
<1>5. Good(b) /\ "nic" \in DOMAIN b.stat
  <2>1. Fits("nic", "ts2phc")
    BY <1>1 DEF Fits, Clocks, Procs, Sources
  <2> QED BY <1>3, <1>4, <2>1, CheckGood
<1>6. PICK a : a = SetAlias(b, "nic")
  OBVIOUS
<1>7. Good(a) /\ "nic" \in DOMAIN a.stat
  BY <1>5, <1>6, AliasGood
<1>8. PICK d : d = IF IsTBC THEN c ELSE GenPTPEvent(a, "nic", clock, in, "ptp")
  OBVIOUS
<1>9. Good(d)
  <2>1. MayTell(a, "nic", clock)
    BY DEF MayTell
  <2> QED BY <1>3, <1>7, <1>8, <2>1, GenGood
<1>10. Handle(d)
  BY <1>2, <1>4, <1>6, <1>8 DEF NicOffset
<1>11. gmState' \in Maybe /\ slaves' \subseteq ProxyPorts /\ (profile.type = "T-GM" => slaves' = {})
  BY <1>1 DEF ProxyInv, Side, SideTypes, SourceFits
<1>12. source' \in Sources /\ (source' # "" => Known("master")) /\ (profile.type = "T-GM" => source' # "ptp4l")
  BY <1>1, LineSource
<1> QED BY <1>1, <1>9, <1>10, <1>11, <1>12, LineKeeps

LEMMA ParseGMLogsKeeps ==
  ASSUME ProxyInv, NEW clock \in SyncStates, ParseGMLogs(clock)
  PROVE  ProxyInv'
<1>1. Reader /\ Line /\ profile.type = "T-GM" /\ KeepsWindow /\ slaves' = slaves
  BY DEF ParseGMLogs, Line
<1>2. PICK b : b = CheckSource(Context, "GM", "ts2phc")
  OBVIOUS
<1>3. Good(b) /\ "GM" \in DOMAIN b.stat
  <2>1. Fits("GM", "ts2phc")
    BY <1>1 DEF Fits, Clocks, Procs, Sources
  <2> QED BY <1>1, <1>2, <2>1, GoodContext, CheckGood
<1>4. PICK c : c = SetAlias(b, "GM")
  OBVIOUS
<1>5. Good(c) /\ "GM" \in DOMAIN c.stat
  BY <1>3, <1>4, AliasGood
<1>6. PICK d : d = IF Known("nic") THEN PublishChange(c, "GM", clock) ELSE c
  OBVIOUS
<1>7. Good(d)
  <2>1. CASE ~Known("nic")
    BY <2>1, <1>5, <1>6
  <2>2. CASE Known("nic")
    <3>1. GetMainClockName(c.stat) = "GM"
      BY <1>1, <1>5, MainClock DEF Has
    <3>2. d = PublishChange(c, "GM", clock) /\ CtxTypes(c) /\ CtxClaims(c) /\ CtxOs(c) /\ ProxyTypes
      BY <2>2, <1>5, <1>6, ClaimsOs DEF Good, ProxyInv, Core, Side, ProxyTypes
    <3> QED BY <3>1, <3>2, <1>5, ChangePublished DEF Good
  <2> QED BY <2>1, <2>2
<1>8. Handle(d) /\ gmState' \in {clock, gmState}
  BY <1>2, <1>4, <1>6 DEF ParseGMLogs
<1>9. gmState' \in Maybe /\ slaves' \subseteq ProxyPorts /\ slaves' = {}
  BY <1>1, <1>8 DEF ProxyInv, Side, SideTypes, SourceFits, Maybe
<1>10. source' \in Sources /\ (source' # "" => Known("master")) /\ (profile.type = "T-GM" => source' # "ptp4l")
  BY <1>1, LineSource
<1> QED BY <1>1, <1>7, <1>8, <1>9, <1>10, LineKeeps

LEMMA ParseTBCLogsKeeps ==
  ASSUME ProxyInv, NEW clock \in SyncStates, ParseTBCLogs(clock)
  PROVE  ProxyInv'
<1>1. Reader /\ Line /\ profile.type = "T-BC" /\ KeepsWindow /\ slaves' = slaves /\ gmState' = gmState
  BY DEF ParseTBCLogs, Line, IsTBC
<1>2. PICK b : b = CheckSource(Context, "T-BC", "ts2phc")
  OBVIOUS
<1>3. PICK c : c = SetAlias(b, "T-BC")
  OBVIOUS
<1>4. PICK d : d = PublishChange(c, "T-BC", clock)
  OBVIOUS
<1>5. ProxyTypes /\ Good(Context) /\ CtxTypes(Context) /\ CtxOs(Context)
  BY <1>1, GoodContext, ClaimsOs DEF Good, ProxyInv, Core, Side, ProxyTypes
<1>6. Fits("T-BC", "ts2phc") /\ "T-BC" \in Clocks /\ "ts2phc" \in Procs
  BY <1>1 DEF Fits, Clocks, Procs, Sources
<1>7. CheckedAs(Context, "T-BC", "ts2phc", b)
  BY <1>2, <1>5, <1>6, Checked
<1>8. CtxTypes(b) /\ "T-BC" \in DOMAIN b.stat /\ CtxOs(b) /\ KeepsRealtime(b)
  BY <1>1, <1>2, <1>5, <1>6, CheckedKeeps DEF Good
<1>9. CtxClaims(b) \/ b.stat["T-BC"].state = ""
  <2>1. CASE Has(Context.stat, "T-BC")
    <3>1. b = Context
      BY <2>1, <1>2 DEF CheckSource
    <3> QED BY <3>1, <1>5 DEF Good
  <2>2. CASE ~Has(Context.stat, "T-BC")
    BY <2>2, <1>7 DEF CheckedAs
  <2> QED BY <2>1, <2>2
<1>10. Relabelled(b, "T-BC", c)
  BY <1>3, <1>8, Aliased
<1>11. CtxTypes(c) /\ CtxOs(c) /\ KeepsRealtime(c) /\ (CtxClaims(b) => CtxClaims(c))
  BY <1>5, <1>8, <1>10, RelabelledKeeps
<1>12. "T-BC" \in DOMAIN c.stat /\ (CtxClaims(c) \/ c.stat["T-BC"].state = "")
  BY <1>8, <1>9, <1>10, <1>11 DEF Relabelled
<1>13. GetMainClockName(c.stat) = "T-BC"
  BY <1>1, <1>11, <1>12 DEF CtxTypes, ProfileFits, GetMainClockName, Has
<1>14. Good(d)
  BY <1>4, <1>5, <1>11, <1>12, <1>13, ChangePublished DEF Good
<1>15. Handle(d)
  BY <1>2, <1>3, <1>4 DEF ParseTBCLogs
<1>16. gmState' \in Maybe /\ slaves' \subseteq ProxyPorts
  BY <1>1 DEF ProxyInv, Side, SideTypes
<1>17. source' \in Sources /\ (source' # "" => Known("master"))
  BY <1>1, LineSource
<1> QED BY <1>1, <1>14, <1>15, <1>16, <1>17, LineKeeps

LEMMA HoldoverGood ==
  ASSUME ProxyInv, NEW c, Good(c), "master" \in DOMAIN c.stat, profile.type = "OC", NEW d, d = EnterHoldover(c)
  PROVE  Good(d)
<1>1. CASE c.stat["master"].proc # Source
  BY <1>1 DEF EnterHoldover
<1>2. CASE c.stat["master"].proc = Source
  <2>1. PICK e : e = PublishChange(c, "master", "HOLDOVER")
    OBVIOUS
  <2>2. d = [e EXCEPT !.timer = TRUE]
    BY <1>2, <2>1 DEF EnterHoldover
  <2>3. ProxyTypes /\ CtxTypes(c) /\ CtxClaims(c) /\ CtxOs(c) /\ "HOLDOVER" \in SyncStates
    BY ClaimsOs DEF ProxyInv, Core, Side, ProxyTypes, Good, SyncStates
  <2>4. GetMainClockName(c.stat) = "master"
    BY MainClock
  <2>5. CtxTypes(e) /\ CtxClaims(e) /\ (KeepsRealtime(c) => KeepsRealtime(e)) /\ Moves(c, "master", "HOLDOVER", e)
    BY <2>1, <2>3, <2>4, ChangePublished
  <2>6. DOMAIN d = DOMAIN e /\ d.stat = e.stat /\ d.pubs = e.pubs /\ d.silent = e.silent /\ d.timer = TRUE
    BY <2>2, <2>5 DEF CtxTypes
  <2>7. Has(d.stat, "master")
    BY <2>5, <2>6 DEF Moves, StateSet, Has
  <2> QED BY <2>5, <2>6, <2>7 DEF Good, CtxTypes, CtxClaims, KeepsRealtime
<1> QED BY <1>1, <1>2

LEMMA ParsePTP4lKeeps ==
  ASSUME ProxyInv, NEW p \in ProxyPorts, NEW role, NEW clock, ParsePTP4l(p, role, clock)
  PROVE  ProxyInv'
<1>1. /\ Reader /\ Line /\ KeepsWindow /\ gmState' = gmState
      /\ slaves' = IF role = "SLAVE" THEN slaves \cup {p} ELSE slaves \ {p}
      /\ profile.type = "T-GM" => role # "SLAVE"
      /\ profile.type \in {"OC", "T-BC", "T-GM"}
  BY ProfileType DEF ParsePTP4l, Line
<1>2. source' \in Sources /\ (source' # "" => Known("master")) /\ (profile.type = "T-GM" => source' # "ptp4l")
  BY <1>1, LineSource
<1>3. source' = Source
  BY <1>1 DEF Line
<1>4. PICK r : r = CheckSource(Context, "realtime", "phc2sys")
  OBVIOUS
<1>5. PICK m : m = CheckSource(r, "master", Source)
  OBVIOUS
<1>6. Good(r)
  <2>1. Fits("realtime", "phc2sys")
    BY DEF Fits, Clocks, Procs
  <2> QED BY <1>1, <1>4, <2>1, GoodContext, CheckGood
<1>7. Good(m)
  <2>1. Fits("master", Source)
    BY <1>2, <1>3 DEF Fits, Clocks, Procs
  <2> QED BY <1>5, <1>6, <2>1, CheckGood
<1>8. PICK c : c = IF role = "SLAVE" \/ Source = "ts2phc" THEN m ELSE Context
  OBVIOUS
<1>9. Good(c)
  BY <1>1, <1>7, <1>8, GoodContext
<1>10. PICK d : d = IF IsTBC
                    THEN IF (p \in slaves /\ Has(c.stat, "master")) /\ role = "FAULTY" /\ c.stat["master"].alias
                         THEN SetQuietly(c, "master", "FREERUN") ELSE c
                    ELSE IF (p \in slaves /\ Has(c.stat, "master")) /\ clock = "HOLDOVER"
                              /\ c.stat["master"].state # "HOLDOVER"
                         THEN EnterHoldover(c) ELSE c
  OBVIOUS
<1>11. Handle(d)
  BY <1>4, <1>5, <1>8, <1>10 DEF ParsePTP4l
<1>12. Good(d)
  <2>1. CASE d = c
    BY <2>1, <1>9
  <2>2. CASE IsTBC /\ Has(c.stat, "master") /\ d = SetQuietly(c, "master", "FREERUN")
    <3>1. profile.type # "T-GM" /\ "master" \in DOMAIN c.stat /\ "FREERUN" \in SyncStates
      BY <2>2 DEF IsTBC, Has, SyncStates
    <3>2. CtxTypes(c) /\ CtxClaims(c) /\ KeepsRealtime(c) /\ ProxyTypes
      BY <1>9 DEF Good, ProxyInv, Core, Side, ProxyTypes
    <3> QED BY <2>2, <3>1, <3>2, QuietlySet DEF Good
  <2>3. CASE ~IsTBC /\ p \in slaves /\ Has(c.stat, "master") /\ d = EnterHoldover(c)
    <3>1. profile.type = "OC" /\ "master" \in DOMAIN c.stat
      BY <2>3, <1>1 DEF IsTBC, Has, ProxyInv, Side, SourceFits
    <3> QED BY <2>3, <3>1, <1>9, HoldoverGood
  <2> QED BY <1>10, <2>1, <2>2, <2>3
<1>13. /\ gmState' \in Maybe /\ slaves' \subseteq ProxyPorts
       /\ profile.type = "T-GM" => slaves' = {}
  BY <1>1 DEF ProxyInv, Side, SideTypes, SourceFits
<1> QED BY <1>1, <1>2, <1>11, <1>12, <1>13, LineKeeps

LEMMA DownTs2phcGood ==
  ASSUME ProxyInv, Reader, NEW d, d = DownTs2phc
  PROVE  Good(d)
<1> DEFINE down == {"nic", "GM", "T-BC"} \cap DOMAIN stat
           t == [k \in DOMAIN stat |-> IF k \in down THEN [stat[k] EXCEPT !.state = "FREERUN"] ELSE stat[k]]
<1>1. /\ DOMAIN d = {"stat", "pubs", "timer", "silent"} /\ d.stat = t /\ d.pubs = <<>> /\ d.timer = timer
      /\ d.silent = IF silent = "torn" \/ \A k \in down : stat[k].state = "FREERUN" THEN silent ELSE "yes"
  BY DEF DownTs2phc, Context
<1>2. IsStat(stat) /\ ProfileFits(stat) /\ silent \in {"no", "yes", "torn"} /\ timer \in BOOLEAN
  BY DEF ProxyInv, Core, CoreTypes
<1>3. DOMAIN t = DOMAIN stat /\ t = [k \in DOMAIN t |-> t[k]]
  OBVIOUS
<1>4. \A k \in DOMAIN stat : k \notin down => t[k] = stat[k]
  OBVIOUS
<1>5. \A k \in down : t[k].state = "FREERUN" /\ t[k] \in StatRec
  <2> TAKE k \in down
  <2>1. stat[k] \in StatRec /\ t[k] = [stat[k] EXCEPT !.state = "FREERUN"]
    BY <1>2 DEF IsStat
  <2>2. "FREERUN" \in Maybe
    BY DEF Maybe, SyncStates
  <2> HIDE DEF t, down
  <2> QED BY <2>1, <2>2 DEF StatRec
<1>6. "master" \notin down /\ "realtime" \notin down /\ "chronyd" \notin down /\ down \subseteq DOMAIN stat
  OBVIOUS
<1> HIDE DEF t, down
<1>7. IsStat(t)
  <2>1. \A k \in DOMAIN t : t[k] \in StatRec
    BY <1>2, <1>3, <1>4, <1>5 DEF IsStat
  <2>2. t \in [DOMAIN t -> StatRec]
    BY <1>3, <2>1
  <2> QED BY <1>2, <1>3, <1>4, <1>6, <2>2 DEF IsStat, Has
<1>8. ProfileFits(t)
  BY <1>2, <1>3, <1>4, <1>6, ProfileType DEF ProfileFits, Has
<1>9. CtxTypes(d)
  <2>1. d.pubs \in Seq(Events)
    BY <1>1
  <2>2. d.timer => profile.type = "OC" /\ Has(d.stat, "master")
    BY <1>1, <1>3 DEF ProxyInv, Core, TimerFits, Known, Has
  <2>3. IsStat(d.stat) /\ ProfileFits(d.stat) /\ DOMAIN stat \subseteq DOMAIN d.stat
    BY <1>1, <1>3, <1>7, <1>8
  <2> QED BY <1>1, <1>2, <2>1, <2>2, <2>3 DEF CtxTypes
<1>10. OsState(t) = OsState(stat) /\ BothOs(t) = BothOs(stat)
  BY <1>3, <1>4, <1>6 DEF OsState, BothOs, StateOf, Has
<1>11. ASSUME d.silent = "no" PROVE silent = "no" /\ PtpState(t) = PtpState(stat)
  <2>1. silent = "no" /\ \A k \in down : stat[k].state = "FREERUN"
    BY <1>1, <1>11
  <2>2. \A k \in DOMAIN stat : t[k].state = stat[k].state
    BY <2>1, <1>4, <1>5
  <2>3. GetMainClockName(t) = GetMainClockName(stat)
    BY <1>3 DEF GetMainClockName, Has
  <2> QED BY <2>1, <2>2, <2>3, <1>3 DEF PtpState, StateOf, Has
<1>12. Claims(told, PtpState(stat), OsState(stat), BothOs(stat), todo.timer \o <<>>, silent)
  BY NewContext DEF CtxClaims, Context
<1>13. CtxClaims(d)
  <2>1. silent = "torn" => d.silent = "torn"
    BY <1>1
  <2>2. Claims(told, PtpState(t), OsState(stat), BothOs(stat), todo.timer \o <<>>, d.silent)
    BY <1>11, <1>12, <2>1, ClaimsStay
  <2> QED BY <1>1, <1>10, <2>2 DEF CtxClaims
<1>14. KeepsRealtime(d)
  BY <1>1, <1>4, <1>6 DEF KeepsRealtime, Known
<1> QED BY <1>9, <1>13, <1>14 DEF Good

LEMMA DownOtherGood ==
  ASSUME ProxyInv, Reader, NEW proc \in {"ptp4l", "phc2sys"}, NEW d, d = DownOther(proc)
  PROVE  Good(d)
<1>1. Good(Context) /\ Context.stat = stat /\ "FREERUN" \in SyncStates /\ FALSE \in BOOLEAN
  BY GoodContext DEF SyncStates
<1>f. PICK f \in BOOLEAN : f = FALSE
  OBVIOUS
<1>2. PICK c1 : c1 = IF IsTBC /\ proc = "ptp4l" /\ Known("T-BC")
                     THEN GenPTPEvent(Context, "T-BC", "FREERUN", FALSE, "ptp") ELSE Context
  OBVIOUS
<1>3. PICK c2 : c2 = IF source = proc /\ stat["master"].alias
                     THEN GenPTPEvent(c1, "master", "FREERUN", FALSE, "ptp") ELSE c1
  OBVIOUS
<1>4. d = IF Known("realtime") /\ ~profile.chronyd
          THEN GenPTPEvent(c2, "realtime", "FREERUN", FALSE, "os") ELSE c2
  BY <1>2, <1>3 DEF DownOther
<1>5. /\ Good(c1) /\ DOMAIN c1.stat = DOMAIN stat
      /\ IsTBC /\ proc = "ptp4l" /\ Known("T-BC") => PtpState(c1.stat) = "FREERUN"
  <2>1. CASE IsTBC /\ proc = "ptp4l" /\ Known("T-BC")
    <3>1. "T-BC" \in DOMAIN Context.stat /\ profile.type = "T-BC" /\ Has(Context.stat, "T-BC")
      BY <2>1, <1>1 DEF Known, Has, IsTBC
    <3>2. GetMainClockName(Context.stat) = "T-BC"
      BY <1>1, <3>1, MainClock
    <3>3. c1 = GenPTPEvent(Context, "T-BC", "FREERUN", FALSE, "ptp")
      BY <2>1, <1>2
    <3>f. c1 = GenPTPEvent(Context, "T-BC", "FREERUN", f, "ptp")
      BY <3>3, <1>f
    <3>4. MayTell(Context, "T-BC", "FREERUN")
      BY <3>1, <3>2 DEF MayTell
    <3>5. Good(c1) /\ DOMAIN c1.stat = DOMAIN Context.stat
      BY <1>1, <3>1, <3>f, <3>4, GenGood
    <3>6. PtpState(c1.stat) = "FREERUN"
      BY <1>1, <3>1, <3>2, <3>3, GenFreerun
    <3> QED BY <1>1, <3>5, <3>6
  <2>2. CASE ~(IsTBC /\ proc = "ptp4l" /\ Known("T-BC"))
    BY <2>2, <1>1, <1>2
  <2> QED BY <2>1, <2>2
<1>6. Good(c2) /\ DOMAIN c2.stat = DOMAIN stat
  <2>1. CASE source = proc /\ stat["master"].alias
    <3>1. proc = "ptp4l" /\ Known("master")
      BY <2>1 DEF ProxyInv, Side, SideTypes, SourceFits, Sources
    <3>2. profile.type # "T-GM" /\ profile.type \in {"OC", "T-BC", "T-GM"}
      BY <2>1, <3>1, ProfileType DEF ProxyInv, Side, SourceFits
    <3>3. "master" \in DOMAIN c1.stat
      BY <1>5, <3>1 DEF Known
    <3>4. c2 = GenPTPEvent(c1, "master", "FREERUN", f, "ptp")
      BY <2>1, <1>3, <1>f
    <3>5. CASE profile.type = "OC"
      <4>1. MayTell(c1, "master", "FREERUN")
        BY <3>5 DEF MayTell
      <4> QED BY <1>1, <1>5, <3>3, <3>4, <4>1, GenGood
    <3>6. CASE profile.type = "T-BC" /\ Known("T-BC")
      <4>1. PtpState(c1.stat) = "FREERUN"
        BY <1>5, <3>1, <3>6 DEF IsTBC
      <4>2. MayTell(c1, "master", "FREERUN")
        BY <3>6, <4>1 DEF MayTell
      <4> QED BY <1>1, <1>5, <3>3, <3>4, <4>2, GenGood
    <3>7. CASE profile.type = "T-BC" /\ ~Known("T-BC")
      <4>1. ~Has(c1.stat, "T-BC")
        BY <1>5, <3>7 DEF Known, Has
      <4>2. GetMainClockName(c1.stat) = "master"
        BY <1>5, <3>7, <4>1, MainClock
      <4>3. MayTell(c1, "master", "FREERUN")
        BY <3>7, <4>2 DEF MayTell
      <4> QED BY <1>1, <1>5, <3>3, <3>4, <4>3, GenGood
    <3> QED BY <3>2, <3>5, <3>6, <3>7
  <2>2. CASE ~(source = proc /\ stat["master"].alias)
    BY <2>2, <1>3, <1>5
  <2> QED BY <2>1, <2>2
<1>7. CASE Known("realtime") /\ ~profile.chronyd
  <2>1. "realtime" \in DOMAIN c2.stat /\ d = GenPTPEvent(c2, "realtime", "FREERUN", FALSE, "os")
    BY <1>4, <1>6, <1>7 DEF Known
  <2> QED BY <1>1, <1>6, <2>1, GenOsGood
<1>8. CASE ~(Known("realtime") /\ ~profile.chronyd)
  BY <1>4, <1>6, <1>8
<1> QED BY <1>7, <1>8

LEMMA DownKeeps ==
  ASSUME ProxyInv, NEW proc \in {"ptp4l", "phc2sys", "ts2phc"}, processDownEvent(proc)
  PROVE  ProxyInv'
<1>1. PICK d : d = IF proc = "ts2phc" THEN DownTs2phc ELSE DownOther(proc)
  OBVIOUS
<1>2. Reader /\ Handle(d) /\ KeepsWindow /\ slaves' = slaves /\ source' = source /\ gmState' = gmState
  BY <1>1 DEF processDownEvent
<1>3. Good(d)
  BY <1>1, <1>2, DownTs2phcGood, DownOtherGood
<1>4. /\ gmState' \in Maybe /\ slaves' \subseteq ProxyPorts /\ source' \in Sources
      /\ source' # "" => Known("master")
      /\ profile.type = "T-GM" => slaves' = {} /\ source' # "ptp4l"
  BY <1>2 DEF ProxyInv, Side, SideTypes, SourceFits
<1> QED BY <1>2, <1>3, <1>4, LineKeeps

LEMMA ChronydKeeps ==
  ASSUME ProxyInv, NEW clock \in {"FREERUN", "LOCKED"}, ChronydLine(clock)
  PROVE  ProxyInv'
<1>1. PICK c : c = CheckSource(Context, "chronyd", "chronyd")
  OBVIOUS
<1>2. PICK d : d = GenPTPEvent(c, "chronyd", clock, TRUE, "os")
  OBVIOUS
<1>3. Reader /\ Handle(d) /\ KeepsWindow /\ slaves' = slaves /\ source' = source /\ gmState' = gmState
  BY <1>1, <1>2 DEF ChronydLine
<1>4. Good(c) /\ "chronyd" \in DOMAIN c.stat
  <2>1. Fits("chronyd", "chronyd")
    BY DEF Fits, Clocks, Procs
  <2> QED BY <1>1, <1>3, <2>1, GoodContext, CheckGood
<1>5. Good(d)
  <2>1. clock \in SyncStates /\ TRUE \in BOOLEAN
    BY DEF SyncStates
  <2> QED BY <1>2, <1>4, <2>1, GenOsGood
<1>6. /\ gmState' \in Maybe /\ slaves' \subseteq ProxyPorts /\ source' \in Sources
      /\ source' # "" => Known("master")
      /\ profile.type = "T-GM" => slaves' = {} /\ source' # "ptp4l"
  BY <1>3 DEF ProxyInv, Side, SideTypes, SourceFits
<1> QED BY <1>3, <1>5, <1>6, LineKeeps
-----------------------------------------------------------------------------
LEMMA RealtimeContext ==
  ASSUME ProxyInv, Reader
  PROVE  Good(WithRealtime) /\ "realtime" \in DOMAIN WithRealtime.stat
<1>1. Fits("realtime", "phc2sys")
  BY DEF Fits, Clocks, Procs
<1> QED BY <1>1, GoodContext, CheckGood DEF WithRealtime

LEMMA Phc2sysKeeps ==
  ASSUME ProxyInv, Phc2sysLine, NEW c, CtxTypes(c), CtxClaims(c), Handle(c), WindowInv',
         phase' \in {"idle", "selecting", "sourceSelected", "undisciplined"},
         settle' \in BOOLEAN, settled' \in BOOLEAN
  PROVE  ProxyInv'
<1>1. Reader /\ Line /\ slaves' = slaves /\ gmState' = gmState
  BY DEF Phc2sysLine, Line
<1>2. source' \in Sources /\ (source' # "" => Known("master")) /\ (profile.type = "T-GM" => source' # "ptp4l")
  BY <1>1, LineSource
<1>3. gmState' \in Maybe /\ slaves' \subseteq ProxyPorts /\ (profile.type = "T-GM" => slaves' = {})
  BY <1>1 DEF ProxyInv, Side, SideTypes, SourceFits
<1> QED BY <1>1, <1>2, <1>3, WindowLine

LEMMA RealtimeOffsetKeeps ==
  ASSUME ProxyInv, NEW clock \in {"FREERUN", "LOCKED"}, NEW in \in BOOLEAN, RealtimeOffset(clock, in)
  PROVE  ProxyInv'
<1>1. PICK c : c = SetProcess(WithRealtime, "realtime", "phc2sys")
  OBVIOUS
<1>2. PICK v : v = RealtimeState(clock)
  OBVIOUS
<1>3. PICK d : d = GenPTPEvent(c, "realtime", v, in, "os")
  OBVIOUS
<1>4. Phc2sysLine /\ Reader /\ Handle(d) /\ phase' = "idle" /\ settle' = FALSE /\ settled' = settled
  BY <1>1, <1>2, <1>3 DEF RealtimeOffset, StopSettle, Phc2sysLine, Line
<1>5. Good(c) /\ "realtime" \in DOMAIN c.stat
  <2>1. Fits("realtime", "phc2sys")
    BY DEF Fits, Clocks, Procs
  <2> QED BY <1>1, <1>4, <2>1, RealtimeContext, ProcessGood
<1>6. v \in SyncStates
  <2>1. IsStat(stat)
    BY DEF ProxyInv, Core, CoreTypes
  <2>2. E1State \in Maybe
    BY <2>1 DEF E1State, IsStat, Known, StatRec, Maybe, SyncStates, GetMainClockName
  <2> QED BY <1>2, <2>2 DEF RealtimeState, OverallState, Maybe, SyncStates
<1>7. CtxTypes(d) /\ CtxClaims(d)
  BY <1>3, <1>5, <1>6, GenOs DEF Good, ProxyInv, Core, Side, ProxyTypes
<1>8. WindowInv'
  BY <1>4 DEF WindowInv
<1>9. settled' \in BOOLEAN /\ settle' \in BOOLEAN
  BY <1>4 DEF ProxyInv, Side, SideTypes
<1> QED BY <1>4, <1>7, <1>8, <1>9, Phc2sysKeeps

LEMMA SelectionKeeps ==
  ASSUME ProxyInv, Begin \/ Abort \/ ReArmSettle \/ SourceClockSelected \/ SinkClockSelected
  PROVE  ProxyInv'
<1>1. Phc2sysLine /\ Reader /\ Handle(WithRealtime)
  BY DEF Begin, Abort, ReArmSettle, SourceClockSelected, SinkClockSelected, Quietly, Phc2sysLine, Line
<1>2. CtxTypes(WithRealtime) /\ CtxClaims(WithRealtime) /\ KeepsRealtime(WithRealtime)
      /\ "realtime" \in DOMAIN WithRealtime.stat
  BY <1>1, RealtimeContext DEF Good
<1>3. /\ phase \in {"idle", "selecting", "sourceSelected", "undisciplined"}
      /\ settle \in BOOLEAN /\ settled \in BOOLEAN
  BY DEF ProxyInv, Side, SideTypes
<1>4. /\ phase' \in {"idle", "selecting", "sourceSelected", "undisciplined"}
      /\ settle' \in BOOLEAN /\ settled' \in BOOLEAN
  <2>1. CASE Begin
    BY <2>1 DEF Begin, StopSettle
  <2>2. CASE Abort
    BY <2>2, <1>3 DEF Abort
  <2>3. CASE ReArmSettle
    BY <2>3, <1>3 DEF ReArmSettle
  <2>4. CASE SourceClockSelected
    BY <2>4, <1>3 DEF SourceClockSelected
  <2>5. CASE SinkClockSelected
    BY <2>5, <1>3 DEF SinkClockSelected, StopSettle
  <2> QED BY <2>1, <2>2, <2>3, <2>4, <2>5
<1>5. phase' = "undisciplined" => phase = "undisciplined"
  BY DEF Begin, Abort, ReArmSettle, SourceClockSelected, SinkClockSelected
<1>6. stat' = WithRealtime.stat /\ profile' = profile
  BY <1>1 DEF Handle
<1>7. Known("realtime")'
  BY <1>2, <1>6 DEF Known
<1>8. WindowInv'
  BY <1>2, <1>5, <1>6, <1>7 DEF WindowInv, KeepsRealtime, ProxyInv, Side
<1> QED BY <1>1, <1>2, <1>4, <1>8, Phc2sysKeeps

(* The window finds the system clock undisciplined and tells so.           *)
LEMMA FinaliseGood ==
  ASSUME ProxyInv, Reader, NEW c, Good(c), Finalise(c)
  PROVE  \E d : /\ Good(d) /\ Handle(d) /\ WindowInv' /\ settle' = FALSE
               /\ phase' \in {"idle", "selecting", "sourceSelected", "undisciplined"}
<1>1. PICK d : d = IF phase = "sourceSelected" THEN publishOsClockFreerunUndisciplined(c) ELSE c
  OBVIOUS
<1>2. Handle(d) /\ settle' = FALSE
  BY <1>1 DEF Finalise, StopSettle
<1>3. phase' = CASE phase = "sourceSelected" -> "undisciplined"
                 [] phase = "selecting" -> "idle"
                 [] OTHER -> phase
  BY DEF Finalise
<1>4. phase \in {"idle", "selecting", "sourceSelected", "undisciplined"}
  BY DEF ProxyInv, Side, SideTypes
<1>5. stat' = d.stat /\ profile' = profile
  BY <1>2 DEF Handle
<1>6. DOMAIN stat \subseteq DOMAIN c.stat
  BY DEF Good, CtxTypes
<1>7. CASE phase = "sourceSelected" /\ ~profile.chronyd
  <2>0. PICK f \in BOOLEAN : f = FALSE
    OBVIOUS
  <2>1. d = GenPTPEvent(c, "realtime", "FREERUN", f, "os") /\ "FREERUN" \in SyncStates
    BY <1>1, <1>7, <2>0 DEF publishOsClockFreerunUndisciplined, SyncStates
  <2>2. "realtime" \in DOMAIN c.stat
    BY <1>6, <1>7 DEF ProxyInv, Side, WindowInv, Known
  <2>3. Good(d) /\ DOMAIN d.stat = DOMAIN c.stat /\ d.stat["realtime"].state = "FREERUN"
    BY <2>1, <2>2, GenOsGood
  <2>4. phase' = "undisciplined"
    BY <1>3, <1>7
  <2>5. WindowInv'
    BY <1>5, <2>2, <2>3, <2>4 DEF WindowInv, Known
  <2> QED BY <1>2, <2>3, <2>4, <2>5
<1>8. CASE phase = "sourceSelected" /\ profile.chronyd
  <2>1. d = c /\ phase' = "undisciplined"
    BY <1>1, <1>3, <1>8 DEF publishOsClockFreerunUndisciplined
  <2>2. WindowInv'
    BY <1>5, <1>8, <2>1 DEF WindowInv
  <2> QED BY <1>2, <2>1, <2>2
<1>9. CASE phase # "sourceSelected"
  <2>1. d = c
    BY <1>1, <1>9
  <2>2. phase' \in {"idle", "undisciplined"} /\ (phase' = "undisciplined" => phase = "undisciplined")
    BY <1>3, <1>4, <1>9
  <2>3. WindowInv'
    BY <1>5, <1>6, <2>1, <2>2 DEF WindowInv, Good, KeepsRealtime, ProxyInv, Side, Known
  <2> QED BY <1>2, <2>1, <2>2, <2>3
<1> QED BY <1>7, <1>8, <1>9

LEMMA FinaliseLineKeeps ==
  ASSUME ProxyInv, FinaliseLine
  PROVE  ProxyInv'
<1>1. Phc2sysLine /\ Reader /\ settled' = settled /\ settled' \in BOOLEAN
  BY DEF FinaliseLine, Phc2sysLine, Line, ProxyInv, Side, SideTypes
<1>2. Good(WithRealtime)
  BY <1>1, RealtimeContext
<1>3. CASE IsWindowOpen
  <2>1. Finalise(WithRealtime)
    BY <1>3 DEF FinaliseLine
  <2>2. PICK d : /\ Good(d) /\ Handle(d) /\ WindowInv' /\ settle' = FALSE
                 /\ phase' \in {"idle", "selecting", "sourceSelected", "undisciplined"}
    BY <1>1, <1>2, <2>1, FinaliseGood
  <2> QED BY <1>1, <2>2, Phc2sysKeeps DEF Good
<1>4. CASE ~IsWindowOpen
  <2>1. Handle(WithRealtime) /\ phase' = phase /\ settle' = settle /\ KeepsWindow
    BY <1>1, <1>4 DEF FinaliseLine, Quietly, KeepsWindow
  <2>2. WindowInv'
    BY <1>1, <1>2, <2>1, WindowKept
  <2>3. /\ phase' \in {"idle", "selecting", "sourceSelected", "undisciplined"} /\ settle' \in BOOLEAN
    BY <2>1 DEF ProxyInv, Side, SideTypes
  <2> QED BY <1>1, <1>2, <2>1, <2>2, <2>3, Phc2sysKeeps DEF Good
<1> QED BY <1>3, <1>4

LEMMA FinaliseIfKeeps ==
  ASSUME ProxyInv, FinaliseIfGeneration
  PROVE  ProxyInv'
<1>1. Reader /\ Finalise(Context) /\ settled' = FALSE /\ slaves' = slaves /\ source' = source /\ gmState' = gmState
  BY DEF FinaliseIfGeneration
<1>2. PICK d : /\ Good(d) /\ Handle(d) /\ WindowInv' /\ settle' = FALSE
               /\ phase' \in {"idle", "selecting", "sourceSelected", "undisciplined"}
  BY <1>1, GoodContext, FinaliseGood
<1>3. /\ gmState' \in Maybe /\ slaves' \subseteq ProxyPorts /\ source' \in Sources
      /\ source' # "" => Known("master")
      /\ profile.type = "T-GM" => slaves' = {} /\ source' # "ptp4l"
      /\ settle' \in BOOLEAN /\ settled' \in BOOLEAN
  BY <1>1, <1>2 DEF ProxyInv, Side, SideTypes, SourceFits
<1> QED BY <1>1, <1>2, <1>3, WindowLine DEF Good
-----------------------------------------------------------------------------
(* The queue of publications: the head in another step, and the rest.      *)
HeadAs(q, r, e) ==
  /\ r \in Seq(Pub) /\ Len(r) = Len(q) /\ r # <<>> /\ r[1] = e
  /\ \A k \in 1..Len(q) : k # 1 => r[k] = q[k]
TailAs(q, r) ==
  /\ r \in Seq(Pub) /\ Len(r) + 1 = Len(q) /\ (r = <<>> <=> Len(q) = 1)
  /\ \A k \in 1..Len(r) : r[k] = q[k + 1]

LEMMA HeadChanged ==
  ASSUME NEW q \in Seq(Pub), q # <<>>, NEW e \in Pub
  PROVE  HeadAs(q, <<e>> \o Tail(q), e)
<1>1. Tail(q) \in Seq(Pub) /\ Len(Tail(q)) = Len(q) - 1 /\ Len(q) \in Nat /\ Len(q) >= 1
      /\ \A k \in 1..Len(Tail(q)) : Tail(q)[k] = q[k + 1]
  OBVIOUS
<1>2. <<e>> \in Seq(Pub) /\ Len(<<e>>) = 1 /\ <<e>>[1] = e
  OBVIOUS
<1>3. PICK t \in Seq(Pub) : t = Tail(q)
  BY <1>1
<1>4. PICK h \in Seq(Pub) : h = <<e>>
  BY <1>2
<1>5. PICK r : r = h \o t
  OBVIOUS
<1>6. /\ r \in Seq(Pub) /\ Len(r) = Len(h) + Len(t) /\ \A k \in 1..Len(h) : r[k] = h[k]
      /\ \A k \in 1..Len(t) : r[Len(h) + k] = t[k]
  BY <1>5
<1>7. Len(h) = 1 /\ h[1] = e /\ Len(t) = Len(q) - 1 /\ \A k \in 1..Len(t) : t[k] = q[k + 1]
  BY <1>1, <1>2, <1>3, <1>4
<1>8. Len(r) = Len(q) /\ r[1] = e /\ r # <<>>
  BY <1>1, <1>6, <1>7
<1>9. \A k \in 1..Len(q) : k # 1 => r[k] = q[k]
  <2> TAKE k \in 1..Len(q)
  <2> HAVE k # 1
  <2>1. k - 1 \in 1..Len(t) /\ k = 1 + (k - 1) /\ (k - 1) + 1 = k
    BY <1>1, <1>7
  <2>2. r[1 + (k - 1)] = t[k - 1] /\ t[k - 1] = q[(k - 1) + 1]
    BY <2>1, <1>6, <1>7
  <2> QED BY <2>1, <2>2
<1>10. HeadAs(q, r, e)
  BY <1>6, <1>8, <1>9 DEF HeadAs
<1> QED BY <1>3, <1>4, <1>5, <1>10

LEMMA TailTaken ==
  ASSUME NEW q \in Seq(Pub), q # <<>>
  PROVE  TailAs(q, Tail(q))
<1>1. Tail(q) \in Seq(Pub) /\ Len(Tail(q)) = Len(q) - 1 /\ Len(q) \in Nat /\ Len(q) >= 1
      /\ \A k \in 1..Len(Tail(q)) : Tail(q)[k] = q[k + 1]
  OBVIOUS
<1>2. PICK t \in Seq(Pub) : t = Tail(q)
  BY <1>1
<1>3. t = <<>> <=> Len(t) = 0
  OBVIOUS
<1> QED BY <1>1, <1>2, <1>3 DEF TailAs

LEMMA HeadTells ==
  ASSUME NEW q \in Seq(Pub), q # <<>>, NEW e, NEW r, HeadAs(q, r, e), NEW type, NEW v, NEW t, NEW t2,
         Tells(t, q, type, v), ~Says(e, type),
         IF Says(q[1], type) THEN t2[type] = q[1].state ELSE t2[type] = t[type]
  PROVE  Tells(t2, r, type, v)
<1>1. Len(q) \in Nat /\ Len(q) >= 1 /\ Len(r) = Len(q) /\ r[1] = e
      /\ \A k \in 1..Len(q) : k # 1 => r[k] = q[k]
  BY DEF HeadAs
<1>2. CASE t[type] = v /\ \A k \in 1..Len(q) : ~Says(q[k], type)
  <2>1. ~Says(q[1], type)
    BY <1>1, <1>2
  <2>2. \A k \in 1..Len(r) : ~Says(r[k], type)
    BY <1>1, <1>2
  <2> QED BY <1>2, <2>1, <2>2 DEF Tells
<1>3. CASE \E k \in 1..Len(q) : /\ Says(q[k], type) /\ q[k].state = v
                                /\ \A j \in 1..Len(q) : j > k => ~Says(q[j], type)
  <2>1. PICK k \in 1..Len(q) : /\ Says(q[k], type) /\ q[k].state = v
                              /\ \A j \in 1..Len(q) : j > k => ~Says(q[j], type)
    BY <1>3
  <2>2. CASE k = 1
    <3>1. \A j \in 1..Len(r) : ~Says(r[j], type)
      BY <1>1, <2>1, <2>2
    <3>2. t2[type] = v
      BY <2>1, <2>2
    <3> QED BY <3>1, <3>2 DEF Tells
  <2>3. CASE k # 1
    <3>1. Says(r[k], type) /\ r[k].state = v /\ k \in 1..Len(r)
      BY <1>1, <2>1, <2>3
    <3>2. \A j \in 1..Len(r) : j > k => ~Says(r[j], type)
      BY <1>1, <2>1
    <3> QED BY <3>1, <3>2 DEF Tells
  <2> QED BY <2>2, <2>3
<1> QED BY <1>2, <1>3 DEF Tells

LEMMA TailTells ==
  ASSUME NEW q \in Seq(Pub), NEW r, TailAs(q, r), NEW type, NEW v, NEW t, NEW t2,
         Tells(t, q, type, v), ~Says(q[1], type), t2[type] = t[type]
  PROVE  Tells(t2, r, type, v)
<1>1. Len(q) \in Nat /\ Len(r) \in Nat /\ Len(r) + 1 = Len(q) /\ \A k \in 1..Len(r) : r[k] = q[k + 1]
  BY DEF TailAs
<1>2. \A k \in 1..Len(r) : k + 1 \in 1..Len(q)
  BY <1>1
<1>3. CASE t[type] = v /\ \A k \in 1..Len(q) : ~Says(q[k], type)
  BY <1>1, <1>2, <1>3 DEF Tells
<1>4. CASE \E k \in 1..Len(q) : /\ Says(q[k], type) /\ q[k].state = v
                                /\ \A j \in 1..Len(q) : j > k => ~Says(q[j], type)
  <2>1. PICK k \in 1..Len(q) : /\ Says(q[k], type) /\ q[k].state = v
                              /\ \A j \in 1..Len(q) : j > k => ~Says(q[j], type)
    BY <1>4
  <2>2. k - 1 \in 1..Len(r) /\ (k - 1) + 1 = k
    BY <1>1, <2>1
  <2>3. r[k - 1] = q[k]
    BY <1>1, <2>2
  <2>4. \A j \in 1..Len(r) : j > k - 1 => ~Says(r[j], type)
    <3> TAKE j \in 1..Len(r)
    <3> HAVE j > k - 1
    <3>1. j + 1 \in 1..Len(q) /\ j + 1 > k
      BY <1>1, <2>1
    <3> QED BY <1>1, <2>1, <3>1
  <2> QED BY <2>1, <2>2, <2>3, <2>4 DEF Tells
<1> QED BY <1>3, <1>4 DEF Tells
-----------------------------------------------------------------------------
QueueFits(who, q) ==
  /\ q \in Seq(Pub)
  /\ \A k \in 2..Len(q) : q[k].step = "event"
  /\ who = "reader" => \A k \in 1..Len(q) : q[k].step # "expire"
  /\ who = "timer" =>
       /\ Len(q) <= 1
       /\ \A k \in 1..Len(q) : q[k].type = "ptp" /\ (q[k].step = "expire" => q[k].state = "FREERUN")
OverallFits(t, ov, q) ==
  IF q # <<>> /\ q[1].step = "update" THEN t.sync = q[1].state ELSE t.sync = ov

LEMMA QueueBefore ==
  ASSUME ProxyInv, NEW who \in Who
  PROVE  /\ QueueFits(who, todo[who]) /\ Other(who) \in Who /\ Other(who) # who
         /\ silent # "torn" /\ todo[Other(who)] = <<>> =>
              /\ Claims(told, PtpState(stat), OsState(stat), BothOs(stat), todo[who], silent)
              /\ OverallFits(told, overall, todo[who])
<1>1. QueueFits(who, todo[who])
  BY DEF QueueFits, QueuesFit, ProxyInv, Core, CoreTypes, Who
<1>2. Other(who) \in Who /\ Other(who) # who /\ (\A w \in Who : w = who \/ w = Other(who))
  BY DEF Other, Who
<1>3. ASSUME silent # "torn", todo[Other(who)] = <<>> PROVE OverallFits(told, overall, todo[who])
  BY <1>2, <1>3 DEF OverallFits, ProxyInv, Core, OverallInv, Updating
<1> QED BY <1>1, <1>2, <1>3 DEF ProxyInv, Core, ClaimInv

Publishes(who, r, s, t, ov) ==
  /\ todo' = [todo EXCEPT ![who] = r] /\ silent' = Torn(who)
  /\ stat' = s /\ told' = t /\ overall' = ov
  /\ UNCHANGED <<profile, slaves, source, gmState, phase, settle, settled, timer>>

LEMMA PublishKeeps ==
  ASSUME ProxyInv, NEW who \in Who, todo[who] # <<>>, NEW r, QueueFits(who, r),
         NEW s, IsStat(s), ProfileFits(s), DOMAIN s = DOMAIN stat,
         Known("realtime") => s["realtime"] = stat["realtime"],
         NEW t \in [{"ptp", "os", "sync"} -> Maybe], NEW ov \in Maybe, Publishes(who, r, s, t, ov),
         silent # "torn" /\ todo[Other(who)] = <<>> =>
           /\ Claims(t, PtpState(s), OsState(s), BothOs(s), r, silent)
           /\ OverallFits(t, ov, r)
  PROVE  ProxyInv'
<1>1. /\ todo' = [todo EXCEPT ![who] = r] /\ silent' = Torn(who) /\ stat' = s /\ told' = t /\ overall' = ov
      /\ profile' = profile /\ slaves' = slaves /\ source' = source /\ gmState' = gmState /\ phase' = phase
      /\ settle' = settle /\ settled' = settled /\ timer' = timer
  BY DEF Publishes
<1>2. Other(who) \in Who /\ Other(who) # who /\ (\A w \in Who : w = who \/ w = Other(who))
      /\ Other(Other(who)) = who
  BY DEF Other, Who
<1>3. todo \in [Who -> Seq(Pub)] /\ r \in Seq(Pub)
  BY DEF ProxyInv, Core, CoreTypes, QueueFits
<1>4. todo' \in [Who -> Seq(Pub)] /\ todo'[who] = r /\ todo'[Other(who)] = todo[Other(who)]
  BY <1>1, <1>2, <1>3
<1>5. /\ todo[Other(who)] # <<>> => silent' = "torn"
      /\ todo[Other(who)] = <<>> => silent' = silent
      /\ silent' \in {"no", "yes", "torn"}
  BY <1>1 DEF Torn, ProxyInv, Core, CoreTypes
<1>6. CoreTypes'
  BY <1>1, <1>4, <1>5 DEF ProxyInv, Core, CoreTypes
<1>7. ProfileFits(stat)'
  BY <1>1 DEF ProfileFits
<1>8. QueuesFit'
  <2>1. \A w \in Who : QueueFits(w, todo'[w])
    BY <1>2, <1>4, QueueBefore
  <2>2. QueueFits("reader", todo'.reader) /\ QueueFits("timer", todo'.timer)
    BY <2>1 DEF Who
  <2> QED BY <2>1, <2>2 DEF QueuesFit, QueueFits
<1>9. TimerFits'
  <2>1. todo'.timer # <<>> => todo.timer # <<>>
    BY <1>2, <1>4 DEF Who
  <2> QED BY <1>1, <2>1 DEF TimerFits, ProxyInv, Core, Known
<1>10. OverallInv'
  <2>1. CASE silent' = "torn"
    BY <2>1 DEF OverallInv
  <2>2. CASE silent' # "torn"
    <3>1. OverallFits(t, ov, r) /\ todo'[Other(who)] = <<>>
      BY <1>4, <1>5, <2>2
    <3>2. \A w \in Who : todo'[w] # <<>> /\ todo'[w][1].step = "update" =>
             w = who /\ r # <<>> /\ r[1].step = "update" /\ todo'[w][1].state = r[1].state
      BY <1>2, <1>4, <3>1
    <3>3. CASE r # <<>> /\ r[1].step = "update"
      <4>1. told'.sync = r[1].state
        BY <1>1, <3>1, <3>3 DEF OverallFits
      <4>2. todo'[who] # <<>> /\ todo'[who][1].step = "update"
        BY <1>4, <3>3
      <4> QED BY <3>2, <4>1, <4>2 DEF OverallInv, Updating
    <3>4. CASE ~(r # <<>> /\ r[1].step = "update")
      <4>1. told'.sync = overall'
        BY <1>1, <3>1, <3>4 DEF OverallFits
      <4> QED BY <3>2, <3>4, <4>1 DEF OverallInv, Updating
    <3> QED BY <3>3, <3>4
  <2> QED BY <2>1, <2>2
<1>11. ClaimInv'
  <2>1. CASE silent' = "torn"
    BY <2>1 DEF ClaimInv, Claims
  <2>2. CASE silent' # "torn"
    <3>1. Claims(t, PtpState(s), OsState(s), BothOs(s), r, silent) /\ todo[Other(who)] = <<>> /\ silent' = silent
      BY <1>5, <2>2
    <3>2. Claims(told, PtpState(stat), OsState(stat), BothOs(stat), todo[who], silent)'
      BY <1>1, <1>4, <3>1
    <3>3. todo'[who] = <<>> => todo'[who] = todo'[Other(who)]
      BY <1>4, <3>1
    <3>4. todo'[who] = <<>> => Claims(told, PtpState(stat), OsState(stat), BothOs(stat), todo[Other(who)], silent)'
      BY <3>2, <3>3, <1>4
    <3> QED BY <1>2, <3>2, <3>4 DEF ClaimInv
  <2> QED BY <2>1, <2>2
<1>12. Side'
  BY <1>1 DEF ProxyInv, Side, SideTypes, SourceFits, WindowInv, Known
<1> QED BY <1>6, <1>7, <1>8, <1>9, <1>10, <1>11, <1>12 DEF ProxyInv, Core

ToldHead(t, q, t2) == t2 = [t EXCEPT ![q[1].type] = q[1].state]

(* A head that told its event, or waits to update, says no more.           *)
LEMMA EventTold ==
  ASSUME NEW q \in Seq(Pub), q # <<>>, q[1].step = "event", NEW e, NEW r, HeadAs(q, r, e),
         e.step = "compare", e.state = q[1].state, NEW t \in [{"ptp", "os", "sync"} -> Maybe],
         NEW t2, ToldHead(t, q, t2),
         NEW p, NEW o, NEW both, NEW m, Claims(t, p, o, both, q, m)
  PROVE  Claims(t2, p, o, both, r, m)
<1>1. q[1] \in Pub /\ Len(q) \in Nat /\ Len(q) >= 1
  OBVIOUS
<1>2. t2.sync = t.sync /\ \A type \in {"ptp", "os"} :
         IF Says(q[1], type) THEN t2[type] = q[1].state ELSE t2[type] = t[type]
  BY <1>1 DEF Says, Pub, ToldHead
<1>3. \A type : ~Says(e, type)
  BY DEF Says
<1>4. \A type \in {"ptp", "os"} : \A v : Tells(t, q, type, v) => Tells(t2, r, type, v)
  BY <1>2, <1>3, HeadTells
<1>5. OsClaim(t, o, both, q) => OsClaim(t2, o, both, r)
  BY <1>4 DEF OsClaim
<1>6. PtpClaim(t, p, q) => PtpClaim(t2, p, r)
  BY <1>4 DEF PtpClaim
<1>7. SyncClaim(t, p, o, both, q) => SyncClaim(t2, p, o, both, r)
  <2>1. CASE Len(q) = 1
    BY <2>1, <1>1 DEF SyncClaim, HeadAs
  <2>2. CASE Len(q) # 1
    <3>1. r # <<>> /\ r[Len(r)] = q[Len(q)]
      BY <2>2, <1>1 DEF HeadAs
    <3> QED BY <3>1 DEF SyncClaim
  <2> QED BY <2>1, <2>2
<1> QED BY <1>5, <1>6, <1>7 DEF Claims

LEMMA PublishEventKeeps ==
  ASSUME ProxyInv, NEW who \in Who, PublishEvent(who)
  PROVE  ProxyInv'
<1>1. PICK q : q = todo[who]
  OBVIOUS
<1>2. PICK e : e = [q[1] EXCEPT !.step = "compare"]
  OBVIOUS
<1>3. PICK r : r = <<e>> \o Tail(q)
  OBVIOUS
<1>4. PICK t : t = [told EXCEPT ![q[1].type] = q[1].state]
  OBVIOUS
<1>5. /\ q # <<>> /\ Head(q) = q[1] /\ q[1].step = "event" /\ QueueFits(who, q)
      /\ told \in [{"ptp", "os", "sync"} -> Maybe] /\ todo \in [Who -> Seq(Pub)] /\ q \in Seq(Pub)
  BY <1>1, QueueBefore DEF PublishEvent, Publishing, ProxyInv, Core, CoreTypes, QueueFits
<1>6. q[1] \in Pub /\ Len(q) \in Nat /\ Len(q) >= 1
  BY <1>5
<1>7. e \in Pub /\ e.step = "compare" /\ e.state = q[1].state /\ e.type = q[1].type
  BY <1>2, <1>6 DEF Pub
<1>8. HeadAs(q, r, e)
  BY <1>3, <1>5, <1>7, HeadChanged
<1>9. Publishes(who, r, stat, t, overall)
  <2>1. Then(who, "compare") = [todo EXCEPT ![who] = r]
    BY <1>1, <1>2, <1>3, <1>5 DEF Then
  <2> QED BY <2>1, <1>1, <1>4, <1>5 DEF PublishEvent, Publishing, Publishes
<1>10. t \in [{"ptp", "os", "sync"} -> Maybe] /\ t.sync = told.sync
  BY <1>4, <1>5, <1>6 DEF Pub, Maybe
<1>11. QueueFits(who, r)
  BY <1>5, <1>6, <1>7, <1>8 DEF HeadAs, QueueFits
<1>12. ASSUME silent # "torn", todo[Other(who)] = <<>>
       PROVE  Claims(t, PtpState(stat), OsState(stat), BothOs(stat), r, silent) /\ OverallFits(t, overall, r)
  <2>1. Claims(told, PtpState(stat), OsState(stat), BothOs(stat), q, silent) /\ OverallFits(told, overall, q)
    BY <1>1, <1>12, QueueBefore
  <2>2. Claims(t, PtpState(stat), OsState(stat), BothOs(stat), r, silent)
    <3>1. ToldHead(told, q, t)
      BY <1>4 DEF ToldHead
    <3>2. q \in Seq(Pub) /\ q # <<>> /\ q[1].step = "event" /\ told \in [{"ptp", "os", "sync"} -> Maybe]
      BY <1>5
    <3>3. e.step = "compare" /\ e.state = q[1].state
      BY <1>7
    <3>4. Claims(told, PtpState(stat), OsState(stat), BothOs(stat), q, silent)
      BY <2>1
    <3>5. PICK p, o, both, m : p = PtpState(stat) /\ o = OsState(stat) /\ both = BothOs(stat) /\ m = silent
      OBVIOUS
    <3>6. Claims(told, p, o, both, q, m)
      BY <3>4, <3>5
    <3>7. Claims(t, p, o, both, r, m)
      BY <1>8, <3>1, <3>2, <3>3, <3>6, EventTold
    <3> QED BY <3>5, <3>7
  <2>3. OverallFits(t, overall, r)
    BY <2>1, <1>5, <1>7, <1>8, <1>10 DEF OverallFits, HeadAs
  <2> QED BY <2>2, <2>3
<1>13. IsStat(stat) /\ ProfileFits(stat) /\ overall \in Maybe
  BY DEF ProxyInv, Core, CoreTypes
<1> QED BY <1>1, <1>5, <1>9, <1>10, <1>11, <1>12, <1>13, PublishKeeps

(* The node's state is that of the main clock and the system clock.        *)
LEMMA NodeState ==
  ASSUME ProxyInv, NEW v \in SyncStates
  PROVE  /\ GetNodeSyncState(v) \in SyncStates
         /\ v \in {PtpState(stat), OsState(stat)} =>
               GetNodeSyncState(v) = SyncState(PtpState(stat), OsState(stat))
<1> DEFINE S == {stat[k].state : k \in NodeClocks}
           P == PtpState(stat)
           O == OsState(stat)
           main == GetMainClockName(stat)
<1>1. IsStat(stat) /\ ProfileFits(stat)
  BY DEF ProxyInv, Core, CoreTypes
<1>2. P \in Maybe /\ O \in Maybe
  BY <1>1 DEF PtpState, OsState, StateOf, IsStat, StatRec, Maybe, Has
<1>3. \A k \in NodeClocks : stat[k].state \in {P, O} \ {""}
  <2> TAKE k \in NodeClocks
  <2>1. /\ k \in DOMAIN stat /\ stat[k].state # ""
        /\ k \in {"realtime", "chronyd", main} \/ (k = "master" /\ main # "T-BC")
        /\ ~(k = "realtime" /\ ChronydActiveAsE3)
    BY DEF NodeClocks
  <2>2. CASE k = main
    BY <2>1, <2>2 DEF PtpState, StateOf, Has
  <2>3. CASE k = "chronyd"
    BY <2>1, <2>3 DEF OsState, StateOf, Has
  <2>4. CASE k = "realtime"
    BY <2>1, <2>4 DEF OsState, StateOf, Has, ChronydActiveAsE3, Known
  <2>5. CASE k = "master" /\ main # "T-BC" /\ main # "master"
    <3>1. Has(stat, "GM") /\ Has(stat, "master")
      BY <2>1, <2>5 DEF GetMainClockName, Has
    <3>2. stat["master"].state = ""
      BY <3>1, <1>1, ProfileType DEF ProfileFits, Has
    <3> QED BY <2>1, <2>5, <3>2
  <2> QED BY <2>1, <2>2, <2>3, <2>4, <2>5
<1>4. P # "" => \E k \in NodeClocks : stat[k].state = P
  <2>1. ASSUME P # "" PROVE main \in NodeClocks /\ stat[main].state = P
    <3>1. main \in DOMAIN stat /\ stat[main].state = P
      BY <2>1 DEF PtpState, StateOf, Has
    <3>2. main # "realtime"
      BY DEF GetMainClockName
    <3> QED BY <2>1, <3>1, <3>2 DEF NodeClocks
  <2> QED BY <2>1
<1>5. O # "" => \E k \in NodeClocks : stat[k].state = O
  <2>1. CASE ChronydActiveAsE3
    <3>1. "chronyd" \in DOMAIN stat /\ stat["chronyd"].state = O /\ O # ""
      BY <2>1 DEF ChronydActiveAsE3, Known, OsState, StateOf, Has
    <3>2. "chronyd" \in NodeClocks
      BY <3>1 DEF NodeClocks
    <3> QED BY <3>1, <3>2
  <2>2. CASE ~ChronydActiveAsE3 /\ O # ""
    <3>1. "realtime" \in DOMAIN stat /\ stat["realtime"].state = O
      BY <2>2 DEF ChronydActiveAsE3, Known, OsState, StateOf, Has
    <3>2. "realtime" \in NodeClocks
      BY <2>2, <3>1 DEF NodeClocks
    <3> QED BY <3>1, <3>2
  <2> QED BY <2>1, <2>2
<1>6. \A x : x \in S <=> x \in {P, O} \ {""}
  BY <1>3, <1>4, <1>5
<1>7. GetNodeSyncState(v) = Worst(S, v)
  BY DEF GetNodeSyncState
<1> HIDE DEF S, P, O
<1>8. Worst(S, v) \in SyncStates
  BY DEF Worst, SyncStates
<1>9. ASSUME v \in {P, O} PROVE Worst(S, v) = SyncState(P, O)
  <2>1. v # "" /\ v \in S /\ S = {P, O} \ {""}
    BY <1>6, <1>9 DEF SyncStates
  <2> QED BY <2>1, <1>9 DEF SyncState, Worst, SyncStates
<1> QED BY <1>7, <1>8, <1>9 DEF P, O

(* A head that is done: the rest claims what it claimed.                   *)
Agrees(t, p, o, both, q) ==
  Len(q) = 1 /\ SyncClaim(t, p, o, both, q) => both \/ SyncState(p, o) \in {"", t.sync}

LEMMA HeadDone ==
  ASSUME NEW q \in Seq(Pub), q # <<>>, NEW r, TailAs(q, r), q[1].step # "event", q[1].step # "expire",
         NEW t, NEW p, NEW o, NEW both, NEW m, Claims(t, p, o, both, q, m), Agrees(t, p, o, both, q)
  PROVE  Claims(t, p, o, both, r, m)
<1>1. Len(q) \in Nat /\ Len(q) >= 1 /\ \A type : ~Says(q[1], type)
  BY DEF Says
<1>2. \A type, v : Tells(t, q, type, v) => Tells(t, r, type, v)
  BY <1>1, TailTells
<1>3. OsClaim(t, o, both, q) => OsClaim(t, o, both, r)
  BY <1>2 DEF OsClaim
<1>4. PtpClaim(t, p, q) => PtpClaim(t, p, r)
  BY <1>2 DEF PtpClaim
<1>5. SyncClaim(t, p, o, both, q) => SyncClaim(t, p, o, both, r)
  <2>1. CASE Len(q) = 1
    <3>1. r = <<>>
      BY <2>1 DEF TailAs
    <3> QED BY <2>1, <3>1 DEF Agrees, SyncClaim
  <2>2. CASE Len(q) # 1
    <3>1. r # <<>> /\ Len(r) \in 1..Len(r) /\ r[Len(r)] = q[Len(q)]
      BY <2>2, <1>1 DEF TailAs
    <3> QED BY <3>1 DEF SyncClaim
  <2> QED BY <2>1, <2>2
<1> QED BY <1>3, <1>4, <1>5 DEF Claims

LEMMA HeadUpdates ==
  ASSUME NEW q \in Seq(Pub), q # <<>>, q[1].step = "compare", NEW e, NEW r, HeadAs(q, r, e),
         e.step = "update", NEW t, NEW t2, t2.ptp = t.ptp, t2.os = t.os,
         NEW p, NEW o, NEW both, NEW m, Claims(t, p, o, both, q, m),
         q[1].state \in {p, o} => e.state = SyncState(p, o)
  PROVE  Claims(t2, p, o, both, r, m)
<1>1. Len(q) \in Nat /\ Len(q) >= 1 /\ (\A type : ~Says(q[1], type)) /\ (\A type : ~Says(e, type))
  BY DEF Says
<1>2. \A type \in {"ptp", "os"} : \A v : Tells(t, q, type, v) => Tells(t2, r, type, v)
  BY <1>1, HeadTells
<1>3. OsClaim(t, o, both, q) => OsClaim(t2, o, both, r)
  BY <1>2 DEF OsClaim
<1>4. PtpClaim(t, p, q) => PtpClaim(t2, p, r)
  BY <1>2 DEF PtpClaim
<1>5. SyncClaim(t, p, o, both, q) => SyncClaim(t2, p, o, both, r)
  <2>1. CASE Len(q) = 1
    BY <2>1, <1>1 DEF SyncClaim, HeadAs
  <2>2. CASE Len(q) # 1
    <3>1. r # <<>> /\ r[Len(r)] = q[Len(q)]
      BY <2>2, <1>1 DEF HeadAs
    <3> QED BY <3>1 DEF SyncClaim
  <2> QED BY <2>1, <2>2
<1> QED BY <1>3, <1>4, <1>5 DEF Claims

LEMMA TailFits ==
  ASSUME NEW who \in Who, NEW q, QueueFits(who, q), q # <<>>, NEW r, TailAs(q, r)
  PROVE  QueueFits(who, r) /\ (r # <<>> => r[1].step = "event")
<1>1. \A k \in 1..Len(r) : k + 1 \in 1..Len(q) /\ k + 1 \in 2..Len(q) /\ r[k] = q[k + 1]
  BY DEF TailAs, QueueFits
<1>2. r \in Seq(Pub) /\ Len(r) \in Nat /\ Len(q) \in Nat /\ Len(r) + 1 = Len(q) /\ (r # <<>> => 1 \in 1..Len(r))
  BY DEF TailAs, QueueFits
<1>3. \A k \in 1..Len(r) : r[k].step = "event"
  BY <1>1 DEF QueueFits
<1> QED BY <1>1, <1>2, <1>3 DEF QueueFits

LEMMA UpdateKeeps ==
  ASSUME ProxyInv, NEW who \in Who, UpdateSyncState(who)
  PROVE  ProxyInv'
<1>1. PICK q : q = todo[who]
  OBVIOUS
<1>2. PICK r : r = Tail(q)
  OBVIOUS
<1>3. /\ q # <<>> /\ q[1].step = "update" /\ QueueFits(who, q)
      /\ told \in [{"ptp", "os", "sync"} -> Maybe] /\ q \in Seq(Pub)
      /\ overall' = q[1].state /\ todo' = [todo EXCEPT ![who] = r]
  BY <1>1, <1>2, QueueBefore
  DEF UpdateSyncState, Publishing, Done, ProxyInv, Core, CoreTypes, QueueFits
<1>4. TailAs(q, r)
  BY <1>2, <1>3, TailTaken
<1>5. q[1] \in Pub /\ Len(q) \in Nat /\ Len(q) >= 1
  BY <1>3
<1>6. PICK ov : ov = q[1].state
  OBVIOUS
<1>7. ov \in Maybe
  BY <1>5, <1>6 DEF Pub, Maybe
<1>8. Publishes(who, r, stat, told, ov)
  BY <1>3, <1>6 DEF UpdateSyncState, Publishing, Publishes
<1>9. QueueFits(who, r) /\ (r # <<>> => r[1].step = "event")
  BY <1>3, <1>4, TailFits
<1>10. ASSUME silent # "torn", todo[Other(who)] = <<>>
       PROVE  /\ Claims(told, PtpState(stat), OsState(stat), BothOs(stat), r, silent)
              /\ OverallFits(told, ov, r)
  <2>1. PICK p, o, both, m : p = PtpState(stat) /\ o = OsState(stat) /\ both = BothOs(stat) /\ m = silent
    OBVIOUS
  <2>2. Claims(told, p, o, both, q, m) /\ OverallFits(told, overall, q)
    BY <1>1, <1>10, <2>1, QueueBefore
  <2>3. told.sync = q[1].state
    BY <1>3, <2>2 DEF OverallFits
  <2>4. Agrees(told, p, o, both, q)
    BY <1>3, <2>3 DEF Agrees, SyncClaim
  <2>5. Claims(told, p, o, both, r, m)
    <3>1. q[1].step # "event" /\ q[1].step # "expire"
      BY <1>3
    <3> QED BY <1>3, <1>4, <2>2, <2>4, <3>1, HeadDone
  <2>6. OverallFits(told, ov, r)
    BY <1>6, <1>9, <2>3 DEF OverallFits
  <2> QED BY <2>1, <2>5, <2>6
<1>11. IsStat(stat) /\ ProfileFits(stat)
  BY DEF ProxyInv, Core, CoreTypes
<1> QED BY <1>1, <1>3, <1>7, <1>8, <1>9, <1>10, <1>11, PublishKeeps

LEMMA CompareKeeps ==
  ASSUME ProxyInv, NEW who \in Who, CompareOverall(who)
  PROVE  ProxyInv'
<1>1. PICK q : q = todo[who]
  OBVIOUS
<1>2. /\ q # <<>> /\ Head(q) = q[1] /\ q[1].step = "compare" /\ QueueFits(who, q)
      /\ told \in [{"ptp", "os", "sync"} -> Maybe] /\ q \in Seq(Pub)
  BY <1>1, QueueBefore DEF CompareOverall, Publishing, ProxyInv, Core, CoreTypes, QueueFits
<1>3. q[1] \in Pub /\ Len(q) \in Nat /\ Len(q) >= 1
  BY <1>2
<1>4. PICK node : node = GetNodeSyncState(q[1].state)
  OBVIOUS
<1>5. node \in SyncStates /\ (q[1].state \in {PtpState(stat), OsState(stat)} =>
         node = SyncState(PtpState(stat), OsState(stat)))
  BY <1>3, <1>4, NodeState DEF Pub
<1>6. IsStat(stat) /\ ProfileFits(stat) /\ overall \in Maybe
  BY DEF ProxyInv, Core, CoreTypes
<1>7. PICK p, o, both, m : p = PtpState(stat) /\ o = OsState(stat) /\ both = BothOs(stat) /\ m = silent
  OBVIOUS
<1>8. silent # "torn" /\ todo[Other(who)] = <<>> =>
         /\ Claims(told, p, o, both, q, m) /\ told.sync = overall
  BY <1>1, <1>2, <1>7, QueueBefore DEF OverallFits
<1>9. CASE node = overall
  <2>1. PICK r : r = Tail(q)
    OBVIOUS
  <2>2. TailAs(q, r)
    BY <1>2, <2>1, TailTaken
  <2>3. QueueFits(who, r) /\ (r # <<>> => r[1].step = "event")
    BY <1>2, <2>2, TailFits
  <2>4. Publishes(who, r, stat, told, overall)
    BY <1>1, <1>2, <1>4, <1>9, <2>1 DEF CompareOverall, Publishing, Publishes, Done
  <2>5. ASSUME silent # "torn", todo[Other(who)] = <<>>
        PROVE  /\ Claims(told, PtpState(stat), OsState(stat), BothOs(stat), r, silent)
               /\ OverallFits(told, overall, r)
    <3>1. Agrees(told, p, o, both, q)
      BY <1>2, <1>5, <1>7, <1>8, <1>9, <2>5 DEF Agrees, SyncClaim
    <3>2. q[1].step # "event" /\ q[1].step # "expire"
      BY <1>2
    <3>3. Claims(told, p, o, both, r, m)
      BY <1>2, <1>8, <2>2, <2>5, <3>1, <3>2, HeadDone
    <3>4. OverallFits(told, overall, r)
      BY <1>8, <2>3, <2>5 DEF OverallFits
    <3> QED BY <1>7, <3>3, <3>4
  <2> QED BY <1>1, <1>2, <1>6, <2>3, <2>4, <2>5, PublishKeeps
<1>10. CASE node # overall
  <2>1. PICK e : e = [q[1] EXCEPT !.step = "update", !.state = node]
    OBVIOUS
  <2>2. PICK r : r = <<e>> \o Tail(q)
    OBVIOUS
  <2>3. PICK t : t = [told EXCEPT !.sync = node]
    OBVIOUS
  <2>4. e \in Pub /\ e.step = "update" /\ e.state = node /\ e.type = q[1].type
    BY <1>3, <1>5, <2>1 DEF Pub
  <2>5. HeadAs(q, r, e)
    BY <1>2, <2>2, <2>4, HeadChanged
  <2>6. t \in [{"ptp", "os", "sync"} -> Maybe] /\ t.sync = node /\ t.ptp = told.ptp /\ t.os = told.os
    BY <1>2, <1>5, <2>3 DEF Maybe
  <2>7. Publishes(who, r, stat, t, overall)
    <3>1. /\ told' = t /\ UNCHANGED <<stat, overall>> /\ Publishing(who, "compare")
          /\ todo' = [todo EXCEPT ![who] = <<[Head(@) EXCEPT !.step = "update", !.state = node]>> \o Tail(@)]
      BY <1>1, <1>2, <1>4, <1>10, <2>3 DEF CompareOverall
    <3>2. todo' = [todo EXCEPT ![who] = r]
      BY <1>1, <1>2, <2>1, <2>2, <3>1
    <3> QED BY <3>1, <3>2 DEF Publishing, Publishes
  <2>8. QueueFits(who, r)
    BY <1>2, <1>3, <2>4, <2>5 DEF HeadAs, QueueFits
  <2>9. ASSUME silent # "torn", todo[Other(who)] = <<>>
        PROVE  /\ Claims(t, PtpState(stat), OsState(stat), BothOs(stat), r, silent)
               /\ OverallFits(t, overall, r)
    <3>1. q[1].state \in {p, o} => e.state = SyncState(p, o)
      BY <1>5, <1>7, <2>4
    <3>2. Claims(t, p, o, both, r, m)
      BY <1>2, <1>8, <2>4, <2>5, <2>6, <2>9, <3>1, HeadUpdates
    <3>3. OverallFits(t, overall, r)
      BY <2>4, <2>5, <2>6 DEF OverallFits, HeadAs
    <3> QED BY <1>7, <3>2, <3>3
  <2> QED BY <1>1, <1>2, <1>6, <2>6, <2>7, <2>8, <2>9, PublishKeeps
<1> QED BY <1>9, <1>10

(* The timer sets the main clock to FREERUN and tells it.                  *)
LEMMA FreerunWaits ==
  ASSUME NEW q \in Seq(Pub), Len(q) = 1, q[1].step = "expire", NEW e, NEW r, HeadAs(q, r, e),
         e.step = "event", e.type = "ptp", e.state = "FREERUN",
         NEW t, NEW p, NEW o, NEW both, NEW m, Claims(t, p, o, both, q, m)
  PROVE  Claims(t, "FREERUN", o, both, r, m)
<1>1. Len(r) = 1 /\ r # <<>> /\ r[1] = e /\ q # <<>>
  BY DEF HeadAs
<1>2. ~Says(q[1], "os") /\ ~Says(e, "os") /\ Says(e, "ptp")
  BY DEF Says
<1>3. ASSUME Tells(t, q, "os", o) PROVE Tells(t, r, "os", o)
  <2>1. (\A k \in 1..Len(q) : k = 1) /\ (\A k \in 1..Len(r) : k = 1)
    BY <1>1
  <2>2. (\A k \in 1..Len(q) : ~Says(q[k], "os")) /\ (\A k \in 1..Len(r) : ~Says(r[k], "os"))
    BY <1>1, <1>2, <2>1
  <2> QED BY <1>3, <2>2 DEF Tells
<1>4. PtpClaim(t, "FREERUN", r)
  BY <1>1, <1>2 DEF PtpClaim, Tells
<1>5. SyncClaim(t, "FREERUN", o, both, r)
  BY <1>1 DEF SyncClaim
<1> QED BY <1>3, <1>4, <1>5 DEF Claims, OsClaim

LEMMA ExpireKeeps ==
  ASSUME ProxyInv, Expire
  PROVE  ProxyInv'
<1>1. PICK q : q = todo["timer"]
  OBVIOUS
<1>2. PICK who \in Who : who = "timer"
  BY DEF Who
<1>3. /\ q # <<>> /\ Head(q) = q[1] /\ q[1].step = "expire" /\ QueueFits(who, q) /\ q \in Seq(Pub)
      /\ Len(q) = 1 /\ q[1].type = "ptp" /\ q[1].state = "FREERUN" /\ q[1] \in Pub
  <2>1. q # <<>> /\ Head(q).step = "expire" /\ QueueFits(who, q)
    BY <1>1, <1>2, QueueBefore DEF Expire, Publishing
  <2>2. q \in Seq(Pub) /\ Len(q) <= 1
    BY <2>1, <1>2 DEF QueueFits
  <2>3. Len(q) = 1 /\ Head(q) = q[1] /\ q[1] \in Pub
    <3>1. Len(q) \in Nat /\ Len(q) # 0
      BY <2>1, <2>2
    <3>2. Len(q) = 1
      <4>1. PICK n : n = Len(q)
        OBVIOUS
      <4>2. n \in Nat /\ n # 0 /\ n <= 1
        BY <4>1, <3>1, <2>2
      <4>3. n = 1
        BY <4>2
      <4> QED BY <4>1, <4>3
    <3> QED BY <3>2, <2>2
  <2> QED BY <1>2, <2>1, <2>2, <2>3 DEF QueueFits
<1>4. PICK e : e = [q[1] EXCEPT !.step = "event"]
  OBVIOUS
<1>5. PICK r : r = <<e>> \o Tail(q)
  OBVIOUS
<1>6. PICK s : s = [stat EXCEPT !["master"].state = "FREERUN"]
  OBVIOUS
<1>7. e \in Pub /\ e.step = "event" /\ e.state = "FREERUN" /\ e.type = "ptp"
  BY <1>3, <1>4 DEF Pub
<1>8. HeadAs(q, r, e)
  BY <1>3, <1>5, <1>7, HeadChanged
<1>9. IsStat(stat) /\ ProfileFits(stat) /\ profile.type = "OC" /\ "master" \in DOMAIN stat
      /\ told \in [{"ptp", "os", "sync"} -> Maybe] /\ overall \in Maybe
  BY <1>1, <1>3 DEF ProxyInv, Core, CoreTypes, TimerFits, Known
<1>10. StateSet(stat, "master", "FREERUN", s)
  BY <1>6, <1>9, SetsState DEF Maybe, SyncStates
<1>11. /\ GetMainClockName(stat) = "master" /\ GetMainClockName(s) = "master"
       /\ IsStat(s) /\ DOMAIN s = DOMAIN stat /\ s["master"].state = "FREERUN"
       /\ \A k \in DOMAIN stat : k # "master" => s[k] = stat[k]
  BY <1>9, <1>10 DEF StateSet, ProfileFits, GetMainClockName, Has
<1>12. ProfileFits(s)
  BY <1>9, <1>11 DEF ProfileFits
<1>13. PtpState(s) = "FREERUN" /\ OsState(s) = OsState(stat) /\ BothOs(s) = BothOs(stat)
  BY <1>9, <1>11 DEF PtpState, OsState, BothOs, StateOf, Has
<1>14. Publishes(who, r, s, told, overall)
  <2>1. Then("timer", "event") = [todo EXCEPT ![who] = r]
    BY <1>1, <1>2, <1>3, <1>4, <1>5 DEF Then
  <2> QED BY <2>1, <1>2, <1>6 DEF Expire, Publishing, Publishes
<1>15. QueueFits(who, r)
  BY <1>2, <1>3, <1>7, <1>8 DEF HeadAs, QueueFits
<1>16. ASSUME silent # "torn", todo[Other(who)] = <<>>
       PROVE  Claims(told, PtpState(s), OsState(s), BothOs(s), r, silent) /\ OverallFits(told, overall, r)
  <2>1. PICK t, p, o, both, m : t = told /\ p = PtpState(stat) /\ o = OsState(stat) /\ both = BothOs(stat) /\ m = silent
    OBVIOUS
  <2>2. Claims(t, p, o, both, q, m) /\ OverallFits(told, overall, q)
    BY <1>1, <1>2, <1>16, <2>1, QueueBefore
  <2>3. Claims(t, "FREERUN", o, both, r, m)
    BY <1>3, <1>7, <1>8, <2>2, FreerunWaits
  <2>4. OverallFits(told, overall, r)
    BY <1>3, <1>7, <1>8, <2>2 DEF OverallFits, HeadAs
  <2> QED BY <1>13, <2>1, <2>3, <2>4
<1>17. Known("realtime") => s["realtime"] = stat["realtime"]
  BY <1>11 DEF Known
<1>18. todo[who] # <<>>
  BY <1>1, <1>2, <1>3
<1> QED BY <1>9, <1>11, <1>12, <1>14, <1>15, <1>16, <1>17, <1>18, PublishKeeps

LEMMA SettleKeeps ==
  ASSUME ProxyInv, SettleFires
  PROVE  ProxyInv'
<1>1. /\ settle' \in BOOLEAN /\ settled' \in BOOLEAN
      /\ UNCHANGED <<profile, stat, slaves, source, gmState, overall, phase, timer, todo, told, silent>>
  BY DEF SettleFires
<1>2. Core'
  BY <1>1 DEF ProxyInv, Core, CoreTypes, ProfileFits, QueuesFit, TimerFits, Known, OverallInv, Updating, ClaimInv
<1>3. Side'
  BY <1>1 DEF ProxyInv, Side, SideTypes, SourceFits, WindowInv, Known
<1> QED BY <1>2, <1>3 DEF ProxyInv

(* The timer that fires has nothing to say, or the FREERUN it will set.    *)
LEMMA HoldOverKeeps ==
  ASSUME ProxyInv, handleHoldOverState
  PROVE  ProxyInv'
<1>1. PICK r : r = IF Known("master") /\ stat["master"].state = "HOLDOVER" /\ stat["master"].alias
                   THEN <<[step |-> "expire", type |-> "ptp", state |-> "FREERUN"]>> ELSE <<>>
  OBVIOUS
<1>2. /\ timer /\ todo.timer = <<>> /\ timer' = FALSE /\ todo' = [todo EXCEPT !.timer = r]
      /\ UNCHANGED <<profile, stat, slaves, source, gmState, overall, phase, settle, settled, told, silent>>
  BY <1>1 DEF handleHoldOverState
<1>3. r \in Seq(Pub) /\ (r = <<>> \/ (Len(r) = 1 /\ r # <<>> /\ r[1].step = "expire" /\ r[1].type = "ptp" /\ r[1].state = "FREERUN"))
  <2>1. PICK e : e = [step |-> "expire", type |-> "ptp", state |-> "FREERUN"]
    OBVIOUS
  <2>2. e \in Pub /\ e.step = "expire" /\ e.type = "ptp" /\ e.state = "FREERUN"
    BY <2>1 DEF Pub, SyncStates
  <2>3. <<e>> \in Seq(Pub) /\ Len(<<e>>) = 1 /\ <<e>>[1] = e /\ <<e>> # <<>>
    BY <2>2
  <2>4. r = <<e>> \/ r = <<>>
    BY <1>1, <2>1
  <2>5. CASE r = <<e>>
    BY <2>2, <2>3, <2>5
  <2>6. CASE r = <<>>
    BY <2>6
  <2> QED BY <2>4, <2>5, <2>6
<1>4. todo \in [Who -> Seq(Pub)]
  BY DEF ProxyInv, Core, CoreTypes
<1>5. todo' \in [Who -> Seq(Pub)] /\ todo'.timer = r /\ todo'.reader = todo.reader
  BY <1>2, <1>3, <1>4 DEF Who
<1>6. CoreTypes' /\ ProfileFits(stat)'
  BY <1>2, <1>5 DEF ProxyInv, Core, CoreTypes, ProfileFits
<1>7. QueuesFit'
  <2>1. /\ \A k \in 2..Len(r) : r[k].step = "event"
        /\ Len(r) <= 1
        /\ \A k \in 1..Len(r) : r[k].type = "ptp" /\ (r[k].step = "expire" => r[k].state = "FREERUN")
    <3>1. CASE r = <<>>
      BY <3>1
    <3>2. CASE r # <<>>
      <4>1. Len(r) = 1 /\ r[1].type = "ptp" /\ r[1].state = "FREERUN"
        BY <1>3, <3>2
      <4>2. (\A k \in 1..Len(r) : k = 1) /\ (\A k \in 2..Len(r) : FALSE)
        BY <4>1
      <4> QED BY <4>1, <4>2
    <3> QED BY <3>1, <3>2
  <2> QED BY <2>1, <1>5 DEF QueuesFit, ProxyInv, Core, Who
<1>8. TimerFits'
  BY <1>2 DEF TimerFits, ProxyInv, Core, Known
<1>9. OverallInv'
  BY <1>2, <1>3, <1>5 DEF OverallInv, Updating, ProxyInv, Core, Who
<1>10. ClaimInv'
  <2>1. todo'.timer = <<>> => Claims(told, PtpState(stat), OsState(stat), BothOs(stat), todo.reader, silent)'
    BY <1>2, <1>5 DEF ProxyInv, Core, ClaimInv, Other, Who
  <2>2. todo'.reader = <<>> => Claims(told, PtpState(stat), OsState(stat), BothOs(stat), todo.timer, silent)'
    <3>1. ASSUME todo.reader = <<>> PROVE Claims(told, PtpState(stat), OsState(stat), BothOs(stat), r, silent)
      <4>1. Claims(told, PtpState(stat), OsState(stat), BothOs(stat), <<>>, silent)
        BY <3>1, <1>2 DEF ProxyInv, Core, ClaimInv, Other, Who
      <4>2. CASE r = <<>>
        BY <4>1, <4>2
      <4>3. CASE r # <<>>
        <5>1. PICK p, o, both : p = PtpState(stat) /\ o = OsState(stat) /\ both = BothOs(stat)
          OBVIOUS
        <5>2. ASSUME OsClaim(told, o, both, <<>>) PROVE OsClaim(told, o, both, r)
          <6>1. Len(r) = 1 /\ r[1].step = "expire"
            BY <1>3, <4>3
          <6>2. \A k \in 1..Len(r) : k = 1
            BY <6>1
          <6>3. \A k \in 1..Len(r) : ~Says(r[k], "os")
            BY <6>1, <6>2 DEF Says
          <6>4. \A k \in 1..Len(<<>>) : FALSE
            OBVIOUS
          <6>5. o = "" \/ both \/ told["os"] = o
            BY <5>2, <6>4 DEF OsClaim, Tells
          <6> QED BY <6>3, <6>5 DEF OsClaim, Tells
        <5>3. PtpClaim(told, p, r) /\ SyncClaim(told, p, o, both, r)
          BY <1>3, <4>3 DEF PtpClaim, SyncClaim
        <5> QED BY <4>1, <5>1, <5>2, <5>3 DEF Claims
      <4> QED BY <4>2, <4>3
    <3> QED BY <3>1, <1>2, <1>5
  <2> QED BY <2>1, <2>2 DEF ClaimInv, Who, Other
<1>11. Side'
  BY <1>2 DEF ProxyInv, Side, SideTypes, SourceFits, WindowInv, Known
<1> QED BY <1>6, <1>7, <1>8, <1>9, <1>10, <1>11 DEF ProxyInv, Core

(* Without a record nothing is claimed.                                    *)
LEMMA NoRecords ==
  ASSUME NEW s, s = << >>
  PROVE  /\ IsStat(s) /\ DOMAIN s = {} /\ PtpState(s) = "" /\ OsState(s) = ""
         /\ (profile.type \in {"OC", "T-BC", "T-GM"} => ProfileFits(s))
         /\ \A t : t.sync \in Maybe => Claims(t, "", "", BothOs(s), <<>>, "no") /\ Claims(t, "", "", BothOs(s), <<>>, "torn")
<1>1. DOMAIN s = {} /\ s \in [DOMAIN s -> StatRec]
  <2>1. DOMAIN s = {}
    OBVIOUS
  <2>2. s = [k \in DOMAIN s |-> s[k]]
    OBVIOUS
  <2>3. \A k \in DOMAIN s : s[k] \in StatRec
    BY <2>1
  <2> QED BY <2>1, <2>2, <2>3
<1>2. \A k : ~Has(s, k)
  BY <1>1 DEF Has
<1>3. IsStat(s)
  BY <1>1, <1>2 DEF IsStat
<1>4. PtpState(s) = "" /\ OsState(s) = ""
  BY <1>2 DEF PtpState, OsState, StateOf
<1>5. profile.type \in {"OC", "T-BC", "T-GM"} => ProfileFits(s)
  BY <1>1, <1>2 DEF ProfileFits
<1>6. SyncState("", "") = ""
  BY DEF SyncState
<1>7. \A t, both : Claims(t, "", "", both, <<>>, "no") /\ Claims(t, "", "", both, <<>>, "torn")
  BY <1>6 DEF Claims, OsClaim, PtpClaim, SyncClaim
<1> QED BY <1>1, <1>3, <1>4, <1>5, <1>7

LEMMA NoPubs ==
  ASSUME NEW x, x = [reader |-> <<>>, timer |-> <<>>]
  PROVE  /\ x.reader = <<>> /\ x.timer = <<>> /\ x \in [Who -> Seq(Pub)] /\ \A w \in Who : x[w] = <<>>
         /\ Len(<<>>) = 0 /\ (\A k \in 1..Len(<<>>) : FALSE) /\ (\A k \in 2..Len(<<>>) : FALSE)
<1>1. DOMAIN x = Who /\ x = [k \in DOMAIN x |-> x[k]]
  BY DEF Who
<1>2. x.reader = <<>> /\ x.timer = <<>> /\ \A w \in Who : x[w] = <<>>
  BY DEF Who
<1>3. <<>> \in Seq(Pub)
  OBVIOUS
<1>4. x \in [Who -> Seq(Pub)]
  <2>1. \A w \in Who : x[w] \in Seq(Pub)
    BY <1>2, <1>3
  <2> QED BY <1>1, <2>1
<1>5. Len(<<>>) = 0
  OBVIOUS
<1> QED BY <1>2, <1>4, <1>5

LEMMA ZeroFits == \A n \in Nat : n = 0 => n <= 1
OBVIOUS

LEMMA NothingTold ==
  ASSUME NEW x, x = [ptp |-> "", os |-> "", sync |-> ""]
  PROVE  x.sync = "" /\ x \in [{"ptp", "os", "sync"} -> Maybe]
<1>1. DOMAIN x = {"ptp", "os", "sync"} /\ x = [k \in DOMAIN x |-> x[k]]
  OBVIOUS
<1>2. x["ptp"] = "" /\ x["os"] = "" /\ x["sync"] = ""
  OBVIOUS
<1>3. \A k \in {"ptp", "os", "sync"} : x[k] \in Maybe
  BY <1>2 DEF Maybe
<1> QED BY <1>1, <1>2, <1>3

Fresh ==
  /\ profile \in ProxyProfiles /\ overall \in Maybe /\ told \in [{"ptp", "os", "sync"} -> Maybe]
  /\ stat = << >> /\ slaves = FirstSlaves /\ source = "" /\ gmState = "" /\ phase = "idle"
  /\ settle = FALSE /\ settled = FALSE /\ timer = FALSE /\ todo = [reader |-> <<>>, timer |-> <<>>]
  /\ silent \in {"no", "torn"} /\ (silent = "no" => told.sync = overall)

LEMMA FreshFits == Fresh => ProxyInv
<1> SUFFICES ASSUME Fresh PROVE ProxyInv
  OBVIOUS
<1> USE DEF Fresh
<1>1. todo.reader = <<>> /\ todo.timer = <<>> /\ todo \in [Who -> Seq(Pub)] /\ (\A w \in Who : todo[w] = <<>>)
  BY NoPubs
<1>2. profile.type \in {"OC", "T-BC", "T-GM"}
  BY ProxyAssumption
<1>3. /\ IsStat(stat) /\ DOMAIN stat = {} /\ PtpState(stat) = "" /\ OsState(stat) = "" /\ ProfileFits(stat)
      /\ \A t : t.sync \in Maybe => /\ Claims(t, "", "", BothOs(stat), <<>>, "no")
                                    /\ Claims(t, "", "", BothOs(stat), <<>>, "torn")
  BY <1>2, NoRecords
<1>4. CoreTypes
  BY <1>1, <1>3 DEF CoreTypes
<1>5. QueuesFit /\ TimerFits
  <2>1. Len(<<>>) = 0 /\ (\A k \in 1..Len(<<>>) : FALSE) /\ (\A k \in 2..Len(<<>>) : FALSE)
    BY NoPubs
  <2>2. /\ \A w \in Who : Len(todo[w]) = 0
        /\ \A w \in Who : (\A k \in 1..Len(todo[w]) : FALSE) /\ (\A k \in 2..Len(todo[w]) : FALSE)
    BY <1>1, <2>1
  <2>3. /\ Len(todo.timer) = 0 /\ (\A k \in 1..Len(todo.timer) : FALSE)
        /\ (\A k \in 1..Len(todo.reader) : FALSE)
    BY <1>1, <2>1
  <2>4. Len(todo.timer) <= 1
    BY <2>3, ZeroFits
  <2>5. QueuesFit
    BY <2>2, <2>3, <2>4 DEF QueuesFit
  <2> QED BY <1>1, <2>5 DEF TimerFits
<1>6. OverallInv
  BY <1>1 DEF OverallInv, Updating
<1>7. ClaimInv
  <2>1. told.sync \in Maybe
    OBVIOUS
  <2>2. Claims(told, "", "", BothOs(stat), <<>>, silent)
    BY <2>1, <1>3
  <2> QED BY <1>1, <1>3, <2>2 DEF ClaimInv
<1>8. Side
  BY DEF Side, SideTypes, SourceFits, WindowInv, FirstSlaves, Sources, Maybe
<1> QED BY <1>3, <1>4, <1>5, <1>6, <1>7, <1>8 DEF ProxyInv, Core

LEMMA InitFits == ProxyInit => ProxyInv
<1> SUFFICES ASSUME ProxyInit PROVE ProxyInv
  OBVIOUS
<1>1. told \in [{"ptp", "os", "sync"} -> Maybe] /\ told.sync = "" /\ overall \in Maybe
  BY NothingTold DEF ProxyInit, Maybe
<1>2. Fresh
  BY <1>1 DEF ProxyInit, Fresh
<1> QED BY <1>2, FreshFits

LEMMA RestartKeeps ==
  ASSUME ProxyInv, restartProcess
  PROVE  ProxyInv'
<1>1. /\ profile' \in ProxyProfiles /\ overall' \in Maybe /\ told' \in [{"ptp", "os", "sync"} -> Maybe]
      /\ stat' = << >> /\ slaves' = FirstSlaves' /\ source' = "" /\ gmState' = "" /\ phase' = "idle"
      /\ settle' = FALSE /\ settled' = FALSE /\ timer' = FALSE
      /\ todo' = [reader |-> <<>>, timer |-> <<>>] /\ silent' \in {"no", "torn"}
  BY DEF restartProcess, ProxyInv, Core, CoreTypes, FirstSlaves
<1>2. silent' = "no" => told'.sync = overall'
  <2>1. ASSUME silent' = "no" PROVE told.sync = overall
    <3>1. silent # "torn" /\ ~InUpdate
      BY <2>1 DEF restartProcess
    <3>2. \A w \in Who : todo[w] # <<>> => Head(todo[w]) = todo[w][1]
      BY DEF ProxyInv, Core, CoreTypes
    <3>3. \A w \in Who : ~Updating(w)
      BY <3>1, <3>2 DEF InUpdate, Updating, Who
    <3> QED BY <3>1, <3>3 DEF ProxyInv, Core, OverallInv
  <2> QED BY <2>1 DEF restartProcess
<1>3. Fresh'
  BY <1>1, <1>2 DEF Fresh
<1> QED BY <1>3, FreshFits, PTL

LEMMA LinesKeep ==
  ASSUME ProxyInv, LineStep
  PROVE  ProxyInv'
<1>1. ASSUME NEW clock \in {"FREERUN", "LOCKED"}, NEW in \in BOOLEAN, MasterOffset(clock, in) PROVE ProxyInv'
  BY <1>1, MasterOffsetKeeps DEF SyncStates
<1>2. ASSUME NEW clock \in {"FREERUN", "LOCKED"}, NEW in \in BOOLEAN, RealtimeOffset(clock, in) PROVE ProxyInv'
  BY <1>2, RealtimeOffsetKeeps DEF SyncStates
<1>3. ASSUME NEW clock \in SyncStates, NEW in \in BOOLEAN, NicOffset(clock, in) PROVE ProxyInv'
  BY <1>3, NicOffsetKeeps
<1>4. ASSUME NEW clock \in SyncStates, ParseGMLogs(clock) PROVE ProxyInv'
  BY <1>4, ParseGMLogsKeeps
<1>5. ASSUME NEW clock \in SyncStates, ParseTBCLogs(clock) PROVE ProxyInv'
  BY <1>5, ParseTBCLogsKeeps
<1>6. ASSUME NEW p \in ProxyPorts, NEW l \in PortLines, ParsePTP4l(p, l[1], l[2]) PROVE ProxyInv'
  BY <1>6, ParsePTP4lKeeps DEF PortLines
<1>7. ASSUME NEW proc \in {"ptp4l", "phc2sys", "ts2phc"}, processDownEvent(proc) PROVE ProxyInv'
  BY <1>7, DownKeeps
<1>8. ASSUME NEW clock \in {"FREERUN", "LOCKED"}, ChronydLine(clock) PROVE ProxyInv'
  BY <1>8, ChronydKeeps DEF SyncStates
<1>9. ASSUME Begin \/ Abort \/ ReArmSettle \/ SourceClockSelected \/ SinkClockSelected PROVE ProxyInv'
  BY <1>9, SelectionKeeps
<1>10. ASSUME FinaliseLine PROVE ProxyInv'
  BY <1>10, FinaliseLineKeeps
<1> QED BY <1>1, <1>2, <1>3, <1>4, <1>5, <1>6, <1>7, <1>8, <1>9, <1>10 DEF LineStep

LEMMA StutterKeeps ==
  ASSUME ProxyInv, UNCHANGED proxyVars
  PROVE  ProxyInv'
<1>1. UNCHANGED <<profile, stat, slaves, source, gmState, overall, phase, settle, settled, timer, todo, told, silent>>
  BY DEF proxyVars
<1>2. Core'
  BY <1>1 DEF ProxyInv, Core, CoreTypes, ProfileFits, QueuesFit, TimerFits, Known, OverallInv, Updating, ClaimInv
<1>3. Side'
  BY <1>1 DEF ProxyInv, Side, SideTypes, SourceFits, WindowInv, Known
<1> QED BY <1>2, <1>3 DEF ProxyInv

LEMMA ProxyNextKeeps ==
  ProxyInv /\ [ProxyNext]_proxyVars => ProxyInv'
<1> SUFFICES ASSUME ProxyInv, [ProxyNext]_proxyVars PROVE ProxyInv'
  OBVIOUS
<1>1. CASE LineStep
  BY <1>1, LinesKeep
<1>2. CASE SettleFires
  BY <1>2, SettleKeeps
<1>3. CASE FinaliseIfGeneration
  BY <1>3, FinaliseIfKeeps
<1>4. CASE handleHoldOverState
  BY <1>4, HoldOverKeeps
<1>5. CASE restartProcess
  BY <1>5, RestartKeeps
<1>6. ASSUME NEW who \in Who, PublishStep(who) PROVE ProxyInv'
  <2>1. CASE who = "timer" /\ Expire
    BY <2>1, ExpireKeeps
  <2>2. CASE PublishEvent(who)
    BY <2>2, PublishEventKeeps
  <2>3. CASE CompareOverall(who)
    BY <2>3, CompareKeeps
  <2>4. CASE UpdateSyncState(who)
    BY <2>4, UpdateKeeps
  <2> QED BY <1>6, <2>1, <2>2, <2>3, <2>4 DEF PublishStep
<1>7. CASE UNCHANGED proxyVars
  BY <1>7, StutterKeeps
<1> QED BY <1>1, <1>2, <1>3, <1>4, <1>5, <1>6, <1>7 DEF ProxyNext, Who

LEMMA ProxyInvHolds == ProxySpec => []ProxyInv
BY InitFits, ProxyNextKeeps, PTL DEF ProxySpec

(* Whatever the order of the settle callbacks, the selection lines of      *)
(* phc2sys and the lines that say a process is down, the window never says *)
(* "undisciplined" over a system clock that the plugin does not hold to be *)
(* in FREERUN (os_clock_discipline.go, metrics.go), unless chronyd owns it.*)
THEOREM UndisciplinedFreerun == ProxySpec => []UndisciplinedIsFreerun
<1>1. ProxyInv => UndisciplinedIsFreerun
  BY DEF ProxyInv, Side, WindowInv, UndisciplinedIsFreerun
<1> QED BY <1>1, ProxyInvHolds, PTL

(* What a pull answers is what the last publications told, with both       *)
(* queues empty and no change of the main clock left unpublished.          *)
LEMMA AnswersAgree == ProxyInv => PullAgreesWithPush
<1> SUFFICES ASSUME ProxyInv, todo.reader = <<>>, todo.timer = <<>>, silent = "no",
                    NEW type \in {"ptp", "os", "sync"}
             PROVE  \/ CurrentState(type) \in {"", told[type]}
                    \/ type # "ptp" /\ ChronydActiveAsE3 /\ Known("realtime")
  BY DEF PullAgreesWithPush
<1>1. PICK p, o, both : p = PtpState(stat) /\ o = OsState(stat) /\ both = BothOs(stat)
  OBVIOUS
<1>2. PtpClaim(told, p, <<>>) /\ OsClaim(told, o, both, <<>>) /\ SyncClaim(told, p, o, both, <<>>)
  BY <1>1 DEF ProxyInv, Core, ClaimInv, Claims, Who, Other
<1>3. (p = "" \/ told["ptp"] = p) /\ (o = "" \/ both \/ told["os"] = o)
      /\ (both \/ SyncState(p, o) \in {"", told["sync"]})
  BY <1>2, NoPubs DEF PtpClaim, OsClaim, SyncClaim, Tells
<1>4. both => ChronydActiveAsE3 /\ Known("realtime")
  BY <1>1 DEF BothOs, StateOf, ChronydActiveAsE3, Known, Has
<1>5. p \in Maybe /\ o \in Maybe
  BY <1>1 DEF PtpState, OsState, StateOf, IsStat, StatRec, Maybe, Has, ProxyInv, Core, CoreTypes
<1>6. PICK main : main = GetMainClockName(stat)
  OBVIOUS
<1>7. PICK os : os = IF ChronydActiveAsE3 THEN "chronyd" ELSE "realtime"
  OBVIOUS
<1>8. p = StateOf(stat, main) /\ o = StateOf(stat, os)
  BY <1>1, <1>6, <1>7 DEF PtpState, OsState, StateOf, ChronydActiveAsE3, Known, Has
<1>9. \A k : {stat[j].state : j \in {k} \cap DOMAIN stat} \ {""} = {StateOf(stat, k)} \ {""}
  BY DEF StateOf, Has
<1>10. {stat[j].state : j \in ({os} \cup {main}) \cap DOMAIN stat} \ {""} = {p, o} \ {""}
  BY <1>8 DEF StateOf, Has
<1>11. \A v \in Maybe : v # "" => Worst({v} \ {""}, "LOCKED") = v
  BY DEF Maybe, SyncStates, Worst
<1>12. CASE type = "ptp"
  <2>1. CurrentState(type) = IF {p} \ {""} = {} THEN "" ELSE Worst({p} \ {""}, "LOCKED")
    BY <1>6, <1>8, <1>9, <1>12 DEF CurrentState
  <2> QED BY <2>1, <1>3, <1>5, <1>11, <1>12
<1>13. CASE type = "os"
  <2>1. CurrentState(type) = IF {o} \ {""} = {} THEN "" ELSE Worst({o} \ {""}, "LOCKED")
    BY <1>7, <1>8, <1>9, <1>13 DEF CurrentState
  <2> QED BY <2>1, <1>3, <1>4, <1>5, <1>11, <1>13
<1>14. CASE type = "sync"
  <2>1. CurrentState(type) = IF {p, o} \ {""} = {} THEN "" ELSE Worst({p, o} \ {""}, "LOCKED")
    BY <1>6, <1>7, <1>10, <1>14 DEF CurrentState
  <2>2. CurrentState(type) = SyncState(p, o)
    BY <2>1 DEF SyncState
  <2> QED BY <2>2, <1>3, <1>4, <1>14
<1> QED BY <1>12, <1>13, <1>14

THEOREM PulledIsPushed == ProxySpec => []PullAgreesWithPush
BY AnswersAgree, ProxyInvHolds, PTL

-----------------------------------------------------------------------------
(* The data values of an event, their keys, and what one message sets.     *)
ValuesIn(q) == {q[n] : n \in 1..Len(q)}
SameKey(x, y) == x.res = y.res /\ x.kind = y.kind
KeysUnique(q) == \A m, n \in 1..Len(q) : SameKey(q[m], q[n]) => m = n
(* The values of q that a message with the values D leaves, and its own. *)
Overlaid(S, D) == {x \in S : \A d \in D : ~SameKey(x, d)} \cup D

(* The values a message of type t for the interface f carries. *)
Sent(t, f, v) == buildDataValues(t, buildResourceAddress(t, f), v)

(* One data value set: the values of its key give way to it, and no key    *)
(* occurs twice afterwards.                                                *)
LEMMA OneValueSet ==
  ASSUME NEW q \in Seq(DataValues), NEW d \in DataValues, KeysUnique(q)
  PROVE  /\ setDataValue(q, d) \in Seq(DataValues)
         /\ KeysUnique(setDataValue(q, d))
         /\ ValuesIn(setDataValue(q, d)) = Overlaid(ValuesIn(q), {d})
<1> DEFINE same == {n \in 1..Len(q) : q[n].res = d.res /\ q[n].kind = d.kind}
           r == setDataValue(q, d)
<1>0. Len(q) \in Nat /\ \A n \in 1..Len(q) : q[n] \in DataValues
  OBVIOUS
<1>1. CASE same = {}
  <2>1. r = Append(q, d)
    BY <1>1 DEF setDataValue
  <2>2. r \in Seq(DataValues) /\ Len(r) = Len(q) + 1 /\ r[Len(q) + 1] = d
    BY <2>1
  <2>3. \A n \in 1..Len(q) : r[n] = q[n] /\ ~SameKey(q[n], d)
    BY <2>1, <1>1 DEF SameKey
  <2>4. 1..Len(r) = (1..Len(q)) \cup {Len(q) + 1} /\ Len(q) + 1 \notin 1..Len(q)
    BY <2>2, <1>0
  <2>5. KeysUnique(r)
    BY <2>2, <2>3, <2>4 DEF KeysUnique, SameKey
  <2>6. ValuesIn(r) = ValuesIn(q) \cup {d}
    BY <2>2, <2>3, <2>4 DEF ValuesIn
  <2>7. Overlaid(ValuesIn(q), {d}) = ValuesIn(q) \cup {d}
    BY <2>3 DEF Overlaid, ValuesIn
  <2> QED BY <2>2, <2>5, <2>6, <2>7
<1>2. CASE same # {}
  <2>1. PICK k \in 1..Len(q) : SameKey(q[k], d)
    BY <1>2 DEF SameKey
  <2>2. \A n \in 1..Len(q) : SameKey(q[n], d) => n = k
    BY <2>1 DEF KeysUnique, SameKey
  <2>3. same = {k}
    BY <2>1, <2>2 DEF SameKey
  <2>4. (CHOOSE n \in same : \A m \in same : n <= m) = k
    BY <2>3
  <2>5. r = [q EXCEPT ![k] = d]
    BY <2>4, <1>2 DEF setDataValue
  <2>6. r \in Seq(DataValues) /\ Len(r) = Len(q) /\ r[k] = d
    BY <2>5
  <2>7. \A n \in 1..Len(q) : n # k => r[n] = q[n] /\ ~SameKey(q[n], d)
    BY <2>5, <2>2
  <2>8. KeysUnique(r)
    BY <2>6, <2>7 DEF KeysUnique, SameKey
  <2>9. ValuesIn(r) = Overlaid(ValuesIn(q), {d})
    <3>1. ASSUME NEW x \in ValuesIn(r) PROVE x \in Overlaid(ValuesIn(q), {d})
      BY <2>6, <2>7 DEF ValuesIn, Overlaid
    <3>2. ASSUME NEW x \in Overlaid(ValuesIn(q), {d}) PROVE x \in ValuesIn(r)
      <4>1. CASE x = d
        BY <4>1, <2>6, <2>1 DEF ValuesIn
      <4>2. CASE x # d
        BY <4>2, <2>6, <2>7, <2>1 DEF ValuesIn, Overlaid
      <4> QED BY <4>1, <4>2
    <3> QED BY <3>1, <3>2
  <2> QED BY <2>6, <2>8, <2>9
<1> QED BY <1>1, <1>2

(* The data values of one message, set one by one. *)
LEMMA ValuesSet ==
  ASSUME NEW q \in Seq(DataValues), KeysUnique(q),
         NEW dvs \in Seq(DataValues), Len(dvs) \in 1..3, KeysUnique(dvs)
  PROVE  /\ setDataValues(q, dvs) \in Seq(DataValues)
         /\ KeysUnique(setDataValues(q, dvs))
         /\ ValuesIn(setDataValues(q, dvs)) = Overlaid(ValuesIn(q), ValuesIn(dvs))
<1> DEFINE a == setDataValue(q, dvs[1])
           b == setDataValue(a, dvs[2])
           c == setDataValue(b, dvs[3])
<1>1. dvs[1] \in DataValues
  OBVIOUS
<1>2. a \in Seq(DataValues) /\ KeysUnique(a) /\ ValuesIn(a) = Overlaid(ValuesIn(q), {dvs[1]})
  BY <1>1, OneValueSet
<1> HIDE DEF a
<1>3. ASSUME Len(dvs) # 1
      PROVE  b \in Seq(DataValues) /\ KeysUnique(b) /\ ValuesIn(b) = Overlaid(ValuesIn(a), {dvs[2]})
  <2>1. dvs[2] \in DataValues
    BY <1>3
  <2> QED BY <1>2, <2>1, OneValueSet
<1> HIDE DEF b
<1>4. ASSUME Len(dvs) \notin {1, 2}
      PROVE  c \in Seq(DataValues) /\ KeysUnique(c) /\ ValuesIn(c) = Overlaid(ValuesIn(b), {dvs[3]})
  <2>1. dvs[3] \in DataValues
    BY <1>4
  <2> QED BY <1>3, <1>4, <2>1, OneValueSet
<1> HIDE DEF c
<1>5. CASE Len(dvs) = 1
  <2>1. setDataValues(q, dvs) = a
    BY <1>5 DEF setDataValues, a
  <2>2. ValuesIn(dvs) = {dvs[1]}
    BY <1>5 DEF ValuesIn
  <2> QED BY <2>1, <2>2, <1>2
<1>6. CASE Len(dvs) = 2
  <2>1. setDataValues(q, dvs) = b
    BY <1>6 DEF setDataValues, a, b
  <2>2. ValuesIn(dvs) = {dvs[1], dvs[2]} /\ ~SameKey(dvs[1], dvs[2])
    BY <1>6 DEF ValuesIn, KeysUnique
  <2>3. ValuesIn(b) = Overlaid(Overlaid(ValuesIn(q), {dvs[1]}), {dvs[2]})
    BY <1>6, <1>2, <1>3
  <2>4. ValuesIn(b) = Overlaid(ValuesIn(q), ValuesIn(dvs))
    BY <2>2, <2>3 DEF Overlaid, SameKey
  <2> QED BY <2>1, <2>4, <1>6, <1>3
<1>7. CASE Len(dvs) = 3
  <2>1. setDataValues(q, dvs) = c
    BY <1>7 DEF setDataValues, a, b, c
  <2>2. /\ ValuesIn(dvs) = {dvs[1], dvs[2], dvs[3]}
        /\ ~SameKey(dvs[1], dvs[2]) /\ ~SameKey(dvs[1], dvs[3]) /\ ~SameKey(dvs[2], dvs[3])
    BY <1>7 DEF ValuesIn, KeysUnique
  <2>3. ValuesIn(c) = Overlaid(Overlaid(Overlaid(ValuesIn(q), {dvs[1]}), {dvs[2]}), {dvs[3]})
    BY <1>7, <1>2, <1>3, <1>4
  <2>4. ValuesIn(c) = Overlaid(ValuesIn(q), ValuesIn(dvs))
    BY <2>2, <2>3 DEF Overlaid, SameKey
  <2> QED BY <2>1, <2>4, <1>7, <1>4
<1> QED BY <1>5, <1>6, <1>7

(* What a message carries, spelled out by type. *)
SentOne(t) == t \notin TwoValues \cup {"gnss_state"}
OneKind(t) == IF t = "sync_state" THEN "notification" ELSE "metric"
Spelled(t, f, v, res) ==
  /\ res \in IFaces \X Parts
  /\ t \notin {"os_clock_state", "sync_state"} => res[1] = f
  /\ t \in {"ptp_state", "os_clock_state"} =>
        Sent(t, f, v) = <<DataValue(res, "notification", v[1]), DataValue(res, "metric", v[2])>>
  /\ t = "gnss_state" =>
        Sent(t, f, v) = <<DataValue(res, "notification", v[1]), DataValue(res, "metric", 0),
                          DataValue(<<f, "gpsFix">>, "metric", 0)>>
  /\ t = "gnss_state" => res[2] = "master"
  /\ t = "synce_clock_quality" =>
        Sent(t, f, v) = <<DataValue(<<f, "Ql">>, "metric", v[1]), DataValue(<<f, "extQl">>, "metric", v[2])>>
  /\ SentOne(t) => Sent(t, f, v) = <<DataValue(res, OneKind(t), v[1])>>
LEMMA SentSpelled ==
  ASSUME NEW t \in oranMapping, NEW f \in IFaces, NEW v \in Levels \X Levels
  PROVE  Spelled(t, f, v, buildResourceAddress(t, f))
<1> DEFINE res == buildResourceAddress(t, f)
<1>1. CASE t \in {"ptp_state", "os_clock_state"}
  BY <1>1 DEF Spelled, Parts, IFaces, Sent, buildDataValues, buildResourceAddress, SentOne, TwoValues, oranMapping
<1>2. CASE t = "gnss_state"
  BY <1>2 DEF Spelled, Parts, IFaces, Sent, buildDataValues, buildResourceAddress, SentOne, TwoValues, oranMapping
<1>3. CASE t = "synce_clock_quality"
  BY <1>3 DEF Spelled, Parts, IFaces, Sent, buildDataValues, buildResourceAddress, SentOne, TwoValues, oranMapping
<1>4. CASE t = "sync_state"
  BY <1>4 DEF Spelled, Parts, IFaces, Sent, buildDataValues, buildResourceAddress, SentOne, TwoValues, oranMapping, OneKind
<1>5. CASE t \in {"clock_class", "synce_state"}
  BY <1>5 DEF Spelled, Parts, IFaces, Sent, buildDataValues, buildResourceAddress, SentOne, TwoValues, oranMapping, OneKind
<1> QED BY <1>1, <1>2, <1>3, <1>4, <1>5 DEF oranMapping

(* A message carries one to three data values of different keys. *)
LEMMA SentTyped ==
  ASSUME NEW t \in oranMapping, NEW f \in IFaces, NEW v \in Levels \X Levels
  PROVE  /\ Sent(t, f, v) \in Seq(DataValues) /\ Len(Sent(t, f, v)) \in 1..3
         /\ KeysUnique(Sent(t, f, v))
<1> DEFINE res == buildResourceAddress(t, f)
<1>a. Spelled(t, f, v, res)
  BY SentSpelled
<1>0. v[1] \in Levels /\ v[2] \in Levels /\ res \in IFaces \X Parts
  BY <1>a DEF Spelled
<1>1. \A r \in IFaces \X Parts, k \in {"notification", "metric"}, w \in Levels \cup {0} :
        /\ DataValue(r, k, w) \in DataValues
        /\ DataValue(r, k, w).res = r /\ DataValue(r, k, w).kind = k
  BY DEF DataValue, DataValues
<1>2. CASE t \in {"ptp_state", "os_clock_state"}
  <2>1. Sent(t, f, v) = <<DataValue(res, "notification", v[1]), DataValue(res, "metric", v[2])>>
    BY <1>2, <1>a DEF Spelled
  <2> QED BY <2>1, <1>0, <1>1 DEF KeysUnique, SameKey
<1>3. CASE t = "gnss_state"
  <2>1. Sent(t, f, v) = <<DataValue(res, "notification", v[1]), DataValue(res, "metric", 0),
                          DataValue(<<f, "gpsFix">>, "metric", 0)>>
    BY <1>3, <1>a DEF Spelled
  <2>a. res[2] = "master"
    BY <1>3, <1>a DEF Spelled
  <2>2. <<f, "gpsFix">> \in IFaces \X Parts /\ <<f, "gpsFix">> # res
    <3>1. <<f, "gpsFix">> \in IFaces \X Parts
      BY DEF Parts
    <3>2. <<f, "gpsFix">>[2] = "gpsFix"
      OBVIOUS
    <3> QED BY <2>a, <3>1, <3>2
  <2> QED BY <2>1, <2>2, <1>0, <1>1 DEF KeysUnique, SameKey
<1>4. CASE t = "synce_clock_quality"
  <2>1. Sent(t, f, v) = <<DataValue(<<f, "Ql">>, "metric", v[1]), DataValue(<<f, "extQl">>, "metric", v[2])>>
    BY <1>4, <1>a DEF Spelled
  <2>2. <<f, "Ql">> \in IFaces \X Parts /\ <<f, "extQl">> \in IFaces \X Parts /\ <<f, "Ql">> # <<f, "extQl">>
    BY DEF Parts
  <2> QED BY <2>1, <2>2, <1>0, <1>1 DEF KeysUnique, SameKey
<1>5. CASE SentOne(t)
  <2>1. Sent(t, f, v) = <<DataValue(res, OneKind(t), v[1])>>
    BY <1>5, <1>a DEF Spelled
  <2>2. OneKind(t) \in {"notification", "metric"}
    BY DEF OneKind
  <2> QED BY <2>1, <2>2, <1>0, <1>1 DEF KeysUnique, SameKey
<1> QED BY <1>2, <1>3, <1>4, <1>5 DEF SentOne, TwoValues

(* The key of a data value says which interface it is of, as far as the    *)
(* messages of the type tell interfaces apart.                             *)
LEMMA SentApart ==
  ASSUME NEW t \in oranMapping, NEW f \in IFaces, NEW g \in IFaces,
         NEW v \in Levels \X Levels, NEW w \in Levels \X Levels,
         t \notin {"os_clock_state", "sync_state"},
         NEW x \in ValuesIn(Sent(t, f, v)), NEW y \in ValuesIn(Sent(t, g, w)), SameKey(x, y)
  PROVE  f = g
<1>1. ASSUME NEW h \in IFaces, NEW u \in Levels \X Levels, NEW z \in ValuesIn(Sent(t, h, u))
      PROVE  z.res[1] = h
  <2> DEFINE res == buildResourceAddress(t, h)
  <2>a. Spelled(t, h, u, res)
    BY SentSpelled
  <2>0. res[1] = h
    BY <2>a DEF Spelled
  <2>1. CASE t = "ptp_state"
    <3>1. Sent(t, h, u) = <<DataValue(res, "notification", u[1]), DataValue(res, "metric", u[2])>>
      BY <2>1, <2>a DEF Spelled
    <3> QED BY <3>1, <2>0 DEF ValuesIn, DataValue
  <2>2. CASE t = "gnss_state"
    <3>1. Sent(t, h, u) = <<DataValue(res, "notification", u[1]), DataValue(res, "metric", 0),
                            DataValue(<<h, "gpsFix">>, "metric", 0)>>
      BY <2>2, <2>a DEF Spelled
    <3> QED BY <3>1, <2>0 DEF ValuesIn, DataValue
  <2>3. CASE t = "synce_clock_quality"
    <3>1. Sent(t, h, u) = <<DataValue(<<h, "Ql">>, "metric", u[1]), DataValue(<<h, "extQl">>, "metric", u[2])>>
      BY <2>3, <2>a DEF Spelled
    <3> QED BY <3>1 DEF ValuesIn, DataValue
  <2>4. CASE SentOne(t)
    <3>1. Sent(t, h, u) = <<DataValue(res, OneKind(t), u[1])>>
      BY <2>4, <2>a DEF Spelled
    <3> QED BY <3>1, <2>0 DEF ValuesIn, DataValue
  <2> QED BY <2>1, <2>2, <2>3, <2>4 DEF SentOne, TwoValues
<1>2. x.res[1] = f /\ y.res[1] = g
  BY <1>1
<1> QED BY <1>2 DEF SameKey

(* Two messages of one type and interface set the same keys. *)
LEMMA SentAgain ==
  ASSUME NEW t \in oranMapping, NEW f \in IFaces,
         NEW v \in Levels \X Levels, NEW w \in Levels \X Levels,
         NEW x \in ValuesIn(Sent(t, f, v))
  PROVE  \E y \in ValuesIn(Sent(t, f, w)) : SameKey(x, y)
<1> DEFINE res == buildResourceAddress(t, f)
<1>a. \A u \in Levels \X Levels : Spelled(t, f, u, res)
  BY SentSpelled
<1>0. PICK n \in 1..Len(Sent(t, f, v)) : x = Sent(t, f, v)[n]
  BY DEF ValuesIn
<1> SUFFICES /\ Len(Sent(t, f, w)) = Len(Sent(t, f, v))
             /\ SameKey(Sent(t, f, v)[n], Sent(t, f, w)[n])
  BY <1>0 DEF ValuesIn
<1>1. CASE t \in {"ptp_state", "os_clock_state"}
  <2>1. \A u \in Levels \X Levels :
          Sent(t, f, u) = <<DataValue(res, "notification", u[1]), DataValue(res, "metric", u[2])>>
    BY <1>1, <1>a DEF Spelled
  <2> QED BY <2>1, <1>0 DEF SameKey, DataValue
<1>2. CASE t = "gnss_state"
  <2>1. \A u \in Levels \X Levels :
          Sent(t, f, u) = <<DataValue(res, "notification", u[1]), DataValue(res, "metric", 0),
                            DataValue(<<f, "gpsFix">>, "metric", 0)>>
    BY <1>2, <1>a DEF Spelled
  <2>2. \A u \in Levels \X Levels :
          /\ Len(Sent(t, f, u)) = 3
          /\ Sent(t, f, u)[1].res = res /\ Sent(t, f, u)[1].kind = "notification"
          /\ Sent(t, f, u)[2].res = res /\ Sent(t, f, u)[2].kind = "metric"
          /\ Sent(t, f, u)[3].res = <<f, "gpsFix">> /\ Sent(t, f, u)[3].kind = "metric"
    BY <2>1 DEF DataValue
  <2>3. n \in {1, 2, 3}
    BY <2>2, <1>0
  <2> QED BY <2>2, <2>3 DEF SameKey
<1>3. CASE t = "synce_clock_quality"
  <2>1. \A u \in Levels \X Levels :
          Sent(t, f, u) = <<DataValue(<<f, "Ql">>, "metric", u[1]), DataValue(<<f, "extQl">>, "metric", u[2])>>
    BY <1>3, <1>a DEF Spelled
  <2>2. \A u \in Levels \X Levels :
          /\ Len(Sent(t, f, u)) = 2
          /\ Sent(t, f, u)[1].res = <<f, "Ql">> /\ Sent(t, f, u)[1].kind = "metric"
          /\ Sent(t, f, u)[2].res = <<f, "extQl">> /\ Sent(t, f, u)[2].kind = "metric"
    BY <2>1 DEF DataValue
  <2>3. n \in {1, 2}
    BY <2>2, <1>0
  <2> QED BY <2>2, <2>3 DEF SameKey
<1>4. CASE SentOne(t)
  <2>1. \A u \in Levels \X Levels : Sent(t, f, u) = <<DataValue(res, OneKind(t), u[1])>>
    BY <1>4, <1>a DEF Spelled
  <2> QED BY <2>1, <1>0 DEF SameKey, DataValue
<1> QED BY <1>1, <1>2, <1>3, <1>4 DEF SentOne, TwoValues

-----------------------------------------------------------------------------
(* What holds between two steps. *)
EventTypes ==
  /\ MsgTypes \subseteq DOMAIN IFacesOf
  /\ entries = [t \in MsgTypes |-> entries[t]]
  /\ \A t \in MsgTypes : entries[t] \in Seq(DataValues) \cup {NoEvent}
  /\ latest = [t \in MsgTypes |-> latest[t]]
  /\ \A t \in MsgTypes : latest[t] \in [IFacesOf[t] -> (Levels \X Levels) \cup {NoEvent}]
PostTypes ==
  /\ posts = [type |-> posts.type, values |-> posts.values, to |-> posts.to]
  /\ heard = [s \in DOMAIN heard |-> heard[s]]
  /\ \A s \in DOMAIN heard : heard[s] = [t \in MsgTypes |-> heard[s][t]]

(* The publication under way carries the event as the cache holds it. *)
PostCarriesEntry == ~Reading => posts.type \in MsgTypes /\ posts.values = entries[posts.type]
(* A subscriber whose last post came through, and which no publication of  *)
(* the type is on its way to, heard the event the cache holds.             *)
Awaits(s, t) == s \in posts.to /\ posts.type = t
HeardEntry ==
  \A s \in DOMAIN heard, t \in MsgTypes :
     (/\ entries[t] # NoEvent /\ heard[s][t] # NoEvent
      /\ <<s, t>> \notin stale /\ ~Awaits(s, t)) => heard[s][t] = entries[t]

(* The values an event holds are those of the last message of each         *)
(* interface heard of; without an event there is none.                     *)
HeardOf(t) == {g \in IFacesOf[t] : latest[t][g] # NoEvent}
LastSent(t) == UNION {ValuesIn(Sent(t, f, latest[t][f])) : f \in HeardOf(t)}
EntryHoldsLatest ==
  \A t \in MsgTypes :
     IF entries[t] = NoEvent THEN HeardOf(t) = {}
     ELSE ValuesIn(entries[t]) = LastSent(t) /\ KeysUnique(entries[t])

EventInv == EventTypes /\ PostTypes /\ PostCarriesEntry /\ HeardEntry /\ EntryHoldsLatest

LEMMA EventInvInit == EventInit => EventInv
<1> SUFFICES ASSUME EventInit PROVE EventInv
  OBVIOUS
<1>1. PICK T \in MsgTypeSets : entries = [t \in T |-> NoEvent]
  BY DEF EventInit
<1>2. MsgTypes = T /\ T \subseteq DOMAIN IFacesOf
  BY <1>1, EventCacheAssumption DEF MsgTypes
<1>3. EventTypes
  BY <1>1, <1>2 DEF EventInit, EventTypes
<1>4. PostTypes
  <2>1. posts = [type |-> posts.type, values |-> posts.values, to |-> posts.to]
    BY DEF EventInit
  <2>2. heard = << >>
    BY DEF EventInit
  <2>3. heard = [s \in DOMAIN heard |-> heard[s]] /\ DOMAIN heard = {}
    BY <2>2
  <2> QED BY <2>1, <2>3 DEF PostTypes
<1>5. PostCarriesEntry
  BY DEF EventInit, PostCarriesEntry, Reading
<1>6. HeardEntry
  BY <1>1, <1>2 DEF HeardEntry
<1>7. EntryHoldsLatest
  BY <1>1, <1>2 DEF EventInit, EntryHoldsLatest, HeardOf
<1> QED BY <1>3, <1>4, <1>5, <1>6, <1>7 DEF EventInv

(* The invariant says what the property says. *)
LEMMA EventInvCurrent == EventInv => EventsCurrent
<1> SUFFICES ASSUME EventInv PROVE EventsCurrent
  OBVIOUS
<1>1. HeardIsCurrent
  BY DEF EventInv, HeardEntry, HeardIsCurrent, currentStateHandler, GetBySource, Awaits, Reading
<1>2. ASSUME NEW t \in MsgTypes, entries[t] # NoEvent
      PROVE  /\ {entries[t][n] : n \in 1..Len(entries[t])} =
                   UNION {LET dvs == buildDataValues(t, buildResourceAddress(t, f), latest[t][f])
                          IN {dvs[n] : n \in 1..Len(dvs)} :
                            f \in {g \in IFacesOf[t] : latest[t][g] # NoEvent}}
             /\ \A m, n \in 1..Len(entries[t]) : m # n =>
                  <<entries[t][m].res, entries[t][m].kind>> # <<entries[t][n].res, entries[t][n].kind>>
  <2>1. ValuesIn(entries[t]) = LastSent(t) /\ KeysUnique(entries[t])
    BY <1>2 DEF EventInv, EntryHoldsLatest
  <2>2. {entries[t][n] : n \in 1..Len(entries[t])} =
          UNION {LET dvs == buildDataValues(t, buildResourceAddress(t, f), latest[t][f])
                 IN {dvs[n] : n \in 1..Len(dvs)} :
                   f \in {g \in IFacesOf[t] : latest[t][g] # NoEvent}}
    BY <2>1, Zenon DEF ValuesIn, LastSent, Sent, HeardOf
  <2>3. \A m, n \in 1..Len(entries[t]) : m # n =>
          <<entries[t][m].res, entries[t][m].kind>> # <<entries[t][n].res, entries[t][n].kind>>
    BY <2>1 DEF KeysUnique, SameKey
  <2> QED BY <2>2, <2>3
<1>3. EventHoldsLatest
  BY <1>2, Zenon DEF EventHoldsLatest
<1> QED BY <1>1, <1>3 DEF EventsCurrent

(* What the reader does with a message keeps each part of the invariant.   *)
LEMMA UpdateTyped ==
  ASSUME EventTypes, NEW t \in MsgTypes, t \in oranMapping, NEW f \in IFacesOf[t], NEW v \in Payloads(t)
  PROVE  /\ f \in IFaces /\ v \in Levels \X Levels /\ v # NoEvent
         /\ Sent(t, f, v) \in Seq(DataValues) /\ Len(Sent(t, f, v)) \in 1..3
         /\ KeysUnique(Sent(t, f, v))
         /\ NoEvent \notin Seq(DataValues)
<1>1. f \in IFaces
  BY DEF EventTypes, IFaces
<1>2. v \in Levels \X Levels
  BY DEF Payloads
<1> QED BY <1>1, <1>2, SentTyped, EventCacheAssumption

(* A message for an interface takes the place of that interface's last     *)
(* one among those the event is made of.                                   *)
FirstSet(t, f, v, H, last) ==
  Overlaid(UNION {ValuesIn(Sent(t, g, last[g])) : g \in H}, ValuesIn(Sent(t, f, v)))
    = UNION {ValuesIn(Sent(t, g, IF g = f THEN v ELSE last[g])) : g \in H \cup {f}}
LEMMA SentOverlaid ==
  ASSUME NEW t \in oranMapping, t \in DOMAIN IFacesOf, NEW f \in IFacesOf[t],
         NEW v \in Levels \X Levels, NEW H \in SUBSET IFacesOf[t], NEW last,
         \A g \in H : last[g] \in Levels \X Levels
  PROVE  FirstSet(t, f, v, H, last)
<1> DEFINE L == Overlaid(UNION {ValuesIn(Sent(t, g, last[g])) : g \in H}, ValuesIn(Sent(t, f, v)))
           R == UNION {ValuesIn(Sent(t, g, IF g = f THEN v ELSE last[g])) : g \in H \cup {f}}
<1>0. \A g \in IFacesOf[t] : g \in IFaces
  BY DEF IFaces
<1>1. ASSUME NEW x \in L PROVE x \in R
  <2>1. CASE x \in ValuesIn(Sent(t, f, v))
    BY <2>1
  <2>2. CASE x \notin ValuesIn(Sent(t, f, v))
    <3>1. PICK g \in H : x \in ValuesIn(Sent(t, g, last[g]))
      BY <2>2 DEF Overlaid
    <3>2. \A d \in ValuesIn(Sent(t, f, v)) : ~SameKey(x, d)
      BY <2>2 DEF Overlaid
    <3>3. g # f
      BY <3>1, <3>2, <1>0, SentAgain
    <3> QED BY <3>1, <3>3
  <2> QED BY <2>1, <2>2
<1>2. ASSUME NEW x \in R PROVE x \in L
  <2>1. PICK g \in H \cup {f} : x \in ValuesIn(Sent(t, g, IF g = f THEN v ELSE last[g]))
    OBVIOUS
  <2>2. CASE g = f
    BY <2>1, <2>2 DEF Overlaid
  <2>3. CASE g # f
    <3>1. g \in H /\ x \in ValuesIn(Sent(t, g, last[g]))
      BY <2>1, <2>3
    <3>2. t \notin {"os_clock_state", "sync_state"}
      BY <2>3, <3>1, EventCacheAssumption
    <3>3. \A d \in ValuesIn(Sent(t, f, v)) : ~SameKey(x, d)
      BY <3>1, <3>2, <2>3, <1>0, SentApart
    <3> QED BY <3>1, <3>3 DEF Overlaid
  <2> QED BY <2>2, <2>3
<1>3. L = R
  BY <1>1, <1>2
<1> QED BY <1>3, Zenon DEF FirstSet

(* The event after a message holds the last messages, as they are then. *)
LatestNow(t, f, v) ==
  [g \in IFacesOf[t] |-> IF g = f THEN v ELSE IF f = "" THEN NoEvent ELSE latest[t][g]]
LEMMA EntryUpdated ==
  ASSUME EventInv, NEW t \in MsgTypes, t \in oranMapping, NEW f \in IFacesOf[t], NEW v \in Payloads(t)
  PROVE  LET new == Updated(entries[t], f, Sent(t, f, v))
             last == LatestNow(t, f, v)
         IN /\ new \in Seq(DataValues) /\ KeysUnique(new)
            /\ ValuesIn(new) = UNION {ValuesIn(Sent(t, g, last[g])) : g \in {h \in IFacesOf[t] : last[h] # NoEvent}}
<1> DEFINE new == Updated(entries[t], f, Sent(t, f, v))
           last == LatestNow(t, f, v)
           heardNow == {h \in IFacesOf[t] : last[h] # NoEvent}
<1>0. /\ v \in Levels \X Levels /\ v # NoEvent
      /\ Sent(t, f, v) \in Seq(DataValues) /\ Len(Sent(t, f, v)) \in 1..3
      /\ KeysUnique(Sent(t, f, v))
      /\ NoEvent \notin Seq(DataValues)
  BY UpdateTyped DEF EventInv
<1>1. CASE f = ""
  <2>1. new = Sent(t, f, v)
    BY <1>1 DEF Updated
  <2>2. heardNow = {f} /\ last[f] = v
    BY <1>1, <1>0 DEF LatestNow
  <2>3. ValuesIn(new) = UNION {ValuesIn(Sent(t, g, last[g])) : g \in heardNow}
    BY <2>1, <2>2
  <2> QED BY <2>1, <2>3, <1>0
<1>2. CASE f # ""
  <2> DEFINE old == IF entries[t] = NoEvent THEN <<>> ELSE entries[t]
  <2>1. new = setDataValues(old, Sent(t, f, v))
    BY <1>2 DEF Updated
  <2>2. old \in Seq(DataValues) /\ KeysUnique(old) /\ ValuesIn(old) = LastSent(t)
    <3>1. CASE entries[t] = NoEvent
      <4>1. old = <<>>
        BY <3>1
      <4>2. HeardOf(t) = {}
        BY <3>1 DEF EventInv, EntryHoldsLatest
      <4>3. LastSent(t) = {}
        BY <4>2 DEF LastSent
      <4>4. << >> \in Seq(DataValues) /\ 1..Len(<< >>) = {}
        <5>1. Len(<< >>) = 0 /\ << >> \in Seq(DataValues)
          OBVIOUS
        <5>2. 1..0 = {}
          OBVIOUS
        <5> QED BY <5>1, <5>2
      <4> QED BY <4>1, <4>3, <4>4 DEF KeysUnique, ValuesIn
    <3>2. CASE entries[t] # NoEvent
      BY <3>2 DEF EventInv, EntryHoldsLatest, EventTypes
    <3> QED BY <3>1, <3>2
  <2> HIDE DEF old
  <2>3. /\ new \in Seq(DataValues) /\ KeysUnique(new)
        /\ ValuesIn(new) = Overlaid(LastSent(t), ValuesIn(Sent(t, f, v)))
    BY <2>1, <2>2, <1>0, ValuesSet
  <2>4. heardNow = HeardOf(t) \cup {f}
    BY <1>2, <1>0 DEF LatestNow, HeardOf
  <2>5. \A g \in heardNow : last[g] = IF g = f THEN v ELSE latest[t][g]
    BY <1>2 DEF LatestNow
  <2>6. t \in DOMAIN IFacesOf /\ \A g \in HeardOf(t) : latest[t][g] \in Levels \X Levels
    BY DEF EventInv, EventTypes, HeardOf
  <2>7. Overlaid(UNION {ValuesIn(Sent(t, g, latest[t][g])) : g \in HeardOf(t)}, ValuesIn(Sent(t, f, v)))
          = UNION {ValuesIn(Sent(t, g, IF g = f THEN v ELSE latest[t][g])) : g \in HeardOf(t) \cup {f}}
    <3>1. PICK lt : lt = latest[t]
      OBVIOUS
    <3>2. PICK H \in SUBSET IFacesOf[t] : H = HeardOf(t)
      BY DEF HeardOf
    <3>3. \A g \in H : lt[g] \in Levels \X Levels
      BY <3>1, <3>2, <2>6
    <3>4. FirstSet(t, f, v, H, lt)
      BY <3>3, <2>6, <1>0, SentOverlaid
    <3> QED BY <3>1, <3>2, <3>4 DEF FirstSet
  <2>8. UNION {ValuesIn(Sent(t, g, last[g])) : g \in heardNow}
          = UNION {ValuesIn(Sent(t, g, IF g = f THEN v ELSE latest[t][g])) : g \in heardNow}
    BY <2>5
  <2> QED BY <2>3, <2>4, <2>7, <2>8 DEF LastSent
<1> QED BY <1>1, <1>2

LEMMA MessageKeeps ==
  ASSUME EventInv, NEW t \in MsgTypes, NEW f \in IFacesOf[t], NEW v \in Payloads(t), Update(t, f, v)
  PROVE  EventInv'
<1> DEFINE dvs == buildDataValues(t, buildResourceAddress(t, f), v)
           new == Updated(entries[t], f, dvs)
           last == LatestNow(t, f, v)
<1>0. /\ Reading /\ t \in oranMapping /\ UNCHANGED <<heard, stale>>
      /\ entries' = [entries EXCEPT ![t] = new]
      /\ posts' = IF Changed(entries[t], new, dvs)
                  THEN [type |-> t, values |-> new, to |-> DOMAIN heard] ELSE posts
      /\ latest' = [latest EXCEPT ![t] =
           [g \in DOMAIN @ |-> IF g = f THEN v ELSE IF f = "" THEN NoEvent ELSE @[g]]]
  BY DEF Update
<1>1. /\ new \in Seq(DataValues) /\ KeysUnique(new) /\ new # NoEvent
      /\ ValuesIn(new) = UNION {ValuesIn(Sent(t, g, last[g])) : g \in {h \in IFacesOf[t] : last[h] # NoEvent}}
  <2>1. NoEvent \notin Seq(DataValues)
    BY EventCacheAssumption
  <2> QED BY <1>0, <2>1, EntryUpdated DEF Sent
<1>2. Changed(entries[t], new, dvs) <=> (entries[t] = NoEvent \/ new # entries[t])
  BY DEF Changed
<1>T. EventTypes /\ PostTypes
  BY DEF EventInv
<1> HIDE DEF new
<1>3. MsgTypes' = MsgTypes
  BY <1>0, <1>T DEF MsgTypes
<1>4. entries'[t] = new /\ \A u \in MsgTypes : u # t => entries'[u] = entries[u]
  BY <1>0, <1>T DEF EventTypes
<1>5. latest'[t] = last /\ \A u \in MsgTypes : u # t => latest'[u] = latest[u]
  <2>1. DOMAIN latest[t] = IFacesOf[t] /\ t \in DOMAIN latest
    BY <1>T DEF EventTypes
  <2>2. latest' = [latest EXCEPT ![t] =
           [g \in DOMAIN latest[t] |-> IF g = f THEN v ELSE IF f = "" THEN NoEvent ELSE latest[t][g]]]
    BY <1>0
  <2>3. latest' = [latest EXCEPT ![t] = last]
    BY <2>1, <2>2 DEF LatestNow
  <2>4. DOMAIN latest = MsgTypes
    BY <1>T DEF EventTypes
  <2> HIDE DEF last
  <2> QED BY <2>3, <2>4
<1>6. EventTypes'
  <2>1. entries' = [u \in MsgTypes |-> entries'[u]]
    BY <1>0, <1>T DEF EventTypes
  <2>2. latest' = [u \in MsgTypes |-> latest'[u]]
    BY <1>0, <1>T DEF EventTypes
  <2>3. last \in [IFacesOf[t] -> (Levels \X Levels) \cup {NoEvent}]
    <3>1. v \in Levels \X Levels
      BY DEF Payloads
    <3> QED BY <1>T, <3>1 DEF LatestNow, EventTypes
  <2> QED BY <2>1, <2>2, <2>3, <1>1, <1>3, <1>4, <1>5, <1>T DEF EventTypes
<1>7. PostTypes'
  <2>1. posts' = [type |-> posts.type, values |-> posts.values, to |-> posts.to]'
    BY <1>0, <1>T DEF PostTypes
  <2> QED BY <2>1, <1>0, <1>3, <1>T DEF PostTypes
<1>8. PostCarriesEntry'
  <2>1. CASE Changed(entries[t], new, dvs)
    BY <2>1, <1>0, <1>3, <1>4 DEF PostCarriesEntry
  <2>2. CASE ~Changed(entries[t], new, dvs)
    BY <2>2, <1>0 DEF PostCarriesEntry, Reading
  <2> QED BY <2>1, <2>2
<1>9. HeardEntry'
  <2> SUFFICES ASSUME NEW s \in DOMAIN heard, NEW u \in MsgTypes,
                      entries'[u] # NoEvent, heard[s][u] # NoEvent,
                      <<s, u>> \notin stale, ~Awaits(s, u)'
               PROVE  heard[s][u] = entries'[u]
    BY <1>0, <1>3 DEF HeardEntry
  <2>0. ~Awaits(s, u)
    BY <1>0 DEF Awaits, Reading
  <2>1. CASE u # t
    BY <2>0, <2>1, <1>4, <1>T DEF EventInv, HeardEntry
  <2>2. CASE u = t /\ Changed(entries[t], new, dvs)
    BY <2>2, <1>0 DEF Awaits
  <2>3. CASE u = t /\ ~Changed(entries[t], new, dvs)
    <3>1. entries[t] # NoEvent /\ entries'[t] = entries[t]
      BY <2>3, <1>2, <1>4
    <3> QED BY <3>1, <2>0, <2>3 DEF EventInv, HeardEntry
  <2> QED BY <2>1, <2>2, <2>3
<1>10. EntryHoldsLatest'
  <2> SUFFICES ASSUME NEW u \in MsgTypes
               PROVE  IF entries'[u] = NoEvent THEN HeardOf(u)' = {}
                      ELSE ValuesIn(entries'[u]) = LastSent(u)' /\ KeysUnique(entries'[u])
    BY <1>3 DEF EntryHoldsLatest
  <2>1. CASE u # t
    <3>1. HeardOf(u)' = HeardOf(u)
      BY <2>1, <1>5 DEF HeardOf
    <3>2. LastSent(u)' = LastSent(u)
      BY <2>1, <3>1, <1>5 DEF LastSent
    <3> QED BY <2>1, <3>1, <3>2, <1>4 DEF EventInv, EntryHoldsLatest
  <2>2. CASE u = t
    <3>1. HeardOf(t)' = {h \in IFacesOf[t] : last[h] # NoEvent}
      BY <1>5 DEF HeardOf
    <3>2. LastSent(t)' = UNION {ValuesIn(Sent(t, g, last[g])) : g \in {h \in IFacesOf[t] : last[h] # NoEvent}}
      BY <3>1, <1>5 DEF LastSent
    <3> QED BY <2>2, <3>2, <1>1, <1>4
  <2> QED BY <2>1, <2>2
<1> QED BY <1>6, <1>7, <1>8, <1>9, <1>10 DEF EventInv

(* The cache emptied: no event is left to agree with. *)
LEMMA ClearKeeps ==
  ASSUME EventInv, ClearEvents
  PROVE  EventInv'
<1>0. /\ Reading /\ UNCHANGED <<posts, heard, stale>>
      /\ entries' = [t \in MsgTypes |-> NoEvent]
      /\ latest' = [t \in MsgTypes |-> [f \in IFacesOf[t] |-> NoEvent]]
  BY DEF ClearEvents
<1>1. MsgTypes' = MsgTypes
  BY <1>0 DEF MsgTypes
<1>2. EventTypes'
  BY <1>0, <1>1 DEF EventInv, EventTypes
<1>3. PostTypes'
  BY <1>0, <1>1 DEF EventInv, PostTypes
<1>4. PostCarriesEntry'
  BY <1>0 DEF PostCarriesEntry, Reading
<1>5. HeardEntry'
  BY <1>0, <1>1 DEF HeardEntry
<1>6. EntryHoldsLatest'
  BY <1>0, <1>1 DEF EntryHoldsLatest, HeardOf
<1> QED BY <1>2, <1>3, <1>4, <1>5, <1>6 DEF EventInv

(* A step that leaves the cache alone leaves what it says about it.        *)
LEMMA CacheKept ==
  ASSUME EventInv, UNCHANGED <<entries, latest>>
  PROVE  EventTypes' /\ EntryHoldsLatest' /\ MsgTypes' = MsgTypes
<1>1. MsgTypes' = MsgTypes
  BY DEF MsgTypes
<1>2. EventTypes'
  BY <1>1 DEF EventInv, EventTypes
<1>3. EntryHoldsLatest'
  BY <1>1 DEF EventInv, EntryHoldsLatest, HeardOf, LastSent
<1> QED BY <1>1, <1>2, <1>3

LEMMA PostKeeps ==
  ASSUME EventInv, NEW s, Post(s) \/ PostFails(s)
  PROVE  EventInv'
<1>0. /\ s \in posts.to /\ posts' = [posts EXCEPT !.to = @ \ {s}] /\ UNCHANGED <<entries, latest>>
      /\ PostTypes /\ PostCarriesEntry /\ HeardEntry
  BY DEF Post, PostFails, EventInv
<1>1. EventTypes' /\ EntryHoldsLatest' /\ MsgTypes' = MsgTypes
  BY <1>0, CacheKept
<1>2. /\ posts.type \in MsgTypes /\ posts.values = entries[posts.type]
      /\ posts'.type = posts.type /\ posts'.values = posts.values /\ posts'.to = posts.to \ {s}
      /\ posts' = [type |-> posts.type, values |-> posts.values, to |-> posts.to]'
  BY <1>0 DEF PostTypes, PostCarriesEntry, Reading
<1>3. PostCarriesEntry'
  BY <1>0, <1>1, <1>2 DEF PostCarriesEntry
<1>4. /\ DOMAIN heard' = DOMAIN heard
      /\ \A x \in DOMAIN heard, u \in MsgTypes :
           /\ heard'[x][u] = entries[u] \/ heard'[x][u] = heard[x][u]
           /\ <<x, u>> \notin stale' => \/ <<x, u>> \notin stale
                                        \/ heard'[x][u] = entries[u]
           /\ x = s /\ u = posts.type => <<x, u>> \in stale' \/ heard'[x][u] = entries[u]
      /\ heard' = [x \in DOMAIN heard |-> heard'[x]]
      /\ \A x \in DOMAIN heard : heard'[x] = [u \in MsgTypes |-> heard'[x][u]]
  <2>1. CASE s \in DOMAIN heard /\ heard' = [heard EXCEPT ![s][posts.type] = posts.values]
                                /\ stale' = stale \ {<<s, posts.type>>}
    <3>1. heard' = [heard EXCEPT ![s] = [heard[s] EXCEPT ![posts.type] = posts.values]]
      BY <2>1
    <3>2. heard'[s] = [heard[s] EXCEPT ![posts.type] = posts.values]
      BY <2>1, <3>1
    <3>3. \A x \in DOMAIN heard : x # s => heard'[x] = heard[x]
      BY <3>1
    <3>4. heard'[s][posts.type] = entries[posts.type]
      BY <3>2, <2>1, <1>0, <1>2 DEF PostTypes
    <3>5. \A u \in MsgTypes : u # posts.type => heard'[s][u] = heard[s][u]
      BY <3>2
    <3>6. heard'[s] = [u \in MsgTypes |-> heard'[s][u]]
      BY <3>2, <2>1, <1>0, <1>2 DEF PostTypes
    <3>7. heard' = [x \in DOMAIN heard |-> heard'[x]] /\ DOMAIN heard' = DOMAIN heard
      BY <3>1, <1>0 DEF PostTypes
    <3>8. \A x \in DOMAIN heard : heard'[x] = [u \in MsgTypes |-> heard'[x][u]]
      BY <3>3, <3>6, <1>0 DEF PostTypes
    <3>9. \A x \in DOMAIN heard, u \in MsgTypes :
            <<x, u>> \notin stale' => <<x, u>> \notin stale \/ (x = s /\ u = posts.type)
      BY <2>1
    <3> QED BY <3>3, <3>4, <3>5, <3>7, <3>8, <3>9
  <2>2. CASE heard' = heard /\ stale' = stale /\ s \notin DOMAIN heard
    BY <2>2, <1>0 DEF PostTypes
  <2>3. CASE heard' = heard /\ stale' = stale \cup {<<s, posts.type>>}
    BY <2>3, <1>0 DEF PostTypes
  <2> QED BY <2>1, <2>2, <2>3 DEF Post, PostFails
<1>5. PostTypes'
  BY <1>1, <1>2, <1>4 DEF PostTypes
<1>6. HeardEntry'
  <2> SUFFICES ASSUME NEW x \in DOMAIN heard, NEW u \in MsgTypes,
                      entries[u] # NoEvent, heard'[x][u] # NoEvent,
                      <<x, u>> \notin stale', ~Awaits(x, u)', heard'[x][u] # entries[u]
               PROVE  FALSE
    BY <1>0, <1>1, <1>4 DEF HeardEntry
  <2>1. heard'[x][u] = heard[x][u] /\ <<x, u>> \notin stale
    BY <1>4
  <2>2. ~(x = s /\ u = posts.type)
    BY <1>4
  <2>3. ~Awaits(x, u)
    BY <2>2, <1>2 DEF Awaits
  <2> QED BY <2>1, <2>3, <1>0 DEF HeardEntry
<1> QED BY <1>1, <1>3, <1>5, <1>6 DEF EventInv

(* The REST handlers: a new subscriber has heard nothing, one that leaves  *)
(* takes what it heard along.                                              *)
LEMMA SubscribersKeep ==
  ASSUME EventInv,
         \/ \E s \in Subscribers : handleCreateSubscription(s) \/ handleDeleteSubscriptionByID(s)
         \/ handleDeleteSubscriptions
  PROVE  EventInv'
<1>0. UNCHANGED <<entries, latest, posts>> /\ PostTypes /\ PostCarriesEntry /\ HeardEntry
  BY DEF handleCreateSubscription, handleDeleteSubscriptionByID, handleDeleteSubscriptions, EventInv
<1>1. EventTypes' /\ EntryHoldsLatest' /\ MsgTypes' = MsgTypes
  BY <1>0, CacheKept
<1>2. PostCarriesEntry'
  BY <1>0, <1>1 DEF PostCarriesEntry, Reading
<1> DEFINE Left ==
             /\ heard' = [x \in DOMAIN heard' |-> heard'[x]]
             /\ \A x \in DOMAIN heard' :
                  \/ /\ x \in DOMAIN heard /\ heard'[x] = heard[x]
                     /\ \A u : <<x, u>> \notin stale' => <<x, u>> \notin stale
                  \/ heard'[x] = [u \in MsgTypes |-> NoEvent]
<1>3. Left
  <2>1. ASSUME NEW s \in Subscribers, handleCreateSubscription(s) PROVE Left
    BY <2>1 DEF handleCreateSubscription
  <2>2. ASSUME NEW s \in Subscribers, handleDeleteSubscriptionByID(s) PROVE Left
    BY <2>2 DEF handleDeleteSubscriptionByID
  <2>3. ASSUME handleDeleteSubscriptions PROVE Left
    <3>1. heard' = << >>
      BY <2>3 DEF handleDeleteSubscriptions
    <3>2. heard' = [x \in DOMAIN heard' |-> heard'[x]] /\ DOMAIN heard' = {}
      BY <3>1
    <3> QED BY <3>2
  <2> QED BY <2>1, <2>2, <2>3
<1>4. PostTypes'
  BY <1>0, <1>1, <1>3 DEF PostTypes
<1>5. HeardEntry'
  <2> SUFFICES ASSUME NEW x \in DOMAIN heard', NEW u \in MsgTypes,
                      entries[u] # NoEvent, heard'[x][u] # NoEvent,
                      <<x, u>> \notin stale', ~Awaits(x, u)
               PROVE  heard'[x][u] = entries[u]
    BY <1>0, <1>1 DEF HeardEntry, Awaits
  <2>1. x \in DOMAIN heard /\ heard'[x] = heard[x] /\ <<x, u>> \notin stale
    BY <1>3
  <2> QED BY <2>1, <1>0 DEF HeardEntry
<1> QED BY <1>1, <1>2, <1>4, <1>5 DEF EventInv

LEMMA EventNextKeeps == EventInv /\ [EventNext]_eventVars => EventInv'
<1> SUFFICES ASSUME EventInv, [EventNext]_eventVars PROVE EventInv'
  OBVIOUS
<1>1. ASSUME NEW t \in MsgTypes, NEW f \in IFacesOf[t], NEW v \in Payloads(t), Update(t, f, v)
      PROVE  EventInv'
  BY <1>1, MessageKeeps
<1>2. CASE ClearEvents
  BY <1>2, ClearKeeps
<1>3. ASSUME NEW s \in Subscribers, Post(s) \/ PostFails(s) PROVE EventInv'
  BY <1>3, PostKeeps
<1>4. CASE \/ \E s \in Subscribers : handleCreateSubscription(s) \/ handleDeleteSubscriptionByID(s)
           \/ handleDeleteSubscriptions
  BY <1>4, SubscribersKeep
<1>5. CASE UNCHANGED eventVars
  <2>1. UNCHANGED <<entries, posts, heard, latest, stale>>
    BY <1>5 DEF eventVars
  <2>2. EventTypes' /\ EntryHoldsLatest' /\ MsgTypes' = MsgTypes
    BY <2>1, CacheKept
  <2>3. PostTypes' /\ PostCarriesEntry' /\ HeardEntry'
    BY <2>1, <2>2 DEF EventInv, PostTypes, PostCarriesEntry, HeardEntry, Awaits, Reading
  <2> QED BY <2>2, <2>3 DEF EventInv
<1> QED BY <1>1, <1>2, <1>3, <1>4, <1>5 DEF EventNext

(* What a subscriber of the cloud-event proxy heard last is what a         *)
(* CurrentState request is answered with, and that is what the last        *)
(* messages of the daemon say, value by value (event_cache.go, cep.go).    *)
THEOREM EventsAreCurrent == EventSpec => []EventsCurrent
<1>1. EventInit => EventInv
  BY EventInvInit
<1>2. EventInv /\ [EventNext]_eventVars => EventInv'
  BY EventNextKeeps
<1>3. EventInv => EventsCurrent
  BY EventInvCurrent
<1> QED BY <1>1, <1>2, <1>3, PTL DEF EventSpec
=============================================================================
