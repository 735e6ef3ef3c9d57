------------------------------- MODULE IPCLink -------------------------------
(***************************************************************************)
(* How clock states reach the cloud-event proxy (CEP): ipc.Cache with its  *)
(* bounded outbound channel, ipc.Link that drains the channel into a Unix  *)
(* socket and answers status requests with a snapshot, and the proxy that  *)
(* accepts one connection at a time, asks for a snapshot on each and keeps *)
(* the latest event per resource (pkg/ipc/{cache,link}.go,                 *)
(* pkg/cep/{cep,event_cache}.go, cmd/cloud-event-proxy/main.go).           *)
(*                                                                         *)
(* Concurrent parties: the clock manager (the only caller of Send and      *)
(* Clear), the link goroutine, the proxy's accept loop, and restarts of    *)
(* either container.  Clear releases the lock before it sends cache_clear; *)
(* a snapshot taken in between is empty and writes nothing, so Clear is    *)
(* one action.                                                             *)
(***************************************************************************)
EXTENDS Naturals, Sequences, SequencesExt

CONSTANTS
  Keys,          \* (type, profile, iface) keys of ipc.Cache
  Slots,         \* resources the proxy tells apart: (type, iface)
  SlotOf,        \* the resource of a key: the proxy ignores the profile
  Vals,          \* message values
  None,          \* no entry
  OutCap,        \* capacity of the outbound channel (100 in the code)
  SockCap,       \* messages that fit into a socket buffer
  MaxConns,      \* bound: connections in the listen backlog
  MaxUpdates,    \* bound: calls of Send and Clear
  MaxRestarts,   \* bound: restarts of the proxy or the daemon
  MaxTimeouts    \* bound: writes that miss linkWriteTimeout

ASSUME IPCLinkAssumption ==
  /\ SlotOf \in [Keys -> Slots]
  /\ None \notin Vals
  /\ OutCap \in Nat \ {0} /\ SockCap \in Nat \ {0} /\ MaxConns \in Nat \ {0}
  /\ MaxUpdates \in Nat /\ MaxRestarts \in Nat /\ MaxTimeouts \in Nat

VARIABLES
  store,     \* Cache.store: value per key
  outCh,     \* Cache.outCh
  link,      \* Link.Run: "dialing", "serving", or "broken" (peer gone, not yet noticed)
  snap,      \* messages of writeSnapshot still to be transmitted
  request,   \* a status_request is on its way to the link
  conns,     \* connections the proxy has not finished, the first one in use
  peer,      \* the proxy's accept loop: "accepting" or "reading" conns[1]
  cep,       \* EventCache: value per resource
  budget,    \* what is left of the bounds
  missed,    \* history: a message was dropped since the last snapshot
  dropped,   \* history: some message was dropped
  clearLost  \* history: the proxy was not told that its state is void

linkVars == <<link, snap, request, conns>>
cepVars  == <<peer, cep>>
history  == <<missed, dropped, clearLost>>
vars     == <<store, outCh, linkVars, cepVars, budget, history>>

UpdateOf(k, v) == [type |-> "update", key |-> k, val |-> v]
CacheClear   == [type |-> "cache_clear"]
Msg  == [type : {"update"}, key : Keys, val : Vals] \cup {CacheClear}
Conn == [msgs : Seq(Msg), open : BOOLEAN]

(* The connection of the link is the youngest, and the only open one. *)
Mine == Len(conns)

Init ==
  /\ store = [k \in Keys |-> None] /\ outCh = <<>>
  /\ link = "dialing" /\ snap = {} /\ request = FALSE /\ conns = <<>>
  /\ peer = "accepting" /\ cep = [s \in Slots |-> None]
  /\ budget = [updates |-> MaxUpdates, restarts |-> MaxRestarts, timeouts |-> MaxTimeouts]
  /\ missed = FALSE /\ dropped = FALSE /\ clearLost = FALSE

Spend(what) == /\ budget[what] > 0
               /\ budget' = [budget EXCEPT ![what] = @ - 1]

-----------------------------------------------------------------------------
(* The clock manager. *)

Full == Len(outCh) >= OutCap

(* The non-blocking send: a full channel drops the message. *)
push(m) == outCh' = IF Full THEN outCh ELSE Append(outCh, m)

(* Send of a value that differs from the stored one; others return early. *)
Send(k, v) ==
  /\ Spend("updates")
  /\ store[k] # v
  /\ store' = [store EXCEPT ![k] = v]
  /\ push(UpdateOf(k, v))
  /\ missed' = (missed \/ Full) /\ dropped' = (dropped \/ Full)
  /\ UNCHANGED <<linkVars, cepVars, clearLost>>

Clear ==
  /\ Spend("updates")
  /\ store' = [k \in Keys |-> None]
  /\ push(CacheClear)
  /\ clearLost' = (clearLost \/ Full)
  /\ UNCHANGED <<linkVars, cepVars, missed, dropped>>

-----------------------------------------------------------------------------
(* The link. *)

Dial ==
  /\ link = "dialing" /\ Len(conns) < MaxConns
  /\ conns' = Append(conns, [msgs |-> <<>>, open |-> TRUE])
  /\ link' = "serving" /\ snap' = {} /\ request' = FALSE
  /\ UNCHANGED <<store, outCh, cepVars, budget, history>>

(* serve returns and Run closes the connection; what is in the socket      *)
(* buffer stays readable for the proxy.                                    *)
hangUp ==
  /\ link' = "dialing" /\ snap' = {} /\ request' = FALSE
  /\ conns' = IF link = "serving" THEN [conns EXCEPT ![Mine].open = FALSE] ELSE conns

SocketFull == Len(conns[Mine].msgs) >= SockCap

write(m) ==
  /\ link = "serving" /\ ~SocketFull
  /\ conns' = [conns EXCEPT ![Mine].msgs = Append(@, m)]

(* A write fails when the peer is gone, or when the proxy does not read    *)
(* for linkWriteTimeout and the socket buffer is full.                     *)
writeFails ==
  /\ \/ link = "broken" /\ UNCHANGED budget
     \/ link = "serving" /\ SocketFull /\ Spend("timeouts")
  /\ hangUp

TransmitOut ==
  /\ snap = {} /\ outCh # <<>>
  /\ write(Head(outCh))
  /\ outCh' = Tail(outCh)
  /\ UNCHANGED <<store, link, snap, request, cepVars, budget, history>>

(* The message is off the channel and lost. *)
TransmitOutFails ==
  /\ snap = {} /\ outCh # <<>>
  /\ writeFails
  /\ outCh' = Tail(outCh)
  /\ clearLost' = (clearLost \/ Head(outCh) = CacheClear)
  /\ UNCHANGED <<store, cepVars, missed, dropped>>

(* A status_request: writeSnapshot copies the cache under its lock... *)
AnswerRequest ==
  /\ link = "serving" /\ request /\ snap = {}
  /\ request' = FALSE
  /\ snap' = {UpdateOf(k, store[k]) : k \in {k \in Keys : store[k] # None}}
  /\ missed' = FALSE
  /\ UNCHANGED <<store, outCh, link, conns, cepVars, budget, dropped, clearLost>>

(* ...and transmits the copies in map order, the channel waiting meanwhile. *)
WriteSnapshot ==
  \E m \in snap :
    /\ write(m)
    /\ snap' = snap \ {m}
    /\ UNCHANGED <<store, outCh, link, request, cepVars, budget, history>>

WriteSnapshotFails ==
  /\ snap # {}
  /\ writeFails
  /\ UNCHANGED <<store, outCh, cepVars, history>>

(* scan sees the end of the stream and closes statusCh. *)
PeerGone ==
  /\ link = "broken" /\ snap = {}
  /\ hangUp
  /\ UNCHANGED <<store, outCh, cepVars, budget, history>>

-----------------------------------------------------------------------------
(* The proxy. *)

(* Mutant: the proxy does not ask for the current state. *)
Accept_NoRequest ==
  /\ peer = "accepting" /\ conns # <<>>
  /\ conns[1].open
  /\ peer' = "reading"
  /\ UNCHANGED <<store, outCh, link, snap, conns, request, cep, budget, history>>

(* Accept and ask for the current state. *)
Accept ==
  /\ peer = "accepting" /\ conns # <<>>
  /\ conns[1].open
  /\ request' = TRUE
  /\ peer' = "reading"
  /\ UNCHANGED <<store, outCh, link, snap, conns, cep, budget, history>>

(* The request cannot be sent on a connection that the link has closed:    *)
(* the proxy closes it unread.                                             *)
AcceptFails ==
  /\ peer = "accepting" /\ conns # <<>>
  /\ ~conns[1].open
  /\ conns' = Tail(conns)
  /\ clearLost' = (clearLost \/ CacheClear \in ToSet(conns[1].msgs))
  /\ UNCHANGED <<store, outCh, link, snap, request, cepVars, budget, missed, dropped>>

(* Listen: cache_clear empties the event cache, anything else updates it. *)
Listen ==
  /\ peer = "reading" /\ conns[1].msgs # <<>>
  /\ LET m == Head(conns[1].msgs)
     IN  cep' = IF m = CacheClear THEN [s \in Slots |-> None]
                ELSE [cep EXCEPT ![SlotOf[m.key]] = m.val]
  /\ conns' = [conns EXCEPT ![1].msgs = Tail(@)]
  /\ UNCHANGED <<store, outCh, link, snap, request, peer, budget, history>>

(* Mutant: after the end of the stream the proxy listens on it again. *)
EndOfStream_Again ==
  /\ peer = "reading" /\ conns[1].msgs = <<>> /\ ~conns[1].open
  /\ UNCHANGED vars

(* The old connection is closed and the next one accepted. *)
EndOfStream ==
  /\ peer = "reading" /\ conns[1].msgs = <<>> /\ ~conns[1].open
  /\ conns' = Tail(conns)
  /\ peer' = "accepting"
  /\ UNCHANGED <<store, outCh, link, snap, request, cep, budget, history>>

(* Restarts: each side keeps its state in memory only. *)
ProxyRestart ==
  /\ Spend("restarts")
  /\ cep' = [s \in Slots |-> None] /\ peer' = "accepting" /\ conns' = <<>>
  /\ link' = IF link = "serving" THEN "broken" ELSE link
  /\ request' = FALSE
  /\ UNCHANGED <<store, outCh, snap, history>>

DaemonRestart ==
  /\ Spend("restarts")
  /\ store' = [k \in Keys |-> None] /\ outCh' = <<>>
  /\ clearLost' = \/ clearLost \/ CacheClear \in ToSet(outCh)
                  \/ \E k \in Keys : store[k] # None
  /\ hangUp
  /\ UNCHANGED <<cepVars, missed, dropped>>

-----------------------------------------------------------------------------
LinkStep  == \/ Dial \/ TransmitOut \/ TransmitOutFails \/ AnswerRequest
             \/ WriteSnapshot \/ WriteSnapshotFails \/ PeerGone
ProxyStep == Accept \/ AcceptFails \/ Listen \/ EndOfStream

Next ==
  \/ \E k \in Keys, v \in Vals : Send(k, v)
  \/ Clear
  \/ Dial
  \/ TransmitOut
  \/ TransmitOutFails
  \/ AnswerRequest
  \/ WriteSnapshot
  \/ WriteSnapshotFails
  \/ PeerGone
  \/ Accept
  \/ AcceptFails
  \/ Listen
  \/ EndOfStream
  \/ ProxyRestart
  \/ DaemonRestart

Spec == Init /\ [][Next]_vars

(* The link goroutine and the proxy's accept loop keep running; serve's    *)
(* select is fair between a request that waits and a channel that is never *)
(* empty.                                                                  *)
FairSpec == /\ Spec
            /\ WF_vars(LinkStep) /\ WF_vars(ProxyStep)
            /\ SF_vars(AnswerRequest)

-----------------------------------------------------------------------------
(* Types, and the shape of the backlog: only the youngest connection is    *)
(* open, and it is the link's.                                             *)
TypeOK ==
  /\ store \in [Keys -> Vals \cup {None}]
  /\ outCh \in Seq(Msg) /\ Len(outCh) <= OutCap
  /\ link \in {"dialing", "serving", "broken"}
  /\ snap \subseteq [type : {"update"}, key : Keys, val : Vals]
  /\ request \in BOOLEAN
  /\ conns \in Seq(Conn) /\ Len(conns) <= MaxConns
  /\ \A n \in 1..Len(conns) : conns[n].open <=> (n = Mine /\ link = "serving")
  /\ peer \in {"accepting", "reading"} /\ (peer = "reading" => conns # <<>>)
  /\ cep \in [Slots -> Vals \cup {None}]
  /\ budget \in [{"updates", "restarts", "timeouts"} -> Nat]
  /\ missed \in BOOLEAN /\ dropped \in BOOLEAN /\ clearLost \in BOOLEAN

(* Nothing is on its way from the cache to the proxy. *)
Settled ==
  /\ outCh = <<>> /\ snap = {} /\ ~request
  /\ link = "serving" /\ peer = "reading" /\ Len(conns) = 1 /\ conns[1].msgs = <<>>

(* The proxy shows what the cache holds: for every resource the value of   *)
(* one of its keys, and nothing where the cache has nothing.               *)
Agree ==
  \A s \in Slots :
    LET held == {store[k] : k \in {k \in Keys : SlotOf[k] = s}} \ {None}
    IN  IF held = {} THEN cep[s] = None ELSE cep[s] \in held

(* As long as no message was dropped at a full channel and no cache_clear  *)
(* was lost, everything on its way having arrived means that the proxy is  *)
(* up to date: across write timeouts, connections closed with unread data, *)
(* snapshots that overlap updates and clears, and restarts of the proxy.   *)
(* A lost cache_clear is excluded because nothing repeats it: a snapshot   *)
(* only adds entries, and the proxy keeps its own across reconnects.       *)
UpToDate == Settled /\ ~dropped /\ ~clearLost => Agree

(* Whatever happens, link and proxy end up connected with nothing on its   *)
(* way: neither waits for the other on a dead connection.                  *)
Settles == <>[]Settled

(* A full channel loses nothing for good: "when it comes back up it will   *)
(* request a snapshot, and will receive the missed event" (cache.go).      *)
MissedIsRepaired == Settled /\ ~missed /\ ~clearLost => Agree
=============================================================================
