----------------------------- MODULE EventCache -----------------------------
(***************************************************************************)
(* The events of the daemon's cloud-event proxy (pkg/cep/event_cache.go    *)
(* and cep.go): one event per message type, whose data values are updated  *)
(* from the messages of the link (pkg/ipc/ipc.go), published to the        *)
(* subscribers of its source and answered to a CurrentState request.       *)
(*                                                                         *)
(* A message that names an interface sets the data values of that          *)
(* interface's resource, one that names none replaces all.  The reader of  *)
(* the link updates the cache under its lock and then posts the copy to    *)
(* the subscribers one by one; a post may fail or time out.                *)
(***************************************************************************)
EXTENDS Naturals, Sequences

CONSTANTS
  MsgTypeSets,   \* the sets of message types to explore together
  IFacesOf,      \* per type the interfaces its messages name, "" for none
  Levels,        \* values of a state, an offset, a class or a quality level
  Subscribers,
  NoEvent        \* no entry, and nothing heard

(* A data value of an event: its resource (an interface, or none, and the  *)
(* last part of its address), its data type and its value.                 *)
IFaces == {""} \cup UNION {IFacesOf[t] : t \in DOMAIN IFacesOf}
Parts == {"", "master", "clock-class", "CLOCK_REALTIME", "sync-state", "gpsFix", "Ql", "extQl"}
DataValues == [res : IFaces \X Parts, kind : {"notification", "metric"}, val : Levels \cup {0}]

(* The two states of the node have a resource without an interface: their  *)
(* messages all name none, or all CLOCK_REALTIME.                          *)
ASSUME EventCacheAssumption ==
  /\ \A T \in MsgTypeSets : T \subseteq DOMAIN IFacesOf
  /\ NoEvent \notin Seq(DataValues) /\ NoEvent \notin Levels \X Levels
  /\ \A t \in DOMAIN IFacesOf \cap {"os_clock_state", "sync_state"} :
        \A f, g \in IFacesOf[t] : f = g

VARIABLES
  entries,   \* per type the data values of its event, or NoEvent
  posts,     \* the publication under way: [type, values, to]
  heard,     \* per subscriber and type the last event received
  latest,    \* history: per type and resource the last values sent
  stale      \* history: subscriber/type pairs whose last post failed

MsgTypes == DOMAIN entries
eventVars == <<entries, posts, heard, latest, stale>>

(* StateValue and SyncEClockQualityValue hold two values: a state and an   *)
(* offset, a quality level and the extended one.                           *)
TwoValues == {"ptp_state", "os_clock_state", "synce_clock_quality"}

(* What the messages of a type carry, as UnmarshalJSON decodes it. *)
Payloads(t) == IF t \in TwoValues THEN Levels \X Levels ELSE {<<v, v>> : v \in Levels}

(* The types the O-RAN interface knows; others are ignored. *)
oranMapping == {"ptp_state", "os_clock_state", "clock_class", "gnss_state", "synce_state",
                "synce_clock_quality", "sync_state"}

(* The last part of the resource and whether it holds the interface. *)
buildResourceAddress(t, iface) ==
  CASE t \in {"ptp_state", "gnss_state"} -> <<iface, "master">>
    [] t = "clock_class" -> <<iface, "clock-class">>
    [] t = "os_clock_state" -> <<"", "CLOCK_REALTIME">>
    [] t = "sync_state" -> <<"", "sync-state">>
    [] OTHER -> <<iface, "">>

DataValue(res, kind, v) == [res |-> res, kind |-> kind, val |-> v]
buildDataValues(t, res, v) ==
  CASE t \in {"ptp_state", "os_clock_state"} ->
         <<DataValue(res, "notification", v[1]), DataValue(res, "metric", v[2])>>
    [] t = "gnss_state" ->
         <<DataValue(res, "notification", v[1]), DataValue(res, "metric", 0),
           DataValue(<<res[1], "gpsFix">>, "metric", 0)>>
    [] t = "sync_state" -> <<DataValue(res, "notification", v[1])>>
    [] t = "synce_clock_quality" ->
         <<DataValue(<<res[1], "Ql">>, "metric", v[1]), DataValue(<<res[1], "extQl">>, "metric", v[2])>>
    [] OTHER -> <<DataValue(res, "metric", v[1])>>

(* The value of the same resource and data type is replaced. *)
setDataValue(values, dv) ==
  LET same == {n \in 1..Len(values) : values[n].res = dv.res /\ values[n].kind = dv.kind}
  IN IF same = {} THEN Append(values, dv)
     ELSE [values EXCEPT ![CHOOSE n \in same : \A m \in same : n <= m] = dv]

(* A message has one to three data values, which are set one by one. *)
setDataValues(values, dvs) ==
  LET first == setDataValue(values, dvs[1])
      second == setDataValue(first, dvs[2])
  IN CASE Len(dvs) = 1 -> first
       [] Len(dvs) = 2 -> second
       [] OTHER -> setDataValue(second, dvs[3])

Updated(old, iface, dvs) ==
  IF iface = "" THEN dvs ELSE setDataValues(IF old = NoEvent THEN <<>> ELSE old, dvs)

(* Mutant: the last data value alone decides whether the event changed. *)
Changed_LastValue(old, new, dvs) ==
  old = NoEvent \/ dvs[Len(dvs)] \notin {old[n] : n \in 1..Len(old)}
(* Only an event that changed is published. *)
Changed(old, new, dvs) == old = NoEvent \/ new # old

-----------------------------------------------------------------------------
Reading == posts.to = {}

(* Listen for an update: EventCache.Update, then getTargets of Publish. *)
Update(t, iface, v) ==
  LET dvs == buildDataValues(t, buildResourceAddress(t, iface), v)
      new == Updated(entries[t], iface, dvs)
  IN /\ Reading /\ t \in oranMapping
     /\ entries' = [entries EXCEPT ![t] = new]
     /\ posts' = IF Changed(entries[t], new, dvs)
                 THEN [type |-> t, values |-> new, to |-> DOMAIN heard] ELSE posts
     /\ latest' = [latest EXCEPT ![t] =
          [f \in DOMAIN @ |-> IF f = iface THEN v ELSE IF iface = "" THEN NoEvent ELSE @[f]]]
     /\ UNCHANGED <<heard, stale>>

(* cache_clear: the entries go, the subscribers are not told. *)
ClearEvents ==
  /\ Reading
  /\ entries' = [t \in MsgTypes |-> NoEvent]
  /\ latest' = [t \in MsgTypes |-> [f \in IFacesOf[t] |-> NoEvent]]
  /\ UNCHANGED <<posts, heard, stale>>

(* One post of httpWriter.Write, to a subscriber that may have left since. *)
Post(s) ==
  /\ s \in posts.to /\ posts' = [posts EXCEPT !.to = @ \ {s}]
  /\ IF s \in DOMAIN heard
     THEN /\ heard' = [heard EXCEPT ![s][posts.type] = posts.values]
          /\ stale' = stale \ {<<s, posts.type>>}
     ELSE UNCHANGED <<heard, stale>>
  /\ UNCHANGED <<entries, latest>>
PostFails(s) ==
  /\ s \in posts.to /\ posts' = [posts EXCEPT !.to = @ \ {s}]
  /\ stale' = IF s \in DOMAIN heard THEN stale \cup {<<s, posts.type>>} ELSE stale
  /\ UNCHANGED <<entries, heard, latest>>

(* The REST handlers run beside the reader.  A new subscriber hears the    *)
(* next change.                                                            *)
handleCreateSubscription(s) ==
  /\ s \notin DOMAIN heard
  /\ heard' = [x \in DOMAIN heard \cup {s} |-> IF x = s THEN [t \in MsgTypes |-> NoEvent] ELSE heard[x]]
  /\ UNCHANGED <<entries, posts, latest, stale>>
handleDeleteSubscriptionByID(s) ==
  /\ s \in DOMAIN heard
  /\ heard' = [x \in DOMAIN heard \ {s} |-> heard[x]]
  /\ stale' = {p \in stale : p[1] # s}
  /\ UNCHANGED <<entries, posts, latest>>
handleDeleteSubscriptions ==
  /\ heard # << >> /\ heard' = << >> /\ stale' = {}
  /\ UNCHANGED <<entries, posts, latest>>
GetBySource(t) == entries[t]
(* The answer to a CurrentState request: a copy of the event, or not found. *)
currentStateHandler(t) == GetBySource(t)

EventInit ==
  /\ entries \in {[t \in T |-> NoEvent] : T \in MsgTypeSets}
  /\ posts = [type |-> "", values |-> <<>>, to |-> {}]
  /\ heard = << >>
  /\ latest = [t \in MsgTypes |-> [f \in IFacesOf[t] |-> NoEvent]]
  /\ stale = {}

EventNext ==
  \/ \E t \in MsgTypes : \E f \in IFacesOf[t], v \in Payloads(t) : Update(t, f, v)
  \/ ClearEvents
  \/ \E s \in Subscribers : \/ Post(s) \/ PostFails(s)
                            \/ handleCreateSubscription(s) \/ handleDeleteSubscriptionByID(s)
  \/ handleDeleteSubscriptions

EventSpec == EventInit /\ [][EventNext]_eventVars
-----------------------------------------------------------------------------
(* Pushed and pulled states agree: once the reader is idle, the last event *)
(* a subscriber received of a type is the one a CurrentState request would *)
(* be answered with, unless a post to it failed since: no change of one of *)
(* several data values goes by unpublished (Update, setDataValue).         *)
HeardIsCurrent ==
  Reading => \A s \in DOMAIN heard, t \in MsgTypes :
               (currentStateHandler(t) # NoEvent /\ heard[s][t] # NoEvent /\ <<s, t>> \notin stale)
               => heard[s][t] = currentStateHandler(t)

(* An event holds, for every interface heard of since the cache was        *)
(* cleared or a message without one replaced them, exactly the data values *)
(* of that interface's last message: no value is mixed with that of an     *)
(* older message, another interface or another data type.                  *)
EventHoldsLatest ==
  \A t \in MsgTypes : entries[t] # NoEvent =>
     /\ {entries[t][n] : n \in 1..Len(entries[t])} =
          UNION {LET dvs == buildDataValues(t, buildResourceAddress(t, f), latest[t][f])
                 IN {dvs[n] : n \in 1..Len(dvs)} :
                   f \in {g \in IFacesOf[t] : latest[t][g] # NoEvent}}
     /\ \A m, n \in 1..Len(entries[t]) : m # n =>
           <<entries[t][m].res, entries[t][m].kind>> # <<entries[t][n].res, entries[t][n].kind>>

(* Both: what a subscriber heard last is what the last messages of the     *)
(* daemon say, value by value.                                             *)
EventsCurrent == HeardIsCurrent /\ EventHoldsLatest
=============================================================================
