-------------------------- MODULE SubscriptionStore --------------------------
(***************************************************************************)
(* The subscription store of the cloud-event proxy (pkg/cep/pubsub.go and  *)
(* the REST handlers of pkg/cep/cep.go): slots that are reused through a   *)
(* free list, an index by resource, and a file that every change rewrites  *)
(* through a temporary file.  The proxy may crash at any point.            *)
(*                                                                         *)
(* Every operation holds the mutex until its save is over, so operations   *)
(* do not interleave; a Publish takes its targets under the lock and       *)
(* writes to them without it.  Identifiers are UUIDs: never used twice.    *)
(***************************************************************************)
EXTENDS Naturals, Sequences, FiniteSets, Sublists

CONSTANTS Resources, MaxIds   \* MaxIds bounds the subscriptions ever made

ASSUME StoreAssumption == MaxIds \in Nat

VARIABLES
  subs,     \* slots: [id, res], with id 0 for an inactive one
  free,     \* indices of free slots, a stack
  index,    \* resourceIndex: per resource a sequence of slots
  file,     \* records of storePath
  tmp,      \* records of the temporary file, or "partial"
  saving,   \* "idle", "write", "rename": how far the save has come
  ids,      \* identifiers handed out
  saved,    \* the last save has succeeded
  told      \* subscribers a Publish under way has still to write to

storeVars == <<subs, free, index, file, tmp, saving, ids, saved, told>>

StoreInit ==
  /\ subs = <<>> /\ free = <<>> /\ index = [r \in Resources |-> <<>>]
  /\ file = <<>> /\ tmp = <<>> /\ saving = "idle" /\ ids = 0 /\ saved = TRUE /\ told = {}

Inactive == [id |-> 0, res |-> "none"]

Active(s) == {n \in 1..Len(s) : s[n].id # 0}

(* The records save writes: the active slots in their order. *)
Records(s) == SelectIn(s, {s[n] : n \in Active(s)})

-----------------------------------------------------------------------------
Subscribe(r) ==
  LET new == [id |-> ids + 1, res |-> r]
      idx == IF free # <<>> THEN free[Len(free)] ELSE Len(subs) + 1
  IN  /\ saving = "idle" /\ ids < MaxIds
      /\ ids' = ids + 1
      /\ free' = IF free # <<>> THEN SubSeq(free, 1, Len(free) - 1) ELSE free
      /\ subs' = IF free # <<>> THEN [subs EXCEPT ![idx] = new] ELSE Append(subs, new)
      /\ index' = [index EXCEPT ![r] = Append(@, idx)]
      /\ saving' = "write"
      /\ UNCHANGED <<file, tmp, saved, told>>

(* The last index takes the place of the removed one. *)
SwapRemove(s, idx) ==
  LET at == CHOOSE n \in 1..Len(s) : s[n] = idx
  IN  SubSeq([s EXCEPT ![at] = s[Len(s)]], 1, Len(s) - 1)

Unsubscribe(idx) ==
  /\ saving = "idle"
  /\ subs' = [subs EXCEPT ![idx] = Inactive]
  /\ free' = Append(free, idx)
  /\ index' = [index EXCEPT ![subs[idx].res] = SwapRemove(@, idx)]
  /\ saving' = "write"
  /\ UNCHANGED <<file, tmp, ids, saved, told>>

UnsubscribeAll ==
  /\ saving = "idle" /\ subs # <<>>
  /\ subs' = <<>> /\ free' = <<>> /\ index' = [r \in Resources |-> <<>>]
  /\ saving' = "write"
  /\ UNCHANGED <<file, tmp, ids, saved, told>>

(* save: the temporary file is written, in part when the proxy crashes or  *)
(* the disk is full, ...                                                   *)
SaveTmp(ok) ==
  /\ saving = "write"
  /\ tmp' = IF ok THEN Records(subs) ELSE <<[id |-> 0, res |-> "partial"]>>
  /\ saving' = IF ok THEN "rename" ELSE "idle"
  /\ saved' = FALSE
  /\ UNCHANGED <<subs, free, index, file, ids, told>>

(* Mutant: the file itself is written, not renamed. *)
SaveRename_InPlace ==
  /\ saving = "rename"
  /\ file' = IF saved THEN tmp ELSE <<[id |-> 0, res |-> "partial"]>>
  /\ saving' = IF saved THEN "idle" ELSE "rename"
  /\ saved' = TRUE
  /\ UNCHANGED <<subs, free, index, tmp, ids, told>>

(* ... and takes the place of the file in one step. *)
SaveRename ==
  /\ saving = "rename"
  /\ file' = tmp /\ saved' = TRUE /\ saving' = "idle"
  /\ UNCHANGED <<subs, free, index, tmp, ids, told>>

(* LoadFromDisk: the slots are the records of the file, in order. *)
Load ==
  /\ subs' = file /\ free' = <<>>
  /\ index' = [r \in Resources |->
                 SelectIn([n \in 1..Len(file) |-> n], {n \in 1..Len(file) : file[n].res = r})]

(* The proxy crashes, also within a save, and starts again. *)
CrashRestart ==
  /\ saving # "idle" \/ subs # file
  /\ Load
  /\ saving' = "idle" /\ saved' = TRUE /\ told' = {}
  /\ UNCHANGED <<file, tmp, ids>>

(* Publish: getTargets under the lock ... *)
Publish(r) ==
  /\ saving = "idle" /\ told = {}
  /\ told' = {subs[index[r][n]].id : n \in 1..Len(index[r])}
  /\ UNCHANGED <<subs, free, index, file, tmp, saving, ids, saved>>

(* ... and the writes without it. *)
Delivered(id) ==
  /\ told' = told \ {id}
  /\ UNCHANGED <<subs, free, index, file, tmp, saving, ids, saved>>

-----------------------------------------------------------------------------
StoreNext ==
  \/ \E r \in Resources : Subscribe(r)
  \/ \E n \in Active(subs) : Unsubscribe(n)
  \/ UnsubscribeAll
  \/ \E ok \in BOOLEAN : SaveTmp(ok)
  \/ SaveRename
  \/ CrashRestart
  \/ \E r \in Resources : Publish(r)
  \/ \E id \in told : Delivered(id)

StoreSpec == StoreInit /\ [][StoreNext]_storeVars

-----------------------------------------------------------------------------
(* After any sequence of calls and restarts the free list, the slots and   *)
(* the index agree: a free slot is inactive and listed once, every active  *)
(* slot is found exactly once, under its own resource (Subscribe,          *)
(* Unsubscribe).  A Publish then reaches every subscriber of the resource  *)
(* and no other.                                                           *)
SlotsAgree ==
  /\ \A m, n \in 1..Len(free) : m # n => free[m] # free[n]
  /\ {free[n] : n \in 1..Len(free)} = (1..Len(subs)) \ Active(subs)
  /\ \A r \in Resources :
       /\ {index[r][n] : n \in 1..Len(index[r])} = {n \in Active(subs) : subs[n].res = r}
       /\ \A m, n \in 1..Len(index[r]) : m # n => index[r][m] # index[r][n]

(* The file is always a whole set of subscriptions, the one before or      *)
(* after the operation under way, and what has been saved is found again   *)
(* after a crash: "rename to avoid corrupting subscriptions.json on a      *)
(* crash mid-write" (save).                                                *)
FileWhole ==
  /\ \A n \in 1..Len(file) : file[n].id \in 1..ids
  /\ (saving = "idle" /\ saved) => file = Records(subs)

(* Both, in memory and on disk: no sequence of calls, failed saves and     *)
(* crashes loses a subscription that was saved or hands an event to one    *)
(* that is gone.                                                           *)
SubscriptionsKept == SlotsAgree /\ FileWhole
=============================================================================
