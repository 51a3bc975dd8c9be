----------------------------- MODULE SyncQueue -----------------------------
(***************************************************************************)
(* The offline queue of the app (src/mobile/src/offline/sync-queue.ts over *)
(* sqlite-store.ts) and the batch-sync endpoint it sends to.               *)
(*                                                                         *)
(* A call of flushQueue is a slot of `flush'; nothing in the code keeps    *)
(* two of them from overlapping.  Every `await' ends a step.  The table    *)
(* survives a kill of the app, the flushes do not.  Items are numbered in  *)
(* the order they are enqueued.  The loops over a batch take its items in  *)
(* any order.                                                              *)
(***************************************************************************)
EXTENDS Naturals, FiniteSets

CONSTANTS Items,       \* the items that can be enqueued, by age
          Flushes,     \* the calls of flushQueue that can overlap
          BatchSize,   \* BATCH_SIZE
          Fallback,    \* TRUE: SQLite did not open, the MMKV list is used
          MaxOutages   \* bound: requests broken off and kills of the app

ASSUME ConstantsAssumption ==
  /\ Items \subseteq Nat
  /\ BatchSize \in Nat \ {0}
  /\ Fallback \in BOOLEAN
  /\ MaxOutages \in Nat

VARIABLES
  row,      \* the status of the item's row in sync_queue, or "absent"
  queued,   \* the items enqueued so far
  expired,  \* those older than MAX_QUEUE_AGE_DAYS
  stored,   \* those the server has stored
  net,      \* items of broken-off requests the server may still process
  flush,    \* the flush in each slot
  outages,  \* broken-off requests and kills so far
  purged    \* history: the items deleted for their age

vars == <<row, queued, expired, stored, net, flush, outages, purged>>

PC == {"idle", "purge", "list", "next", "wait", "settle", "park", "retry"}
Flush == [pc : PC, todo : SUBSET Items, batch : SUBSET Items,
          served : SUBSET Items, failed : SUBSET Items, dead : SUBSET Items]

(* `todo' are the items listed and not yet sent, `dead' those listed with  *)
(* the status dead, `served' and `failed' what the server did with the     *)
(* batch so far.                                                           *)
Slot(pc, todo, batch, served, failed, dead) ==
  [pc |-> pc, todo |-> todo, batch |-> batch,
   served |-> served, failed |-> failed, dead |-> dead]
Idle == Slot("idle", {}, {}, {}, {}, {})

TypeOK ==
  /\ row \in [Items -> {"absent", "pending", "dead"}]
  /\ queued \subseteq Items
  /\ expired \subseteq queued
  /\ stored \subseteq queued
  /\ net \subseteq Items
  /\ flush \in [Flushes -> Flush]
  /\ outages \in 0 .. MaxOutages
  /\ purged \subseteq expired

Init ==
  /\ row = [i \in Items |-> "absent"]
  /\ queued = {}
  /\ expired = {}
  /\ stored = {}
  /\ net = {}
  /\ flush = [f \in Flushes |-> Idle]
  /\ outages = 0
  /\ purged = {}

At(f, p) == flush[f].pc = p
Keep(f, slot) == flush' = [flush EXCEPT ![f] = slot]
(* The flush goes to p with b left of its batch. *)
Goto(f, p, b) ==
  Keep(f, Slot(p, flush[f].todo, b, flush[f].served, flush[f].failed,
               flush[f].dead))
(* One item of the batch is dealt with, the last one ends the batch. *)
Tick(f, i) ==
  Goto(f, IF flush[f].batch = {i} THEN "next" ELSE flush[f].pc,
       flush[f].batch \ {i})

-----------------------------------------------------------------------------
(* Plausible slips, used only to show that the properties notice them. *)
FlushStartPurgesAll(f) ==
  /\ At(f, "idle")
  /\ LET old == {i \in Items : row[i] = "pending"} IN
       Keep(f, Slot(IF old = {} THEN "list" ELSE "purge",
                    {}, old, {}, {}, {}))
  /\ UNCHANGED <<row, queued, expired, stored, net, outages, purged>>
FlushSendsAgain(f, B) ==
  /\ At(f, "next")
  /\ B # {} /\ B \subseteq flush[f].todo /\ Cardinality(B) <= BatchSize
  /\ Keep(f, Slot("wait", flush[f].todo, B, {}, {}, flush[f].dead))
  /\ UNCHANGED <<row, queued, expired, stored, net, outages, purged>>
ParkForgets(f, i) ==
  /\ At(f, "park")
  /\ i \in flush[f].batch
  /\ Tick(f, i)
  /\ UNCHANGED <<row, queued, expired, stored, net, outages, purged>>

-----------------------------------------------------------------------------
(* listSyncItems: the fallback list gives its dead items too when pending  *)
(* ones are asked for.                                                     *)
Listed(s) ==
  {i \in Items : row[i] = s \/ (Fallback /\ s = "pending" /\ row[i] = "dead")}

(* upsertSyncItem and deleteSyncItems.  The fallback list keeps in the     *)
(* copy of an item, and so writes back, the status it was listed with.     *)
Upsert(i, s) == row' = [row EXCEPT ![i] = s]
Delete(S) == row' = [i \in Items |-> IF i \in S THEN "absent" ELSE row[i]]
RetryStatus(f, i) ==
  IF Fallback /\ i \in flush[f].dead THEN "dead" ELSE "pending"

Enqueue(i) ==
  /\ i \notin queued
  /\ \A j \in Items : j < i => j \in queued
  /\ queued' = queued \union {i}
  /\ Upsert(i, "pending")
  /\ UNCHANGED <<expired, stored, net, flush, outages, purged>>

(* Thirty days go by. *)
Expire(i) ==
  /\ i \in queued
  /\ expired' = expired \union {i}
  /\ UNCHANGED <<row, queued, stored, net, flush, outages, purged>>

-----------------------------------------------------------------------------
(* flushQueue, purgeExpired first: the rows are read, those too old        *)
(* deleted.                                                                *)
FlushStart(f) ==
  /\ At(f, "idle")
  /\ LET old == Listed("pending") \intersect expired IN
       Keep(f, Slot(IF old = {} THEN "list" ELSE "purge",
                    {}, old, {}, {}, {}))
  /\ UNCHANGED <<row, queued, expired, stored, net, outages, purged>>

PurgeDelete(f) ==
  /\ At(f, "purge")
  /\ Delete(flush[f].batch)
  /\ purged' = purged \union flush[f].batch
  /\ Keep(f, Slot("list", {}, {}, {}, {}, {}))
  /\ UNCHANGED <<queued, expired, stored, net, outages>>

FlushList(f) ==
  /\ At(f, "list")
  /\ LET todo == Listed("pending") IN
       IF todo = {} THEN Keep(f, Idle)
       ELSE Keep(f, Slot("next", todo, {}, {}, {},
                         {i \in todo : row[i] = "dead"}))
  /\ UNCHANGED <<row, queued, expired, stored, net, outages, purged>>

(* The next slice of the list: the oldest items of the table, or the next  *)
(* ones of the fallback list, which has the order of its last writes.      *)
Slice(B, todo) ==
  /\ B # {} /\ B \subseteq todo
  /\ B = todo \/ Cardinality(B) = BatchSize
  /\ Cardinality(B) <= BatchSize
  /\ Fallback \/ \A i \in B, j \in todo \ B : i < j

FlushSend(f, B) ==
  /\ At(f, "next")
  /\ Slice(B, flush[f].todo)
  /\ Keep(f, Slot("wait", flush[f].todo \ B, B, {}, {}, flush[f].dead))
  /\ UNCHANGED <<row, queued, expired, stored, net, outages, purged>>

FlushDone(f) ==
  /\ At(f, "next")
  /\ flush[f].todo = {}
  /\ Keep(f, Idle)
  /\ UNCHANGED <<row, queued, expired, stored, net, outages, purged>>

-----------------------------------------------------------------------------
(* The server: batchSync handles one session after the other and collects  *)
(* those that fail, before or after their row is written (a gate attempt   *)
(* or the fluency may fail after it); the route refuses a request before   *)
(* that (401, 400 on the schema, 403 on one foreign student, 429).         *)
Unserved(f) == flush[f].batch \ (flush[f].served \union flush[f].failed)

ServerStores(f, i) ==
  /\ At(f, "wait")
  /\ i \in Unserved(f)
  /\ stored' = stored \union {i}
  /\ Keep(f, Slot("wait", flush[f].todo, flush[f].batch,
                  flush[f].served \union {i}, flush[f].failed, flush[f].dead))
  /\ UNCHANGED <<row, queued, expired, net, outages, purged>>

ServerFails(f, i) ==
  /\ At(f, "wait")
  /\ i \in Unserved(f)
  /\ Keep(f, Slot("wait", flush[f].todo, flush[f].batch,
                  flush[f].served, flush[f].failed \union {i}, flush[f].dead))
  /\ stored' \in {stored, stored \union {i}}
  /\ UNCHANGED <<row, queued, expired, net, outages, purged>>

(* A request the app gave up on is still processed. *)
LateStore(i) ==
  /\ i \in net
  /\ stored' = stored \union {i}
  /\ net' = net \ {i}
  /\ UNCHANGED <<row, queued, expired, flush, outages, purged>>

(* How syncFn ends: with an answer, with a 4xx, with anything else. *)
Answered(f) ==
  /\ At(f, "wait")
  /\ Unserved(f) = {}
  /\ Goto(f, "settle", flush[f].batch)
  /\ UNCHANGED <<row, queued, expired, stored, net, outages, purged>>

Rejected(f) ==
  /\ At(f, "wait")
  /\ Unserved(f) = flush[f].batch
  /\ Goto(f, "park", flush[f].batch)
  /\ UNCHANGED <<row, queued, expired, stored, net, outages, purged>>

Broken(f) ==
  /\ At(f, "wait")
  /\ outages < MaxOutages
  /\ outages' = outages + 1
  /\ net' = net \union Unserved(f)
  /\ Goto(f, "retry", flush[f].batch)
  /\ UNCHANGED <<row, queued, expired, stored, purged>>

-----------------------------------------------------------------------------
(* After an answer the failed items become dead, then the others are       *)
(* deleted.                                                                *)
FailedOf(f) == flush[f].failed \intersect flush[f].batch

SettleFailed(f, i) ==
  /\ At(f, "settle")
  /\ i \in FailedOf(f)
  /\ Upsert(i, "dead")
  /\ Goto(f, "settle", flush[f].batch \ {i})
  /\ UNCHANGED <<queued, expired, stored, net, outages, purged>>

SettleDelete(f) ==
  /\ At(f, "settle")
  /\ FailedOf(f) = {}
  /\ Delete(flush[f].batch)
  /\ Goto(f, "next", {})
  /\ UNCHANGED <<queued, expired, stored, net, outages, purged>>

(* After a 4xx every item of the batch becomes dead. *)
Park(f, i) ==
  /\ At(f, "park")
  /\ i \in flush[f].batch
  /\ Upsert(i, "dead")
  /\ Tick(f, i)
  /\ UNCHANGED <<queued, expired, stored, net, outages, purged>>

(* After a 5xx or a network error every item is written back. *)
Retry(f, i) ==
  /\ At(f, "retry")
  /\ i \in flush[f].batch
  /\ Upsert(i, RetryStatus(f, i))
  /\ Tick(f, i)
  /\ UNCHANGED <<queued, expired, stored, net, outages, purged>>

(* The app is killed: its requests are out, its flushes gone. *)
Crash ==
  /\ outages < MaxOutages
  /\ outages' = outages + 1
  /\ net' = net \union UNION {Unserved(f) : f \in {g \in Flushes : At(g, "wait")}}
  /\ flush' = [f \in Flushes |-> Idle]
  /\ UNCHANGED <<row, queued, expired, stored, purged>>

-----------------------------------------------------------------------------
(* A flush that was started, and the server that answers it.               *)
Progress(f) ==
  \/ PurgeDelete(f) \/ FlushList(f) \/ FlushDone(f)
  \/ \E B \in SUBSET Items : FlushSend(f, B)
  \/ \E i \in Items : \/ ServerStores(f, i) \/ ServerFails(f, i)
                      \/ SettleFailed(f, i) \/ Park(f, i) \/ Retry(f, i)
  \/ Answered(f) \/ Rejected(f) \/ SettleDelete(f)

Next ==
  \/ \E f \in Flushes : FlushStart(f) \/ Progress(f) \/ Broken(f)
  \/ \E i \in Items : Enqueue(i) \/ Expire(i) \/ LateStore(i)
  \/ Crash

Spec == Init /\ [][Next]_vars

(* The code of a flush runs on, and the server answers unless the request  *)
(* is broken off.  Nothing says that another flush is ever started.        *)
FairSpec == Spec /\ \A f \in Flushes : WF_vars(Progress(f))

-----------------------------------------------------------------------------
(* An item of the queue never vanishes: its row is there until the server  *)
(* has the item or it was deleted for its age, whatever overlaps, breaks   *)
(* off or is killed between the answer and the deletion.                   *)
NothingLost ==
  \A i \in queued : row[i] # "absent" \/ i \in stored \union purged

(* The queue implements the outbox. *)
Box == INSTANCE Outbox WITH
         accepted <- queued,
         held <- {i \in Items : row[i] # "absent"},
         delivered <- stored, aged <- expired, dropped <- purged
OutboxSpec == Box!Spec

(* A flush that listed an item has settled it when it lets it go: it marks *)
(* or deletes the row in the same step (sync-queue.ts:97-112), unless the  *)
(* request broke off or the app was killed.  So the slices of the list     *)
(* skip no item and the outcomes of a batch forget none.                   *)
InHand(f) == flush[f].todo \union flush[f].batch
ListedIsSettled ==
  [][\A f \in Flushes : \A i \in InHand(f) \ InHand(f)' :
       row'[i] # "pending" \/ At(f, "retry") \/ Crash]_vars

(* A flush that is started ends, and by then every item it listed is       *)
(* delivered, dead or purged, unless in the meantime a request broke off   *)
(* or the app was killed: the loop over the slices (sync-queue.ts:89-121)  *)
(* leaves none out and repeats none forever.                               *)
EveryFlushSettles ==
  \A f \in Flushes, i \in Items, n \in 0 .. MaxOutages :
    i \in flush[f].todo /\ outages = n
      ~> (At(f, "idle") /\ row[i] # "pending") \/ outages # n

=============================================================================
