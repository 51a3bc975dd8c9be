-------------------------- MODULE SyncQueueProofs --------------------------
(***************************************************************************)
(* Proofs about SyncQueue for every set of items, any number of            *)
(* overlapping flushes, every batch size, both stores and any number of    *)
(* outages: no item is lost, and the queue implements Outbox.              *)
(***************************************************************************)
EXTENDS SyncQueue, TLAPS

(* What a flush remembers is true of the items: it holds only queued       *)
(* items, what it is about to purge is too old, what it takes for served   *)
(* is stored, and once answered its batch is served or failed.             *)
SlotOK(s, q, e, st) ==
  /\ s \in Flush
  /\ s.todo \subseteq q
  /\ s.batch \subseteq q
  /\ s.pc = "purge" => s.batch \subseteq e
  /\ s.pc \in {"wait", "settle"} => s.served \subseteq st
  /\ s.pc = "settle" => s.batch \subseteq s.served \union s.failed
SlotsOK == \A f \in Flushes : SlotOK(flush[f], queued, expired, stored)
RowsQueued == \A i \in Items : row[i] # "absent" => i \in queued

IInv ==
  /\ TypeOK
  /\ RowsQueued
  /\ net \subseteq queued
  /\ SlotsOK
  /\ NothingLost

Held == {i \in Items : row[i] # "absent"}

-----------------------------------------------------------------------------
(* The sets of items only grow. *)
Grow == /\ queued \subseteq queued'
        /\ expired \subseteq expired'
        /\ stored \subseteq stored'

LEMMA SlotGrows ==
  ASSUME NEW s, SlotOK(s, queued, expired, stored), Grow
  PROVE  SlotOK(s, queued', expired', stored')
BY DEF SlotOK, Grow

(* Replacing one slot by a sound one keeps all slots sound. *)
LEMMA KeepSlots ==
  ASSUME TypeOK, SlotsOK, Grow, NEW f \in Flushes, NEW s,
         Keep(f, s), SlotOK(s, queued', expired', stored')
  PROVE  SlotsOK' /\ flush' \in [Flushes -> Flush]
<1>1. \A g \in Flushes : flush'[g] = IF g = f THEN s ELSE flush[g]
  BY DEF Keep, TypeOK
<1>2. \A g \in Flushes : SlotOK(flush'[g], queued', expired', stored')
  BY <1>1, SlotGrows DEF SlotsOK
<1>3. flush' \in [Flushes -> Flush]
  BY <1>1, <1>2 DEF Keep, TypeOK, SlotOK
<1> QED
  BY <1>2, <1>3 DEF SlotsOK

(* Leaving the slots alone keeps them sound too. *)
LEMMA SameSlots ==
  ASSUME TypeOK, SlotsOK, Grow, UNCHANGED flush
  PROVE  SlotsOK' /\ flush' \in [Flushes -> Flush]
<1>1. \A g \in Flushes : SlotOK(flush[g], queued', expired', stored')
  BY SlotGrows DEF SlotsOK
<1> QED
  BY <1>1 DEF SlotsOK, TypeOK

LEMMA IdleOK == SlotOK(Idle, queued', expired', stored')
BY DEF SlotOK, Idle, Slot, Flush, PC

(* An upsert adds to the rows held, a deletion takes from them. *)
LEMMA UpsertHolds ==
  ASSUME TypeOK, NEW i \in Items, NEW st \in {"pending", "dead"}, Upsert(i, st)
  PROVE  /\ row' \in [Items -> {"absent", "pending", "dead"}]
         /\ Held' = Held \union {i}
BY DEF TypeOK, Upsert, Held

LEMMA DeleteReleases ==
  ASSUME TypeOK, NEW S, Delete(S)
  PROVE  /\ row' \in [Items -> {"absent", "pending", "dead"}]
         /\ Held' = Held \ S
BY DEF TypeOK, Delete, Held

(* In terms of the rows held. *)
LEMMA HeldFacts ==
  ASSUME TypeOK
  PROVE  /\ RowsQueued <=> Held \subseteq queued
         /\ NothingLost <=> queued \subseteq Held \union stored \union purged
BY DEF TypeOK, RowsQueued, NothingLost, Held

LEMMA HeldFactsNext ==
  ASSUME TypeOK'
  PROVE  /\ RowsQueued' <=> Held' \subseteq queued'
         /\ NothingLost' <=> queued' \subseteq Held' \union stored' \union purged'
BY DEF TypeOK, RowsQueued, NothingLost, Held

-----------------------------------------------------------------------------
LEMMA InitInv == Init => IInv
<1> SUFFICES ASSUME Init PROVE IInv
  OBVIOUS
<1>1. SlotOK(Idle, queued, expired, stored)
  BY DEF SlotOK, Idle, Slot, Flush, PC
<1>2. \A f \in Flushes : flush[f] = Idle
  BY DEF Init
<1>3. SlotsOK
  BY <1>1, <1>2 DEF SlotsOK
<1>4. Idle \in Flush
  BY DEF Idle, Slot, Flush, PC
<1>5. TypeOK
  BY <1>4, ConstantsAssumption DEF Init, TypeOK
<1> QED
  BY <1>3, <1>5 DEF Init, IInv, RowsQueued, NothingLost

(* What every action does to the queue, in terms of the outbox. *)
QueueStep ==
  \/ /\ UNCHANGED <<queued, expired, stored, purged>>
     /\ Held' = Held
  \/ \E i \in Items :
       \/ /\ i \notin queued
          /\ queued' = queued \union {i}
          /\ Held' = Held \union {i}
          /\ UNCHANGED <<expired, stored, purged>>
       \/ /\ i \in queued
          /\ expired' = expired \union {i}
          /\ UNCHANGED <<queued, stored, purged>>
          /\ Held' = Held
       \/ /\ i \in queued
          /\ stored' = stored \union {i}
          /\ UNCHANGED <<queued, expired, purged>>
          /\ Held' = Held
       \/ /\ i \in queued
          /\ Held' = Held \union {i}
          /\ UNCHANGED <<queued, expired, stored, purged>>
  \/ \E S \in SUBSET Items :
       \/ /\ S \subseteq stored
          /\ Held' = Held \ S
          /\ UNCHANGED <<queued, expired, stored, purged>>
       \/ /\ S \subseteq expired
          /\ Held' = Held \ S
          /\ purged' = purged \union S
          /\ UNCHANGED <<queued, expired, stored>>

(* A step of the outbox that keeps types, slots and late requests sound    *)
(* keeps the invariant.                                                    *)
LEMMA QueueStepInv ==
  ASSUME IInv, QueueStep, SlotsOK', net' \subseteq queued',
         row' \in [Items -> {"absent", "pending", "dead"}],
         flush' \in [Flushes -> Flush], outages' \in 0 .. MaxOutages
  PROVE  IInv'
<1>1. Held \subseteq queued /\ queued \subseteq Held \union stored \union purged
  BY HeldFacts DEF IInv
<1>2. /\ queued' \subseteq Items /\ expired' \subseteq queued'
      /\ stored' \subseteq queued' /\ purged' \subseteq expired'
  BY DEF IInv, TypeOK, QueueStep
<1>3. TypeOK'
  BY <1>2 DEF IInv, TypeOK
<1>4. Held' \subseteq queued'
  BY <1>1 DEF QueueStep
<1>5. queued' \subseteq Held' \union stored' \union purged'
  BY <1>1 DEF QueueStep
<1> QED
  BY <1>3, <1>4, <1>5, HeldFactsNext DEF IInv

(* A step that only moves a flush, and possibly late requests. *)
LEMMA MoveStep ==
  ASSUME IInv, NEW f \in Flushes, NEW s, Keep(f, s),
         SlotOK(s, queued, expired, stored),
         UNCHANGED <<row, queued, expired, stored, purged>>,
         net' \subseteq queued, outages' \in 0 .. MaxOutages
  PROVE  IInv' /\ QueueStep
<1>1. Grow /\ SlotOK(s, queued', expired', stored')
  BY DEF Grow
<1>2. SlotsOK' /\ flush' \in [Flushes -> Flush]
  BY <1>1, KeepSlots DEF IInv
<1>3. QueueStep
  BY DEF QueueStep, Held
<1>4. row' \in [Items -> {"absent", "pending", "dead"}]
  BY DEF IInv, TypeOK
<1> QED
  BY <1>2, <1>3, <1>4, QueueStepInv

-----------------------------------------------------------------------------
LEMMA EnqueueStep ==
  ASSUME IInv, NEW i \in Items, Enqueue(i)
  PROVE  IInv' /\ QueueStep
<1>1. TypeOK
  BY DEF IInv
<1>2. Held' = Held \union {i} /\ row' \in [Items -> {"absent", "pending", "dead"}]
  BY <1>1, UpsertHolds DEF Enqueue
<1>3. QueueStep
  BY <1>2 DEF Enqueue, QueueStep
<1>4. Grow
  BY DEF Enqueue, Grow
<1>5. SlotsOK' /\ flush' \in [Flushes -> Flush]
  BY <1>1, <1>4, SameSlots DEF IInv, Enqueue
<1>6. net' \subseteq queued' /\ outages' \in 0 .. MaxOutages
  BY DEF Enqueue, IInv, TypeOK
<1> QED
  BY <1>2, <1>3, <1>5, <1>6, QueueStepInv

LEMMA ExpireStep ==
  ASSUME IInv, NEW i \in Items, Expire(i)
  PROVE  IInv' /\ QueueStep
<1>1. TypeOK /\ Grow
  BY DEF IInv, Expire, Grow
<1>2. QueueStep
  BY DEF Expire, QueueStep, Held
<1>3. SlotsOK' /\ flush' \in [Flushes -> Flush]
  BY <1>1, SameSlots DEF IInv, Expire
<1>4. /\ net' \subseteq queued' /\ outages' \in 0 .. MaxOutages
      /\ row' \in [Items -> {"absent", "pending", "dead"}]
  BY DEF Expire, IInv, TypeOK
<1> QED
  BY <1>2, <1>3, <1>4, QueueStepInv

LEMMA LateStoreStep ==
  ASSUME IInv, NEW i \in Items, LateStore(i)
  PROVE  IInv' /\ QueueStep
<1>1. TypeOK /\ Grow
  BY DEF IInv, LateStore, Grow
<1>2. QueueStep
  BY DEF LateStore, QueueStep, Held, IInv
<1>3. SlotsOK' /\ flush' \in [Flushes -> Flush]
  BY <1>1, SameSlots DEF IInv, LateStore
<1>4. /\ net' \subseteq queued' /\ outages' \in 0 .. MaxOutages
      /\ row' \in [Items -> {"absent", "pending", "dead"}]
  BY DEF LateStore, IInv, TypeOK
<1> QED
  BY <1>2, <1>3, <1>4, QueueStepInv

(* The items of a batch in flight are queued. *)
LEMMA BatchQueued ==
  ASSUME SlotsOK
  PROVE  \A f \in Flushes : flush[f].batch \subseteq queued
BY DEF SlotsOK, SlotOK

LEMMA CrashStep ==
  ASSUME IInv, Crash
  PROVE  IInv' /\ QueueStep
<1>1. QueueStep
  BY DEF Crash, QueueStep, Held
<1>2. SlotOK(Idle, queued', expired', stored')
  BY IdleOK
<1>3. \A f \in Flushes : flush'[f] = Idle
  BY DEF Crash
<1>4. SlotsOK'
  BY <1>2, <1>3 DEF SlotsOK
<1>5. flush' \in [Flushes -> Flush]
  BY DEF Crash, Idle, Slot, Flush, PC
<1>6. net' \subseteq queued'
  BY BatchQueued DEF IInv, Crash, Unserved
<1>7. outages' \in 0 .. MaxOutages
  BY ConstantsAssumption DEF Crash, IInv, TypeOK
<1>8. row' \in [Items -> {"absent", "pending", "dead"}]
  BY DEF Crash, IInv, TypeOK
<1> QED
  BY <1>1, <1>4, <1>5, <1>6, <1>7, <1>8, QueueStepInv

-----------------------------------------------------------------------------
LEMMA FlushStartStep ==
  ASSUME IInv, NEW f \in Flushes, FlushStart(f)
  PROVE  IInv' /\ QueueStep
<1> DEFINE old == Listed("pending") \intersect expired
           s == Slot(IF old = {} THEN "list" ELSE "purge", {}, old, {}, {}, {})
<1>1. old \subseteq Items /\ old \subseteq expired /\ old \subseteq queued
  BY DEF Listed, IInv, TypeOK
<1>2. SlotOK(s, queued, expired, stored)
  BY <1>1 DEF SlotOK, Slot, Flush, PC
<1>3. Keep(f, s)
  BY DEF FlushStart
<1> HIDE DEF s
<1> QED
  BY <1>2, <1>3, MoveStep DEF FlushStart, IInv, TypeOK

LEMMA FlushListStep ==
  ASSUME IInv, NEW f \in Flushes, FlushList(f)
  PROVE  IInv' /\ QueueStep
<1> DEFINE todo == Listed("pending")
           s == IF todo = {} THEN Idle
                ELSE Slot("next", todo, {}, {}, {}, {i \in todo : row[i] = "dead"})
<1>1. todo \subseteq Items /\ todo \subseteq queued
  BY DEF Listed, IInv, RowsQueued
<1>2. SlotOK(s, queued, expired, stored)
  BY <1>1 DEF SlotOK, Idle, Slot, Flush, PC
<1>3. Keep(f, s)
  BY DEF FlushList
<1> HIDE DEF s
<1> QED
  BY <1>2, <1>3, MoveStep DEF FlushList, IInv, TypeOK

LEMMA FlushSendStep ==
  ASSUME IInv, NEW f \in Flushes, NEW B \in SUBSET Items, FlushSend(f, B)
  PROVE  IInv' /\ QueueStep
<1> DEFINE s == Slot("wait", flush[f].todo \ B, B, {}, {}, flush[f].dead)
<1>1. SlotOK(flush[f], queued, expired, stored) /\ B \subseteq flush[f].todo
  BY DEF IInv, SlotsOK, FlushSend, Slice
<1>2. SlotOK(s, queued, expired, stored)
  BY <1>1 DEF SlotOK, Slot, Flush, PC
<1>3. Keep(f, s)
  BY DEF FlushSend
<1> HIDE DEF s
<1> QED
  BY <1>2, <1>3, MoveStep DEF FlushSend, IInv, TypeOK

LEMMA FlushDoneStep ==
  ASSUME IInv, NEW f \in Flushes, FlushDone(f)
  PROVE  IInv' /\ QueueStep
<1>1. SlotOK(Idle, queued, expired, stored)
  BY DEF SlotOK, Idle, Slot, Flush, PC
<1> QED
  BY <1>1, MoveStep DEF FlushDone, IInv, TypeOK

(* The server deals with an item of a batch, and may store it. *)
LEMMA ServeStep ==
  ASSUME IInv, NEW f \in Flushes, NEW i \in Unserved(f), At(f, "wait"),
         NEW x \in SUBSET {i}, NEW y \in SUBSET {i},
         Keep(f, Slot("wait", flush[f].todo, flush[f].batch,
                      flush[f].served \union x, flush[f].failed \union y,
                      flush[f].dead)),
         stored' = stored \/ stored' = stored \union {i},
         x \subseteq stored',
         UNCHANGED <<row, queued, expired, net, outages, purged>>
  PROVE  IInv' /\ QueueStep
<1> DEFINE s == Slot("wait", flush[f].todo, flush[f].batch,
                     flush[f].served \union x, flush[f].failed \union y,
                     flush[f].dead)
<1>1. SlotOK(flush[f], queued, expired, stored)
  BY DEF IInv, SlotsOK
<1>2. i \in queued /\ i \in Items
  BY <1>1 DEF Unserved, SlotOK, IInv, TypeOK
<1>3. Grow
  BY DEF Grow
<1>4. SlotOK(s, queued', expired', stored')
  <2>1. /\ flush[f] \in Flush /\ flush[f].todo \subseteq queued
        /\ flush[f].batch \subseteq queued /\ flush[f].served \subseteq stored
    BY <1>1 DEF SlotOK, At
  <2>2. stored \subseteq stored' /\ queued' = queued
    OBVIOUS
  <2>3. s \in Flush
    BY <1>2, <2>1 DEF Flush, Slot, PC
  <2> QED
    BY <2>1, <2>2, <2>3 DEF SlotOK, Slot
<1>5. Keep(f, s)
  OBVIOUS
<1> HIDE DEF s
<1>6. SlotsOK' /\ flush' \in [Flushes -> Flush]
  BY <1>3, <1>4, <1>5, KeepSlots DEF IInv
<1>7. QueueStep
  BY <1>2 DEF QueueStep, Held
<1>8. /\ net' \subseteq queued' /\ outages' \in 0 .. MaxOutages
      /\ row' \in [Items -> {"absent", "pending", "dead"}]
  BY DEF IInv, TypeOK
<1> QED
  BY <1>6, <1>7, <1>8, QueueStepInv

LEMMA ServerStoresStep ==
  ASSUME IInv, NEW f \in Flushes, NEW i \in Items, ServerStores(f, i)
  PROVE  IInv' /\ QueueStep
<1>1. flush[f].failed \union {} = flush[f].failed
  OBVIOUS
<1> QED
  BY <1>1, ServeStep DEF ServerStores

LEMMA ServerFailsStep ==
  ASSUME IInv, NEW f \in Flushes, NEW i \in Items, ServerFails(f, i)
  PROVE  IInv' /\ QueueStep
<1>1. flush[f].served \union {} = flush[f].served
  OBVIOUS
<1>2. {} \in SUBSET {i} /\ {i} \in SUBSET {i} /\ {} \subseteq stored'
  OBVIOUS
<1>3. /\ i \in Unserved(f) /\ At(f, "wait")
      /\ stored' = stored \/ stored' = stored \union {i}
      /\ UNCHANGED <<row, queued, expired, net, outages, purged>>
      /\ Keep(f, Slot("wait", flush[f].todo, flush[f].batch,
                      flush[f].served \union {}, flush[f].failed \union {i},
                      flush[f].dead))
  BY <1>1 DEF ServerFails
<1> QED
  BY <1>2, <1>3, ServeStep

(* Changing the program counter of a flush and shrinking its batch. *)
LEMMA GotoOK ==
  ASSUME NEW s, SlotOK(s, queued, expired, stored),
         NEW p \in PC, NEW b, b \subseteq s.batch,
         p # "purge",
         p = "wait" => s.pc \in {"wait", "settle"},
         p = "settle" => /\ s.pc \in {"wait", "settle"}
                         /\ b \subseteq s.served \union s.failed
  PROVE  SlotOK(Slot(p, s.todo, b, s.served, s.failed, s.dead),
                queued, expired, stored)
BY DEF SlotOK, Slot, Flush

LEMMA AnswerStep ==
  ASSUME IInv, NEW f \in Flushes, Answered(f) \/ Rejected(f) \/ Broken(f)
  PROVE  IInv' /\ QueueStep
<1> DEFINE o == flush[f]
           To(p) == Slot(p, o.todo, o.batch, o.served, o.failed, o.dead)
<1>1. SlotOK(o, queued, expired, stored) /\ o.pc = "wait"
  BY DEF IInv, SlotsOK, Answered, Rejected, Broken, At
<1>2. \E s : SlotOK(s, queued, expired, stored) /\ Keep(f, s)
  <2>1. CASE Answered(f)
    <3>1. o.batch \subseteq o.served \union o.failed
      BY <2>1 DEF Answered, Unserved
    <3>2. SlotOK(To("settle"), queued, expired, stored)
      BY <1>1, <3>1, GotoOK DEF PC
    <3> QED
      BY <2>1, <3>2 DEF Answered, Goto
  <2>2. CASE Rejected(f)
    <3>1. SlotOK(To("park"), queued, expired, stored)
      BY <1>1, GotoOK DEF PC
    <3> QED
      BY <2>2, <3>1 DEF Rejected, Goto
  <2>3. CASE Broken(f)
    <3>1. SlotOK(To("retry"), queued, expired, stored)
      BY <1>1, GotoOK DEF PC
    <3> QED
      BY <2>3, <3>1 DEF Broken, Goto
  <2> QED
    BY <2>1, <2>2, <2>3
<1>3. net' \subseteq queued
  BY BatchQueued DEF IInv, Answered, Rejected, Broken, Unserved
<1>4. outages' \in 0 .. MaxOutages
  BY ConstantsAssumption DEF Answered, Rejected, Broken, IInv, TypeOK
<1>5. UNCHANGED <<row, queued, expired, stored, purged>>
  BY DEF Answered, Rejected, Broken
<1> QED
  BY <1>2, <1>3, <1>4, <1>5, MoveStep

-----------------------------------------------------------------------------
(* The steps that write rows. *)
LEMMA PurgeDeleteStep ==
  ASSUME IInv, NEW f \in Flushes, PurgeDelete(f)
  PROVE  IInv' /\ QueueStep
<1> DEFINE S == flush[f].batch
           s == Slot("list", {}, {}, {}, {}, {})
<1>1. TypeOK /\ Grow
  BY DEF IInv, PurgeDelete, Grow
<1>2. S \subseteq expired /\ S \in SUBSET Items
  BY DEF IInv, SlotsOK, SlotOK, PurgeDelete, At, TypeOK
<1>3. Held' = Held \ S /\ row' \in [Items -> {"absent", "pending", "dead"}]
  BY <1>1, DeleteReleases DEF PurgeDelete
<1>4. QueueStep
  BY <1>2, <1>3 DEF PurgeDelete, QueueStep
<1>5. SlotOK(s, queued', expired', stored') /\ Keep(f, s)
  BY DEF SlotOK, Slot, Flush, PC, PurgeDelete
<1> HIDE DEF s
<1>6. SlotsOK' /\ flush' \in [Flushes -> Flush]
  BY <1>1, <1>5, KeepSlots DEF IInv
<1>7. net' \subseteq queued' /\ outages' \in 0 .. MaxOutages
  BY DEF PurgeDelete, IInv, TypeOK
<1> QED
  BY <1>3, <1>4, <1>6, <1>7, QueueStepInv

(* An item of the batch is written back, with whatever status. *)
LEMMA WriteBackStep ==
  ASSUME IInv, NEW f \in Flushes, NEW i \in flush[f].batch,
         NEW st \in {"pending", "dead"}, Upsert(i, st),
         NEW p \in {"next", "settle", "park", "retry"},
         Goto(f, p, flush[f].batch \ {i}),
         p = "settle" => At(f, "settle"),
         UNCHANGED <<queued, expired, stored, net, outages, purged>>
  PROVE  IInv' /\ QueueStep
<1> DEFINE o == flush[f]
           s == Slot(p, o.todo, o.batch \ {i}, o.served, o.failed, o.dead)
<1>1. TypeOK /\ Grow
  BY DEF IInv, Grow
<1>2. SlotOK(o, queued, expired, stored)
  BY DEF IInv, SlotsOK
<1>3. i \in queued /\ i \in Items
  BY <1>1, <1>2 DEF SlotOK, TypeOK
<1>4. Held' = Held \union {i} /\ row' \in [Items -> {"absent", "pending", "dead"}]
  BY <1>1, <1>3, UpsertHolds
<1>5. QueueStep
  BY <1>3, <1>4 DEF QueueStep
<1>6. p = "settle" => o.pc = "settle" /\ o.batch \ {i} \subseteq o.served \union o.failed
  BY <1>2 DEF SlotOK, At
<1>7. SlotOK(s, queued, expired, stored)
  BY <1>2, <1>6, GotoOK DEF PC
<1>8. Keep(f, s)
  BY DEF Goto
<1>9. SlotOK(s, queued', expired', stored')
  BY <1>1, <1>7, SlotGrows
<1> HIDE DEF s
<1>10. SlotsOK' /\ flush' \in [Flushes -> Flush]
  BY <1>1, <1>8, <1>9, KeepSlots DEF IInv
<1>11. net' \subseteq queued' /\ outages' \in 0 .. MaxOutages
  BY DEF IInv, TypeOK
<1> QED
  BY <1>4, <1>5, <1>10, <1>11, QueueStepInv

LEMMA SettleFailedStep ==
  ASSUME IInv, NEW f \in Flushes, NEW i \in Items, SettleFailed(f, i)
  PROVE  IInv' /\ QueueStep
BY WriteBackStep DEF SettleFailed, FailedOf

LEMMA ParkStep ==
  ASSUME IInv, NEW f \in Flushes, NEW i \in Items, Park(f, i)
  PROVE  IInv' /\ QueueStep
BY WriteBackStep DEF Park, Tick, At

LEMMA RetryStep ==
  ASSUME IInv, NEW f \in Flushes, NEW i \in Items, Retry(f, i)
  PROVE  IInv' /\ QueueStep
BY WriteBackStep DEF Retry, Tick, At, RetryStatus

LEMMA SettleDeleteStep ==
  ASSUME IInv, NEW f \in Flushes, SettleDelete(f)
  PROVE  IInv' /\ QueueStep
<1> DEFINE o == flush[f]
           S == o.batch
           s == Slot("next", o.todo, {}, o.served, o.failed, o.dead)
<1>1. TypeOK /\ Grow
  BY DEF IInv, SettleDelete, Grow
<1>2. SlotOK(o, queued, expired, stored)
  BY DEF IInv, SlotsOK
<1>3. S \subseteq stored /\ S \in SUBSET Items
  BY <1>1, <1>2 DEF SlotOK, SettleDelete, FailedOf, At, Flush
<1>4. Held' = Held \ S /\ row' \in [Items -> {"absent", "pending", "dead"}]
  BY <1>1, DeleteReleases DEF SettleDelete
<1>5. QueueStep
  BY <1>3, <1>4 DEF SettleDelete, QueueStep
<1>6. SlotOK(s, queued, expired, stored)
  BY <1>2, GotoOK DEF PC
<1>7. SlotOK(s, queued', expired', stored')
  BY <1>1, <1>6, SlotGrows
<1>8. Keep(f, s)
  BY DEF SettleDelete, Goto
<1> HIDE DEF s
<1>9. SlotsOK' /\ flush' \in [Flushes -> Flush]
  BY <1>1, <1>7, <1>8, KeepSlots DEF IInv
<1>10. net' \subseteq queued' /\ outages' \in 0 .. MaxOutages
  BY DEF SettleDelete, IInv, TypeOK
<1> QED
  BY <1>4, <1>5, <1>9, <1>10, QueueStepInv

-----------------------------------------------------------------------------
LEMMA ProgressStep ==
  ASSUME IInv, NEW f \in Flushes, FlushStart(f) \/ Progress(f) \/ Broken(f)
  PROVE  IInv' /\ QueueStep
BY FlushStartStep, PurgeDeleteStep, FlushListStep, FlushDoneStep,
   FlushSendStep, ServerStoresStep, ServerFailsStep, SettleFailedStep,
   ParkStep, RetryStep, AnswerStep, SettleDeleteStep DEF Progress

LEMMA StutterStep ==
  ASSUME IInv, UNCHANGED vars
  PROVE  IInv' /\ QueueStep
<1>1. TypeOK /\ Grow
  BY DEF IInv, Grow, vars
<1>2. SlotsOK' /\ flush' \in [Flushes -> Flush]
  BY <1>1, SameSlots DEF IInv, vars
<1>3. QueueStep
  BY DEF QueueStep, Held, vars
<1>4. /\ net' \subseteq queued' /\ outages' \in 0 .. MaxOutages
      /\ row' \in [Items -> {"absent", "pending", "dead"}]
  BY DEF IInv, TypeOK, vars
<1> QED
  BY <1>2, <1>3, <1>4, QueueStepInv

LEMMA NextStep ==
  ASSUME IInv, [Next]_vars
  PROVE  IInv' /\ QueueStep
BY ProgressStep, EnqueueStep, ExpireStep, LateStoreStep, CrashStep, StutterStep
   DEF Next

(* The types and the invariant hold of every behaviour. *)
THEOREM Invariance == Spec => []IInv
<1>1. IInv /\ [Next]_vars => IInv'
  BY NextStep
<1> QED
  BY InitInv, <1>1, PTL DEF Spec

(* No item vanishes: its row is there until the server has the item or its *)
(* age let it be deleted (sync-queue.ts).                                  *)
THEOREM NoItemIsLost == Spec => []NothingLost
<1>1. IInv => NothingLost
  BY DEF IInv
<1> QED
  BY Invariance, <1>1, PTL

-----------------------------------------------------------------------------
(* Between two flushes and before the list is read a flush has nothing in  *)
(* hand, and between two slices nothing of a batch.                        *)
HandsOK(s) ==
  /\ s.pc \in {"idle", "list"} => s.todo = {} /\ s.batch = {}
  /\ s.pc = "purge" => s.todo = {}
  /\ s.pc = "next" => s.batch = {}
HandsInv == \A f \in Flushes : HandsOK(flush[f])

(* What a step does to the flush that takes it, besides the row of an item *)
(* it lets go.                                                             *)
LEMMA HandsProgress ==
  ASSUME IInv, HandsInv, NEW f \in Flushes, FlushStart(f) \/ Progress(f) \/ Broken(f)
  PROVE  /\ HandsOK(flush'[f])
         /\ \A g \in Flushes \ {f} : flush'[g] = flush[g]
         /\ \A i \in InHand(f) \ InHand(f)' : row'[i] # "pending" \/ At(f, "retry")
<1>1. /\ HandsOK(flush[f]) /\ flush \in [Flushes -> Flush] /\ flush[f] \in Flush
      /\ row \in [Items -> {"absent", "pending", "dead"}]
  BY DEF HandsInv, IInv, TypeOK
<1> USE <1>1 DEF HandsOK, InHand, At, Keep, Slot, Flush
<1>2. CASE FlushStart(f) \/ FlushList(f) \/ FlushDone(f)
  BY <1>2 DEF FlushStart, FlushList, FlushDone, Idle
<1>3. CASE PurgeDelete(f)
  BY <1>3 DEF PurgeDelete, Delete
<1>4. ASSUME NEW B \in SUBSET Items, FlushSend(f, B)
      PROVE  /\ HandsOK(flush'[f])
             /\ \A g \in Flushes \ {f} : flush'[g] = flush[g]
             /\ InHand(f) \ InHand(f)' = {}
  BY <1>4 DEF FlushSend
<1>5. ASSUME NEW i \in Items, ServerStores(f, i) \/ ServerFails(f, i)
      PROVE  /\ HandsOK(flush'[f])
             /\ \A g \in Flushes \ {f} : flush'[g] = flush[g]
             /\ InHand(f) \ InHand(f)' = {}
  BY <1>5 DEF ServerStores, ServerFails
<1>6. CASE Answered(f) \/ Rejected(f) \/ Broken(f)
  BY <1>6 DEF Answered, Rejected, Broken, Goto
<1>7. ASSUME NEW i \in Items, SettleFailed(f, i) \/ Park(f, i) \/ Retry(f, i)
      PROVE  /\ HandsOK(flush'[f])
             /\ \A g \in Flushes \ {f} : flush'[g] = flush[g]
             /\ InHand(f) \ InHand(f)' \subseteq {i}
             /\ At(f, "retry") \/ row'[i] = "dead"
  BY <1>7 DEF SettleFailed, Park, Retry, Tick, Goto, Upsert
<1>8. CASE SettleDelete(f)
  BY <1>8 DEF SettleDelete, Goto, Delete
<1> QED
  BY <1>2, <1>3, <1>4, <1>5, <1>6, <1>7, <1>8 DEF Progress

LEMMA HandsStep ==
  ASSUME IInv, HandsInv, [Next]_vars
  PROVE  /\ HandsInv'
         /\ [\A f \in Flushes : \A i \in InHand(f) \ InHand(f)' :
               row'[i] # "pending" \/ At(f, "retry") \/ Crash]_vars
<1>1. ASSUME NEW f \in Flushes, FlushStart(f) \/ Progress(f) \/ Broken(f)
      PROVE  /\ HandsInv'
             /\ \A g \in Flushes : \A i \in InHand(g) \ InHand(g)' :
                  row'[i] # "pending" \/ At(g, "retry")
  <2>1. /\ HandsOK(flush'[f])
        /\ \A g \in Flushes \ {f} : flush'[g] = flush[g]
        /\ \A i \in InHand(f) \ InHand(f)' : row'[i] # "pending" \/ At(f, "retry")
    BY <1>1, HandsProgress
  <2>2. HandsInv'
    BY <2>1 DEF HandsInv
  <2>3. \A g \in Flushes \ {f} : InHand(g)' = InHand(g)
    BY <2>1 DEF InHand
  <2> QED BY <2>1, <2>2, <2>3
<1>2. CASE Crash
  <2>1. \A f \in Flushes : flush'[f] = Idle
    BY <1>2 DEF Crash
  <2>2. HandsOK(Idle)
    BY DEF HandsOK, Idle, Slot
  <2> QED BY <1>2, <2>1, <2>2 DEF HandsInv
<1>3. CASE UNCHANGED flush
  <2>1. HandsInv' /\ \A f \in Flushes : InHand(f)' = InHand(f)
    BY <1>3 DEF HandsInv, InHand
  <2> QED BY <2>1
<1> QED
  BY <1>1, <1>2, <1>3 DEF Next, Enqueue, Expire, LateStore, vars

(* flushQueue settles what it listed, in any number of slices, unless the  *)
(* request breaks off or the app is killed.                                *)
THEOREM NoItemIsSkipped == Spec => ListedIsSettled
<1>1. Init => HandsInv
  BY DEF Init, HandsInv, HandsOK, Idle, Slot
<1>2. IInv /\ HandsInv /\ [Next]_vars => HandsInv'
  BY HandsStep
<1>3. IInv /\ HandsInv /\ [Next]_vars
        => [\A f \in Flushes : \A i \in InHand(f) \ InHand(f)' :
              row'[i] # "pending" \/ At(f, "retry") \/ Crash]_vars
  BY HandsStep
<1> QED
  BY <1>1, <1>2, <1>3, Invariance, PTL DEF Spec, ListedIsSettled

-----------------------------------------------------------------------------
(* A step of the queue is a step of the outbox. *)
LEMMA OutboxStep ==
  ASSUME QueueStep
  PROVE  [Box!Next]_(Box!vars)
<1> USE DEF Box!Next, Box!Accept, Box!Age, Box!Deliver, Box!Resume,
            Box!Release, Box!Drop, Box!vars, Held
<1>1. CASE Held' = Held /\ UNCHANGED <<queued, expired, stored, purged>>
  BY <1>1
<1>2. ASSUME NEW i \in Items,
             \/ /\ i \notin queued
                /\ queued' = queued \union {i}
                /\ Held' = Held \union {i}
                /\ UNCHANGED <<expired, stored, purged>>
             \/ /\ i \in queued
                /\ expired' = expired \union {i}
                /\ UNCHANGED <<queued, stored, purged>>
                /\ Held' = Held
             \/ /\ i \in queued
                /\ stored' = stored \union {i}
                /\ UNCHANGED <<queued, expired, purged>>
                /\ Held' = Held
             \/ /\ i \in queued
                /\ Held' = Held \union {i}
                /\ UNCHANGED <<queued, expired, stored, purged>>
      PROVE  Box!Next
  BY <1>2
<1>3. ASSUME NEW S \in SUBSET Items,
             \/ /\ S \subseteq stored
                /\ Held' = Held \ S
                /\ UNCHANGED <<queued, expired, stored, purged>>
             \/ /\ S \subseteq expired
                /\ Held' = Held \ S
                /\ purged' = purged \union S
                /\ UNCHANGED <<queued, expired, stored>>
      PROVE  Box!Next
  BY <1>3
<1> QED
  BY <1>1, <1>2, <1>3 DEF QueueStep

(* The queue, with its overlapping flushes, broken requests and kills,     *)
(* implements the outbox: what it lets go the server has, or is too old.   *)
THEOREM ImplementsOutbox == Spec => OutboxSpec
<1>1. Init => Box!Init
  BY DEF Init, Box!Init
<1>2. IInv /\ [Next]_vars => [Box!Next]_(Box!vars)
  BY NextStep, OutboxStep
<1> QED
  BY Invariance, <1>1, <1>2, PTL DEF Spec, OutboxSpec, Box!Spec

=============================================================================
