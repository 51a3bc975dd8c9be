------------------------- MODULE ProgressSyncProofs -------------------------
(***************************************************************************)
(* Proofs about ProgressSync for every set of sessions, attempts and       *)
(* overlapping requests, whatever the batches report and the patches ask:  *)
(* what is answered is stored, events and the fluency tell of real rows.   *)
(***************************************************************************)
EXTENDS ProgressSync, TLAPS

(* What a request carries is true of the database (status st, attempts at, *)
(* sessions ever completed wd).                                            *)
Recording(s, at) ==
  s.pc \in {"check", "insert", "announce"} =>
    /\ s.kind \in {"attempt", "sync"} /\ s.session \in Sessions
    /\ s.attempt \in Attempts
    /\ s.pc = "announce" => s.attempt \in at
Syncing(s, st, at) ==
  s.kind = "sync" =>
    /\ s.session \in Offline /\ st[s.session] # "none"
    /\ AttemptsOf(s.session) \subseteq at \union s.todo \union {s.attempt}
Summing(s, at, wd) ==
  /\ s.pc \in {"list", "stats", "store"} =>
       /\ s.todo = {} /\ s.attempt = NoAttempt
       /\ s.kind \in {"patch", "sync"} /\ s.session \in Sessions
  /\ s.pc = "finished" => s.kind = "patch" /\ s.session \in Sessions
  /\ s.kind = "patch" /\ s.pc \in {"list", "stats", "store", "finished"} =>
       s.session \in wd
  /\ \A x \in s.sum.sessions : x[1] \in wd
  /\ s.sum.gates \subseteq at
Patching(s, st) ==
  s.pc \in {"patchRead", "patchWrite"} =>
    /\ s.kind = "patch" /\ s.session \in Sessions /\ s.patch \in Patches
    /\ st[s.session] # "none"
    /\ s.pc = "patchWrite" => s.read.status # "none"

SlotOK(s, st, at, wd) ==
  /\ s \in Request
  /\ Recording(s, at)
  /\ Syncing(s, st, at)
  /\ Summing(s, at, wd)
  /\ Patching(s, st)

SlotsOK == \A r \in Requests : SlotOK(req[r], status, attempts, wasDone)

(* The history has every session that is completed now. *)
DoneBefore == Done \subseteq wasDone

IInv ==
  /\ TypeOK
  /\ SlotsOK
  /\ DoneBefore
  /\ AckedIsStored
  /\ EventsAreTrue
  /\ FluencyIsReal

-----------------------------------------------------------------------------
(* Rows stay, and what was completed was completed. *)
Grow ==
  /\ \A s \in Sessions : status[s] # "none" => status'[s] # "none"
  /\ attempts \subseteq attempts'
  /\ wasDone \subseteq wasDone'

LEMMA SlotGrows ==
  ASSUME NEW s, SlotOK(s, status, attempts, wasDone), Grow
  PROVE  SlotOK(s, status', attempts', wasDone')
<1>1. Syncing(s, status', attempts')
  BY DEF SlotOK, Syncing, Grow, Sessions
<1> QED
  BY <1>1 DEF SlotOK, Recording, Summing, Patching, Grow

LEMMA KeepSlots ==
  ASSUME TypeOK, SlotsOK, Grow, NEW r \in Requests, NEW s,
         Keep(r, s), SlotOK(s, status', attempts', wasDone')
  PROVE  SlotsOK' /\ req' \in [Requests -> Request]
<1>1. \A q \in Requests : req'[q] = IF q = r THEN s ELSE req[q]
  BY DEF Keep, TypeOK
<1>2. \A q \in Requests : SlotOK(req'[q], status', attempts', wasDone')
  BY <1>1, SlotGrows DEF SlotsOK
<1>3. req' \in [Requests -> Request]
  BY <1>1, <1>2 DEF Keep, TypeOK, SlotOK
<1> QED
  BY <1>2, <1>3 DEF SlotsOK

LEMMA SameSlots ==
  ASSUME TypeOK, SlotsOK, Grow, UNCHANGED req
  PROVE  SlotsOK' /\ req' \in [Requests -> Request]
<1>1. \A q \in Requests : SlotOK(req[q], status', attempts', wasDone')
  BY SlotGrows DEF SlotsOK
<1> QED
  BY <1>1 DEF SlotsOK, TypeOK

LEMMA IdleOK ==
  ASSUME NEW st, NEW at, NEW wd
  PROVE  SlotOK(Idle, st, at, wd)
<1>1. NoRow \in Row /\ NoFluency \in Fluency
  BY DEF NoRow, Row, Status, NoFluency, Fluency
<1>2. Idle \in Request
  BY <1>1 DEF Idle, Slot, Request, PC, Kind
<1> QED
  BY <1>2 DEF SlotOK, Idle, Slot, Recording, Syncing, Summing, Patching, NoFluency

LEMMA InitInv == Init => IInv
<1> SUFFICES ASSUME Init PROVE IInv
  OBVIOUS
<1>1. SlotOK(Idle, status, attempts, wasDone)
  BY IdleOK
<1>2. \A r \in Requests : req[r] = Idle
  BY DEF Init
<1>3. SlotsOK
  BY <1>1, <1>2 DEF SlotsOK
<1>4. NoFluency \in Fluency
  BY DEF NoFluency, Fluency
<1>5. Idle \in Request
  BY <1>1 DEF SlotOK
<1>6. TypeOK
  BY <1>4, <1>5 DEF Init, TypeOK, Status
<1>7. AckedIsStored /\ EventsAreTrue /\ FluencyIsReal /\ DoneBefore
  BY DEF Init, AckedIsStored, EventsAreTrue, FluencyIsReal, NoFluency, DoneBefore, Done
<1> QED
  BY <1>3, <1>6, <1>7 DEF IInv


-----------------------------------------------------------------------------
(* A step that only moves a request. *)
LEMMA MoveStep ==
  ASSUME IInv, NEW r \in Requests, NEW s, Keep(r, s),
         SlotOK(s, status, attempts, wasDone),
         UNCHANGED <<dbVars, busVars, history>>
  PROVE  IInv'
<1> USE DEF dbVars, busVars, history
<1>1. Grow /\ SlotOK(s, status', attempts', wasDone')
  BY DEF Grow
<1>2. SlotsOK' /\ req' \in [Requests -> Request]
  BY <1>1, KeepSlots DEF IInv
<1>3. TypeOK'
  BY <1>2 DEF IInv, TypeOK
<1>4. AckedIsStored' /\ EventsAreTrue' /\ FluencyIsReal' /\ DoneBefore'
  BY DEF IInv, AckedIsStored, EventsAreTrue, FluencyIsReal, DoneBefore, Done
<1> QED
  BY <1>2, <1>3, <1>4 DEF IInv

(* The slots that the steps of the fluency and of the loops over attempts  *)
(* leave behind.                                                           *)
LEMMA SumOK ==
  ASSUME NEW st, NEW at, NEW wd, NEW o, SlotOK(o, st, at, wd),
         o.pc \in {"patchWrite", "list", "stats", "store"},
         NEW p \in {"list", "stats", "store", "finished"},
         NEW sum \in Fluency,
         \A x \in sum.sessions : x[1] \in wd, sum.gates \subseteq at,
         p = "finished" => o.kind = "patch",
         o.kind = "patch" => o.session \in wd
  PROVE  SlotOK(Slot(p, o.kind, o.session, o.patch, NoRow, NoAttempt, {}, sum),
                st, at, wd)
<1> DEFINE s == Slot(p, o.kind, o.session, o.patch, NoRow, NoAttempt, {}, sum)
<1>1. o \in Request /\ o.kind \in {"patch", "sync"} /\ o.session \in Sessions
  BY DEF SlotOK, Summing, Patching
<1>2. NoRow \in Row
  BY DEF NoRow, Row, Status
<1>3. s \in Request
  BY <1>1, <1>2 DEF Slot, Request, PC
<1>4. Recording(s, at) /\ Patching(s, st)
  BY DEF Slot, Recording, Patching
<1>5. Syncing(s, st, at)
  <2> SUFFICES ASSUME o.kind = "sync" PROVE Syncing(s, st, at)
    BY DEF Slot, Syncing
  <2>1. o.pc # "patchWrite"
    BY DEF SlotOK, Patching
  <2>2. o.todo = {} /\ o.attempt = NoAttempt
    BY <2>1 DEF SlotOK, Summing
  <2>3. o.session \in Offline /\ st[o.session] # "none"
        /\ AttemptsOf(o.session) \subseteq at \union {NoAttempt}
    BY <2>2 DEF SlotOK, Syncing
  <2> QED
    BY <2>3 DEF Slot, Syncing
<1>6. Summing(s, at, wd)
  BY <1>1 DEF Slot, Summing
<1> QED
  BY <1>3, <1>4, <1>5, <1>6 DEF SlotOK

(* Attempts are still to record for session s. *)
ToRecord(kind, s, todo, st, at) ==
  /\ kind \in {"attempt", "sync"} /\ s \in Sessions /\ todo \in SUBSET Attempts
  /\ kind = "sync" => /\ s \in Offline /\ st[s] # "none"
                      /\ AttemptsOf(s) \subseteq at \union todo

LEMMA ProceedOK ==
  ASSUME NEW st, NEW at, NEW r \in Requests, NEW kind, NEW s, NEW todo,
         ToRecord(kind, s, todo, st, at), Proceed(r, kind, s, todo)
  PROVE  /\ \E x : Keep(r, x) /\ \A wd : SlotOK(x, st, at, wd)
         /\ \/ synced' = synced
            \/ /\ synced' = synced \union {s} /\ s \in Offline
               /\ st[s] # "none" /\ AttemptsOf(s) \subseteq at
<1> USE DEF ToRecord
<1>1. NoRow \in Row /\ NoFluency \in Fluency
  BY DEF NoRow, Row, Status, NoFluency, Fluency
<1>2. CASE todo # {}
  <2>1. PICK a \in todo :
          /\ Keep(r, Slot("check", kind, s, "none", NoRow, a, todo \ {a}, NoFluency))
          /\ UNCHANGED synced
    BY <1>2 DEF Proceed
  <2> DEFINE x == Slot("check", kind, s, "none", NoRow, a, todo \ {a}, NoFluency)
  <2>2. x \in Request
    BY <1>1 DEF Slot, Request, PC, Kind
  <2>3. Syncing(x, st, at)
    BY DEF Slot, Syncing
  <2>4. Recording(x, at) /\ (\A wd : Summing(x, at, wd)) /\ Patching(x, st)
    BY DEF Slot, Recording, Summing, Patching, NoFluency
  <2> QED
    BY <2>1, <2>2, <2>3, <2>4 DEF SlotOK
<1>3. CASE todo = {} /\ kind = "sync" /\ ReportedStatus[s] = "completed"
  <2> DEFINE x == Slot("list", kind, s, "none", NoRow, NoAttempt, {}, NoFluency)
  <2>1. Keep(r, x) /\ UNCHANGED synced
    BY <1>3 DEF Proceed
  <2>2. x \in Request
    BY <1>1 DEF Slot, Request, PC, Kind
  <2>3. Syncing(x, st, at)
    BY <1>3 DEF Slot, Syncing
  <2>4. Recording(x, at) /\ (\A wd : Summing(x, at, wd)) /\ Patching(x, st)
    BY <1>3 DEF Slot, Recording, Summing, Patching, NoFluency
  <2> QED
    BY <2>1, <2>2, <2>3, <2>4 DEF SlotOK
<1>4. CASE todo = {} /\ kind = "sync" /\ ReportedStatus[s] # "completed"
  <2>1. Keep(r, Idle) /\ synced' = synced \union {s}
    BY <1>4 DEF Proceed, Return
  <2> QED
    BY <1>4, <2>1, IdleOK
<1>5. CASE todo = {} /\ kind = "attempt"
  <2>1. Keep(r, Idle) /\ UNCHANGED synced
    BY <1>5 DEF Proceed, Return
  <2> QED
    BY <2>1, IdleOK
<1> QED
  BY <1>2, <1>3, <1>4, <1>5

-----------------------------------------------------------------------------
LEMMA CreateSessionStep ==
  ASSUME IInv, NEW s \in Online, CreateSession(s)
  PROVE  IInv'
<1> USE DEF busVars, CreateSession, SetStatus
<1>1. Grow
  BY DEF Grow, IInv, TypeOK
<1>2. SlotsOK' /\ req' \in [Requests -> Request]
  BY <1>1, SameSlots DEF IInv
<1>3. TypeOK'
  BY <1>2 DEF IInv, TypeOK, Status, Sessions
<1>4. AckedIsStored'
  BY <1>1 DEF IInv, TypeOK, AckedIsStored, Grow, Sessions
<1>5. EventsAreTrue' /\ FluencyIsReal'
  BY DEF IInv, EventsAreTrue, FluencyIsReal
<1>6. DoneBefore'
  BY DEF IInv, TypeOK, DoneBefore, Done
<1> QED
  BY <1>2, <1>3, <1>4, <1>5, <1>6 DEF IInv

LEMMA PatchFindStep ==
  ASSUME IInv, NEW r \in Requests, NEW s \in Sessions, NEW p \in Patches,
         PatchFind(r, s, p)
  PROVE  IInv'
<1> DEFINE x == Slot("patchRead", "patch", s, p, NoRow, NoAttempt, {}, NoFluency)
<1>1. NoRow \in Row /\ NoFluency \in Fluency
  BY DEF NoRow, Row, Status, NoFluency, Fluency
<1>2. x \in Request
  BY <1>1 DEF Slot, Request, PC, Kind
<1>3. SlotOK(x, status, attempts, wasDone)
  BY <1>2 DEF SlotOK, Slot, Recording, Syncing, Summing, Patching, NoFluency, PatchFind
<1>4. Keep(r, x)
  BY DEF PatchFind
<1> HIDE DEF x
<1> QED
  BY <1>3, <1>4, MoveStep DEF PatchFind

LEMMA PatchReadStep ==
  ASSUME IInv, NEW r \in Requests, PatchRead(r)
  PROVE  IInv'
<1> DEFINE s == req[r].session
           x == Slot("patchWrite", "patch", s, req[r].patch,
                     [status |-> status[s], words |-> words[s]],
                     NoAttempt, {}, NoFluency)
<1>1. SlotOK(req[r], status, attempts, wasDone)
  BY DEF IInv, SlotsOK
<1>2. s \in Sessions /\ req[r].patch \in Patches /\ status[s] # "none"
  BY <1>1 DEF SlotOK, Patching, PatchRead, At
<1>3. NoFluency \in Fluency /\ [status |-> status[s], words |-> words[s]] \in Row
  BY <1>2 DEF NoFluency, Fluency, Row, IInv, TypeOK
<1>4. x \in Request
  BY <1>2, <1>3 DEF Slot, Request, PC, Kind
<1>5. SlotOK(x, status, attempts, wasDone)
  BY <1>2, <1>4 DEF SlotOK, Slot, Recording, Syncing, Summing, Patching, NoFluency
<1>6. Keep(r, x)
  BY DEF PatchRead
<1> HIDE DEF x
<1> QED
  BY <1>5, <1>6, MoveStep DEF PatchRead

LEMMA PatchWriteStep ==
  ASSUME IInv, NEW r \in Requests, PatchWrite(r)
  PROVE  IInv'
<1> DEFINE o == req[r]
           st == PatchStatus(o.patch, o.read.status)
           w == PatchWords(o.patch, o.read.words)
<1> USE DEF busVars
<1>1. SlotOK(o, status, attempts, wasDone) /\ o.pc = "patchWrite"
  BY DEF IInv, SlotsOK, PatchWrite, At
<1>2. /\ o \in Request /\ o.session \in Sessions /\ o.kind = "patch"
      /\ o.read.status # "none"
  BY <1>1 DEF SlotOK, Patching
<1>3. st \in Status \ {"none"} /\ w \in 0 .. 2
  BY <1>2 DEF PatchStatus, PatchWords, Request, Row, Status
<1>4. /\ status' = [status EXCEPT ![o.session] = st]
      /\ words' = [words EXCEPT ![o.session] = w]
      /\ wasDone' = IF st = "completed" THEN wasDone \union {o.session} ELSE wasDone
  BY DEF PatchWrite, SetStatus
<1>5. UNCHANGED <<attempts, fluency, recorded, completed, synced, answered>>
  BY DEF PatchWrite
<1> HIDE DEF st, w
<1>6. Grow
  BY <1>2, <1>3, <1>4, <1>5 DEF Grow, IInv, TypeOK
<1>7. SlotOK(o, status', attempts', wasDone')
  BY <1>1, <1>6, SlotGrows
<1>8. \E s : Keep(r, s) /\ SlotOK(s, status', attempts', wasDone')
  <2>1. CASE o.patch = "finish"
    <3>1. o.session \in wasDone'
      BY <1>4, <2>1 DEF PatchStatus, st
    <3>2. NoFluency \in Fluency /\ NoFluency.sessions = {} /\ NoFluency.gates = {}
      BY DEF NoFluency, Fluency
    <3>3. SlotOK(Slot("list", o.kind, o.session, o.patch, NoRow, NoAttempt, {},
                      NoFluency), status', attempts', wasDone')
      BY <1>1, <1>2, <1>7, <3>1, <3>2, SumOK
    <3> QED
      BY <2>1, <3>3 DEF PatchWrite, Sum
  <2>2. CASE o.patch # "finish"
    BY <2>2, IdleOK DEF PatchWrite, Return
  <2> QED
    BY <2>1, <2>2
<1>9. SlotsOK' /\ req' \in [Requests -> Request]
  BY <1>6, <1>8, KeepSlots DEF IInv
<1>10. TypeOK'
  BY <1>2, <1>3, <1>4, <1>5, <1>9 DEF IInv, TypeOK
<1>11. AckedIsStored'
  BY <1>5, <1>6 DEF IInv, TypeOK, AckedIsStored, Grow, Sessions
<1>12. EventsAreTrue' /\ FluencyIsReal'
  BY <1>5, <1>6 DEF IInv, EventsAreTrue, FluencyIsReal, Grow
<1>13. DoneBefore'
  BY <1>4 DEF IInv, TypeOK, DoneBefore, Done
<1> QED
  BY <1>9, <1>10, <1>11, <1>12, <1>13 DEF IInv

LEMMA PublishCompletedStep ==
  ASSUME IInv, NEW r \in Requests, PublishCompleted(r)
  PROVE  IInv'
<1> USE DEF dbVars, history
<1>1. SlotOK(req[r], status, attempts, wasDone) /\ req[r].pc = "finished"
  BY DEF IInv, SlotsOK, PublishCompleted, At
<1>2. req[r].session \in wasDone /\ req[r].session \in Sessions
  BY <1>1 DEF SlotOK, Summing
<1>3. Grow /\ Keep(r, Idle) /\ SlotOK(Idle, status', attempts', wasDone')
  BY IdleOK DEF Grow, PublishCompleted, Return
<1>4. SlotsOK' /\ req' \in [Requests -> Request]
  BY <1>3, KeepSlots DEF IInv
<1>5. TypeOK'
  BY <1>2, <1>4 DEF PublishCompleted, IInv, TypeOK
<1>6. AckedIsStored' /\ EventsAreTrue' /\ FluencyIsReal' /\ DoneBefore'
  BY <1>2 DEF PublishCompleted, IInv, AckedIsStored, EventsAreTrue, FluencyIsReal,
              DoneBefore, Done
<1> QED
  BY <1>4, <1>5, <1>6 DEF IInv

LEMMA FluencyListStep ==
  ASSUME IInv, NEW r \in Requests, FluencyList(r)
  PROVE  IInv'
<1> DEFINE o == req[r]
           sum == [sessions |-> {<<s, words[s]>> : s \in Done}, gates |-> {}]
           x == Slot("stats", o.kind, o.session, o.patch, NoRow, NoAttempt, {}, sum)
<1>1. SlotOK(o, status, attempts, wasDone) /\ o.pc = "list"
  BY DEF IInv, SlotsOK, FluencyList, At
<1>2. sum \in Fluency
  BY DEF Fluency, Done, IInv, TypeOK
<1>3. \A y \in sum.sessions : y[1] \in wasDone
  BY DEF DoneBefore, IInv
<1>4. sum.gates \subseteq attempts /\ (o.kind = "patch" => o.session \in wasDone)
  BY <1>1 DEF SlotOK, Summing
<1>5. Keep(r, x)
  BY DEF FluencyList, Sum
<1> HIDE DEF sum
<1>6. SlotOK(x, status, attempts, wasDone)
  BY <1>1, <1>2, <1>3, <1>4, SumOK
<1> HIDE DEF x
<1> QED
  BY <1>5, <1>6, MoveStep DEF FluencyList

LEMMA FluencyStatsStep ==
  ASSUME IInv, NEW r \in Requests, FluencyStats(r)
  PROVE  IInv'
<1> DEFINE o == req[r]
           sum == [sessions |-> o.sum.sessions, gates |-> attempts]
           x == Slot("store", o.kind, o.session, o.patch, NoRow, NoAttempt, {}, sum)
<1>1. SlotOK(o, status, attempts, wasDone) /\ o.pc = "stats"
  BY DEF IInv, SlotsOK, FluencyStats, At
<1>2. sum \in Fluency
  BY <1>1 DEF Fluency, IInv, TypeOK, SlotOK, Request
<1>3. /\ \A y \in sum.sessions : y[1] \in wasDone
      /\ sum.gates \subseteq attempts
      /\ o.kind = "patch" => o.session \in wasDone
  BY <1>1 DEF SlotOK, Summing
<1>4. Keep(r, x)
  BY DEF FluencyStats, Sum
<1> HIDE DEF sum
<1>5. SlotOK(x, status, attempts, wasDone)
  BY <1>1, <1>2, <1>3, SumOK
<1> HIDE DEF x
<1> QED
  BY <1>4, <1>5, MoveStep DEF FluencyStats

LEMMA FluencyStoreStep ==
  ASSUME IInv, NEW r \in Requests, FluencyStore(r)
  PROVE  IInv'
<1> DEFINE o == req[r]
           x == Slot("finished", o.kind, o.session, o.patch, NoRow, NoAttempt, {},
                     NoFluency)
<1> USE DEF busVars
<1>1. SlotOK(o, status, attempts, wasDone) /\ o.pc = "store"
  BY DEF IInv, SlotsOK, FluencyStore, At
<1>2. /\ o.sum \in Fluency /\ o.sum.gates \subseteq attempts
      /\ \A y \in o.sum.sessions : y[1] \in wasDone
  BY <1>1 DEF SlotOK, Request, Summing
<1>3. /\ fluency' = o.sum
      /\ UNCHANGED <<status, words, attempts, recorded, completed, wasDone, answered>>
  BY DEF FluencyStore
<1>4. Grow
  BY <1>3 DEF Grow
<1>5. /\ \E y : Keep(r, y) /\ SlotOK(y, status', attempts', wasDone')
      /\ \/ synced' = synced
         \/ /\ synced' = synced \union {o.session} /\ o.session \in Offline
            /\ status[o.session] # "none" /\ AttemptsOf(o.session) \subseteq attempts
  <2>1. CASE o.kind = "patch"
    <3>1. NoFluency \in Fluency /\ NoFluency.sessions = {} /\ NoFluency.gates = {}
      BY DEF NoFluency, Fluency
    <3>2. o.session \in wasDone
      BY <1>1, <2>1 DEF SlotOK, Summing
    <3>3. SlotOK(x, status, attempts, wasDone)
      BY <1>1, <2>1, <3>1, <3>2, SumOK
    <3>4. Keep(r, x) /\ UNCHANGED synced
      BY <2>1 DEF FluencyStore, Sum
    <3> HIDE DEF x
    <3> QED
      BY <1>3, <3>3, <3>4
  <2>2. CASE o.kind # "patch"
    <3>1. o.kind = "sync" /\ o.todo = {} /\ o.attempt = NoAttempt
      BY <1>1, <2>2 DEF SlotOK, Summing
    <3>2. /\ o.session \in Offline /\ status[o.session] # "none"
          /\ AttemptsOf(o.session) \subseteq attempts \union {NoAttempt}
      BY <1>1, <3>1 DEF SlotOK, Syncing
    <3>3. AttemptsOf(o.session) \subseteq attempts
      BY <3>2, ConstantsAssumption DEF AttemptsOf
    <3>4. Keep(r, Idle) /\ synced' = synced \union {o.session}
      BY <2>2 DEF FluencyStore, Return
    <3> QED
      BY <1>3, <3>2, <3>3, <3>4, IdleOK
  <2> QED
    BY <2>1, <2>2
<1>6. SlotsOK' /\ req' \in [Requests -> Request]
  BY <1>4, <1>5, KeepSlots DEF IInv
<1>7. TypeOK'
  BY <1>2, <1>3, <1>5, <1>6 DEF IInv, TypeOK
<1>8. AckedIsStored'
  BY <1>3, <1>5 DEF IInv, AckedIsStored
<1>9. EventsAreTrue' /\ FluencyIsReal' /\ DoneBefore'
  BY <1>2, <1>3 DEF IInv, EventsAreTrue, FluencyIsReal, DoneBefore, Done
<1> QED
  BY <1>6, <1>7, <1>8, <1>9 DEF IInv

-----------------------------------------------------------------------------
LEMMA SyncSessionStep ==
  ASSUME IInv, NEW r \in Requests, NEW s \in Offline, SyncSession(r, s)
  PROVE  IInv'
<1> DEFINE st == ReportedStatus[s]
<1> USE DEF busVars
<1>1. st \in Status \ {"none"} /\ s \in Sessions
  BY ConstantsAssumption DEF Status, Sessions
<1>2. /\ status' = [status EXCEPT ![s] = st]
      /\ words' = [words EXCEPT ![s] = 1]
      /\ wasDone' = IF st = "completed" THEN wasDone \union {s} ELSE wasDone
      /\ UNCHANGED <<attempts, fluency, recorded, completed, answered>>
      /\ Proceed(r, "sync", s, AttemptsOf(s))
  BY DEF SyncSession, SetStatus
<1> HIDE DEF st
<1>3. Grow
  BY <1>1, <1>2 DEF Grow, IInv, TypeOK
<1>4. status'[s] # "none"
  BY <1>1, <1>2 DEF IInv, TypeOK
<1>5. ToRecord("sync", s, AttemptsOf(s), status', attempts')
  BY <1>1, <1>4 DEF ToRecord, AttemptsOf
<1>6. /\ \E x : Keep(r, x) /\ \A wd : SlotOK(x, status', attempts', wd)
      /\ \/ synced' = synced
         \/ synced' = synced \union {s} /\ AttemptsOf(s) \subseteq attempts'
  <2>1. Proceed(r, "sync", s, AttemptsOf(s))
    BY <1>2
  <2> QED
    BY <1>5, <2>1, ProceedOK
<1>7. SlotsOK' /\ req' \in [Requests -> Request]
  BY <1>3, <1>6, KeepSlots DEF IInv
<1>8. TypeOK'
  BY <1>1, <1>2, <1>6, <1>7 DEF IInv, TypeOK
<1>9. AckedIsStored'
  BY <1>2, <1>3, <1>4, <1>6 DEF IInv, TypeOK, AckedIsStored, Grow, Sessions
<1>10. EventsAreTrue' /\ FluencyIsReal'
  BY <1>2, <1>3 DEF IInv, EventsAreTrue, FluencyIsReal, Grow
<1>11. DoneBefore'
  BY <1>2 DEF IInv, TypeOK, DoneBefore, Done
<1> QED
  BY <1>7, <1>8, <1>9, <1>10, <1>11 DEF IInv

(* A step that records or answers attempts and leaves the tables alone. *)
LEMMA AnswerStep ==
  ASSUME IInv, NEW r \in Requests, NEW kind, NEW s, NEW todo,
         ToRecord(kind, s, todo, status, attempts), Proceed(r, kind, s, todo),
         UNCHANGED <<dbVars, completed, wasDone>>,
         answered' \subseteq attempts, recorded' \in [Attempts -> Nat],
         \A a \in Attempts : recorded'[a] > 0 => a \in attempts
  PROVE  IInv'
<1> USE DEF dbVars
<1>1. Grow
  BY DEF Grow
<1>2. /\ \E x : Keep(r, x) /\ SlotOK(x, status, attempts, wasDone)
      /\ \/ synced' = synced
         \/ /\ synced' = synced \union {s} /\ s \in Offline
            /\ status[s] # "none" /\ AttemptsOf(s) \subseteq attempts
  BY ProceedOK
<1>3. SlotsOK' /\ req' \in [Requests -> Request]
  BY <1>1, <1>2, KeepSlots DEF IInv
<1>4. TypeOK'
  BY <1>2, <1>3 DEF IInv, TypeOK
<1>5. AckedIsStored'
  BY <1>2 DEF IInv, AckedIsStored
<1>6. EventsAreTrue' /\ FluencyIsReal' /\ DoneBefore'
  BY DEF IInv, EventsAreTrue, FluencyIsReal, DoneBefore, Done
<1> QED
  BY <1>3, <1>4, <1>5, <1>6 DEF IInv

LEMMA AttemptFindStep ==
  ASSUME IInv, NEW r \in Requests, NEW a \in Attempts, AttemptFind(r, a)
  PROVE  IInv'
<1>1. ToRecord("attempt", SessionOf[a], {a}, status, attempts)
  BY ConstantsAssumption DEF ToRecord
<1>2. /\ Proceed(r, "attempt", SessionOf[a], {a})
      /\ UNCHANGED <<dbVars, completed, wasDone>>
      /\ answered' = answered /\ recorded' = recorded
  BY DEF AttemptFind, busVars
<1>3. /\ answered \subseteq attempts /\ recorded \in [Attempts -> Nat]
      /\ \A b \in Attempts : recorded[b] > 0 => b \in attempts
  BY DEF IInv, AckedIsStored, EventsAreTrue, TypeOK
<1> QED
  BY <1>1, <1>2, <1>3, AnswerStep

LEMMA RecordingRequest ==
  ASSUME IInv, NEW r \in Requests, req[r].pc \in {"check", "insert", "announce"}
  PROVE  ToRecord(req[r].kind, req[r].session, req[r].todo \union {req[r].attempt},
                  status, attempts)
<1>1. SlotOK(req[r], status, attempts, wasDone)
  BY DEF IInv, SlotsOK
<1>2. req[r].todo \in SUBSET Attempts /\ req[r].attempt \in Attempts
  BY <1>1 DEF SlotOK, Request, Recording
<1> QED
  BY <1>1, <1>2 DEF SlotOK, Recording, Syncing, ToRecord

LEMMA AttemptKnownStep ==
  ASSUME IInv, NEW r \in Requests, AttemptKnown(r)
  PROVE  IInv'
<1> DEFINE o == req[r]
<1>1. o.pc = "check" /\ o.attempt \in attempts
  BY DEF AttemptKnown, At, AlreadyRecorded
<1>2. ToRecord(o.kind, o.session, o.todo, status, attempts)
  BY <1>1, RecordingRequest DEF ToRecord
<1>3. /\ Proceed(r, o.kind, o.session, o.todo)
      /\ UNCHANGED <<dbVars, completed, wasDone>>
      /\ answered' = answered \union {o.attempt} /\ recorded' = recorded
  BY DEF AttemptKnown, busVars
<1>4. /\ answered \subseteq attempts /\ recorded \in [Attempts -> Nat]
      /\ \A b \in Attempts : recorded[b] > 0 => b \in attempts
  BY DEF IInv, AckedIsStored, EventsAreTrue, TypeOK
<1>5. answered' \subseteq attempts
  BY <1>1, <1>3, <1>4
<1> QED
  BY <1>2, <1>3, <1>4, <1>5, AnswerStep

(* Between the check, the insert and the event a request keeps its job. *)
LEMMA RecordingSlot ==
  ASSUME NEW st, NEW at, NEW wd, NEW o, SlotOK(o, st, at, wd),
         o.pc \in {"check", "insert"}, NEW p \in {"insert", "announce"},
         p = "announce" => o.attempt \in at
  PROVE  SlotOK(Slot(p, o.kind, o.session, "none", NoRow, o.attempt, o.todo, NoFluency),
                st, at, wd)
<1> DEFINE x == Slot(p, o.kind, o.session, "none", NoRow, o.attempt, o.todo, NoFluency)
<1>1. /\ o \in Request /\ o.kind \in {"attempt", "sync"} /\ o.session \in Sessions
      /\ o.attempt \in Attempts
  BY DEF SlotOK, Recording
<1>2. NoRow \in Row /\ NoFluency \in Fluency
  BY DEF NoRow, Row, Status, NoFluency, Fluency
<1>3. x \in Request
  BY <1>1, <1>2 DEF Slot, Request, PC
<1>4. Syncing(x, st, at)
  BY DEF SlotOK, Slot, Syncing
<1>5. Recording(x, at) /\ Summing(x, at, wd) /\ Patching(x, st)
  BY <1>1 DEF Slot, Recording, Summing, Patching, NoFluency
<1> QED
  BY <1>3, <1>4, <1>5 DEF SlotOK

LEMMA AttemptNewStep ==
  ASSUME IInv, NEW r \in Requests, AttemptNew(r)
  PROVE  IInv'
<1> DEFINE o == req[r]
           x == Slot("insert", o.kind, o.session, "none", NoRow, o.attempt, o.todo,
                     NoFluency)
<1>1. SlotOK(o, status, attempts, wasDone) /\ o.pc = "check"
  BY DEF IInv, SlotsOK, AttemptNew, At
<1>2. SlotOK(x, status, attempts, wasDone)
  BY <1>1, RecordingSlot
<1>3. Keep(r, x)
  BY DEF AttemptNew
<1> HIDE DEF x
<1> QED
  BY <1>2, <1>3, MoveStep DEF AttemptNew

LEMMA AttemptInsertStep ==
  ASSUME IInv, NEW r \in Requests, AttemptInsert(r)
  PROVE  IInv'
<1> DEFINE o == req[r]
           x == Slot("announce", o.kind, o.session, "none", NoRow, o.attempt, o.todo,
                     NoFluency)
<1> USE DEF busVars, history
<1>1. SlotOK(o, status, attempts, wasDone) /\ o.pc = "insert"
  BY DEF IInv, SlotsOK, AttemptInsert, At
<1>2. o.attempt \in Attempts
  BY <1>1 DEF SlotOK, Recording
<1>3. /\ attempts' = attempts \union {o.attempt} /\ Keep(r, x)
      /\ UNCHANGED <<status, words, fluency, busVars, history>>
  BY DEF AttemptInsert
<1>4. Grow
  BY <1>3 DEF Grow
<1>5. SlotOK(o, status', attempts', wasDone')
  BY <1>1, <1>4, SlotGrows
<1>6. SlotOK(x, status', attempts', wasDone')
  BY <1>1, <1>3, <1>5, RecordingSlot
<1> HIDE DEF x
<1>7. SlotsOK' /\ req' \in [Requests -> Request]
  BY <1>3, <1>4, <1>6, KeepSlots DEF IInv
<1>8. TypeOK'
  BY <1>2, <1>3, <1>7 DEF IInv, TypeOK
<1>9. AckedIsStored' /\ EventsAreTrue' /\ FluencyIsReal' /\ DoneBefore'
  BY <1>3 DEF IInv, AckedIsStored, EventsAreTrue, FluencyIsReal, DoneBefore, Done
<1> QED
  BY <1>7, <1>8, <1>9 DEF IInv

LEMMA AttemptPublishStep ==
  ASSUME IInv, NEW r \in Requests, AttemptPublish(r)
  PROVE  IInv'
<1> DEFINE o == req[r]
<1>1. SlotOK(o, status, attempts, wasDone) /\ o.pc = "announce"
  BY DEF IInv, SlotsOK, AttemptPublish, At
<1>2. o.attempt \in attempts
  BY <1>1 DEF SlotOK, Recording
<1>3. ToRecord(o.kind, o.session, o.todo, status, attempts)
  BY <1>1, <1>2, RecordingRequest DEF ToRecord
<1>4. /\ Proceed(r, o.kind, o.session, o.todo)
      /\ UNCHANGED <<dbVars, completed, wasDone>>
      /\ answered' = answered \union {o.attempt}
      /\ recorded' = [recorded EXCEPT ![o.attempt] = @ + 1]
  BY DEF AttemptPublish
<1>5. /\ answered \subseteq attempts /\ recorded \in [Attempts -> Nat]
      /\ \A b \in Attempts : recorded[b] > 0 => b \in attempts
  BY DEF IInv, AckedIsStored, EventsAreTrue, TypeOK
<1>6. answered' \subseteq attempts
  BY <1>2, <1>4, <1>5
<1>7. \A b \in Attempts : recorded'[b] =
                            IF b = o.attempt THEN recorded[b] + 1 ELSE recorded[b]
  BY <1>4, <1>5
<1>8. recorded' \in [Attempts -> Nat]
  <2>1. recorded' = [b \in Attempts |-> recorded'[b]]
    BY <1>4, <1>5
  <2>2. \A b \in Attempts : recorded'[b] \in Nat
    BY <1>5, <1>7
  <2> QED
    BY <2>1, <2>2
<1>9. \A b \in Attempts : recorded'[b] > 0 => b \in attempts
  BY <1>2, <1>5, <1>7
<1> QED
  BY <1>3, <1>4, <1>6, <1>8, <1>9, AnswerStep

LEMMA CrashStep ==
  ASSUME IInv, NEW r \in Requests, Crash(r)
  PROVE  IInv'
<1>1. Keep(r, Idle) /\ SlotOK(Idle, status, attempts, wasDone)
  BY IdleOK DEF Crash, Return
<1> QED
  BY <1>1, MoveStep DEF Crash

LEMMA StepInv == IInv /\ [Next]_vars => IInv'
<1> SUFFICES ASSUME IInv, [Next]_vars PROVE IInv'
  OBVIOUS
<1>1. CASE \E s \in Online : CreateSession(s)
  BY <1>1, CreateSessionStep
<1>2. ASSUME NEW r \in Requests, Work(r) PROVE IInv'
  <2>1. CASE \E s \in Sessions, p \in Patches : PatchFind(r, s, p)
    BY <2>1, PatchFindStep
  <2>2. CASE PatchRead(r) \/ PatchWrite(r) \/ PublishCompleted(r)
    BY <2>2, PatchReadStep, PatchWriteStep, PublishCompletedStep
  <2>3. CASE FluencyList(r) \/ FluencyStats(r) \/ FluencyStore(r)
    BY <2>3, FluencyListStep, FluencyStatsStep, FluencyStoreStep
  <2>4. CASE \E s \in Offline : SyncSession(r, s)
    BY <2>4, SyncSessionStep
  <2>5. CASE \E a \in Attempts : AttemptFind(r, a)
    BY <2>5, AttemptFindStep
  <2>6. CASE AttemptKnown(r) \/ AttemptNew(r)
    BY <2>6, AttemptKnownStep, AttemptNewStep
  <2>7. CASE AttemptInsert(r) \/ AttemptPublish(r)
    BY <2>7, AttemptInsertStep, AttemptPublishStep
  <2> QED
    BY <1>2, <2>1, <2>2, <2>3, <2>4, <2>5, <2>6, <2>7 DEF Work
<1>3. CASE \E r \in Requests : Crash(r)
  BY <1>3, CrashStep
<1>4. CASE UNCHANGED vars
  <2>1. UNCHANGED <<dbVars, busVars, history, req>>
    BY <1>4 DEF vars
  <2>2. Grow
    BY <2>1 DEF Grow, dbVars, history
  <2>3. SlotsOK'
    BY <2>1, <2>2, SameSlots DEF IInv
  <2>4. TypeOK'
    BY <2>1 DEF IInv, TypeOK, dbVars, busVars, history
  <2>5. AckedIsStored' /\ EventsAreTrue' /\ FluencyIsReal' /\ DoneBefore'
    BY <2>1 DEF IInv, AckedIsStored, EventsAreTrue, FluencyIsReal, DoneBefore, Done,
                dbVars, busVars, history
  <2> QED
    BY <2>3, <2>4, <2>5 DEF IInv
<1> QED
  BY <1>1, <1>2, <1>3, <1>4 DEF Next

LEMMA Invariance == Spec => []IInv
<1> QED
  BY InitInv, StepInv, PTL DEF Spec

-----------------------------------------------------------------------------
(* Every table, event and request of progress-service has its type, in     *)
(* every behaviour of any number of overlapping requests.                  *)
THEOREM TypeCorrect == Spec => []TypeOK
<1>1. IInv => TypeOK
  BY DEF IInv
<1> QED
  BY <1>1, Invariance, PTL

(* What batchSync calls synced, or recordGateAttempt answers, is in the    *)
(* tables: the device may forget it, whatever crashes and overlaps.        *)
THEOREM AnswersAreDurable == Spec => []AckedIsStored
<1>1. IInv => AckedIsStored
  BY DEF IInv
<1> QED
  BY <1>1, Invariance, PTL

(* No gate_attempt.recorded event precedes its row and no                  *)
(* session.completed event its completion.                                 *)
THEOREM EventsFollowRows == Spec => []EventsAreTrue
<1>1. IInv => EventsAreTrue
  BY DEF IInv
<1> QED
  BY <1>1, Invariance, PTL

(* However recomputeFluency overlaps with writers and with itself, the     *)
(* record it leaves counts only completed sessions and stored attempts.    *)
THEOREM FluencyCountsRealWork == Spec => []FluencyIsReal
<1>1. IInv => FluencyIsReal
  BY DEF IInv
<1> QED
  BY <1>1, Invariance, PTL

(* What a step may put in the slot of a request. *)
Harmless(r, x) ==
  \/ x.attempt = NoAttempt
  \/ x.pc = "check"
  \/ x.attempt = req[r].attempt /\ (x.attempt \notin attempts \/ ~ At(r, "check"))

LEMMA StepIsHarmless ==
  ASSUME Next
  PROVE  /\ attempts \subseteq attempts'
         /\ req' = req \/ \E r \in Requests : \E x : Keep(r, x) /\ Harmless(r, x)
         /\ UNCHANGED recorded \/ \E r \in Requests : AttemptPublish(r)
<1>1. CASE \E s \in Online : CreateSession(s)
  BY <1>1 DEF CreateSession, busVars
<1>2. CASE \E r \in Requests : \/ \E s \in Sessions, p \in Patches : PatchFind(r, s, p)
                               \/ PatchRead(r) \/ Crash(r) \/ PublishCompleted(r)
  <2>1. PICK r \in Requests : \/ \E s \in Sessions, p \in Patches : PatchFind(r, s, p)
                             \/ PatchRead(r) \/ Crash(r) \/ PublishCompleted(r)
    BY <1>2
  <2>2. UNCHANGED <<attempts, recorded>>
    BY <2>1 DEF PatchFind, PatchRead, Crash, PublishCompleted, dbVars, busVars
  <2>3. \E x : Keep(r, x) /\ x.attempt = NoAttempt
    <3>1. CASE Return(r)
      BY <3>1 DEF Return, Idle, Slot
    <3>2. CASE \E s \in Sessions, p \in Patches : PatchFind(r, s, p)
      BY <3>2 DEF PatchFind, Slot
    <3>3. CASE PatchRead(r)
      BY <3>3 DEF PatchRead, Slot
    <3> QED
      BY <2>1, <3>1, <3>2, <3>3 DEF Crash, PublishCompleted
  <2> QED
    BY <2>2, <2>3 DEF Harmless
<1>3. CASE \E r \in Requests : \/ PatchWrite(r)
                               \/ FluencyList(r) \/ FluencyStats(r) \/ FluencyStore(r)
  <2>1. PICK r \in Requests : \/ PatchWrite(r) \/ FluencyList(r)
                             \/ FluencyStats(r) \/ FluencyStore(r)
    BY <1>3
  <2>2. ASSUME NEW p, NEW sum, Sum(r, p, sum)
        PROVE  \E x : Keep(r, x) /\ Harmless(r, x)
    BY <2>2 DEF Sum, Slot, Harmless
  <2>3. Return(r) => \E x : Keep(r, x) /\ Harmless(r, x)
    BY DEF Return, Idle, Slot, Harmless
  <2>4. UNCHANGED <<attempts, recorded>>
    BY <2>1 DEF PatchWrite, FluencyList, FluencyStats, FluencyStore, dbVars, busVars
  <2>5. Return(r) \/ \E p, sum : Sum(r, p, sum)
    BY <2>1 DEF PatchWrite, FluencyList, FluencyStats, FluencyStore
  <2> QED
    BY <2>2, <2>3, <2>4, <2>5
<1>4. ASSUME NEW r, NEW kind, NEW s, NEW todo, Proceed(r, kind, s, todo)
      PROVE  \E x : Keep(r, x) /\ Harmless(r, x)
  <2>1. CASE \E a \in todo :
               Keep(r, Slot("check", kind, s, "none", NoRow, a, todo \ {a}, NoFluency))
    BY <2>1 DEF Slot, Harmless
  <2>2. CASE Keep(r, Slot("list", kind, s, "none", NoRow, NoAttempt, {}, NoFluency))
    BY <2>2 DEF Slot, Harmless
  <2>3. CASE Keep(r, Idle)
    BY <2>3 DEF Idle, Slot, Harmless
  <2> QED
    BY <1>4, <2>1, <2>2, <2>3 DEF Proceed, Return
<1>5. CASE \E r \in Requests : \/ \E s \in Offline : SyncSession(r, s)
                               \/ \E a \in Attempts : AttemptFind(r, a)
                               \/ AttemptKnown(r) \/ AttemptPublish(r)
  BY <1>4, <1>5 DEF SyncSession, AttemptFind, AttemptKnown, AttemptPublish,
                    dbVars, busVars
<1>6. CASE \E r \in Requests : AttemptNew(r) \/ AttemptInsert(r)
  BY <1>6 DEF AttemptNew, AttemptInsert, AlreadyRecorded, At, Slot, Harmless,
              dbVars, busVars
<1> QED
  BY <1>1, <1>2, <1>3, <1>5, <1>6 DEF Next, Work

(* Recording a stored attempt again, in a batch or by a repeated request,  *)
(* emits no event unless some request was past its check already.          *)
THEOREM StoredAttemptsAreSilent == Spec => RecordedOnce
<1> DEFINE Silent == \A a \in Attempts :
                       Settled(a) => Settled(a)' /\ recorded'[a] = recorded[a]
<1>1. ASSUME TypeOK, Next PROVE Silent
  <2> SUFFICES ASSUME NEW a \in Attempts, Settled(a)
               PROVE  Settled(a)' /\ recorded'[a] = recorded[a]
    OBVIOUS
  <2>1. \A q \in Requests : req'[q].attempt = a => req'[q].pc = "check"
    <3>1. CASE req' = req
      BY <3>1 DEF Settled, At
    <3>2. CASE \E r \in Requests : \E x : Keep(r, x) /\ Harmless(r, x)
      <4>1. PICK r \in Requests : \E x : Keep(r, x) /\ Harmless(r, x)
        BY <3>2
      <4>2. PICK x : Keep(r, x) /\ Harmless(r, x)
        BY <4>1
      <4>3. x.attempt = a => x.pc = "check"
        BY <4>2, ConstantsAssumption DEF Harmless, Settled
      <4>4. \A q \in Requests : req'[q] = IF q = r THEN x ELSE req[q]
        BY <1>1, <4>2 DEF Keep, TypeOK
      <4> QED
        BY <4>3, <4>4 DEF Settled, At
    <3> QED
      BY <1>1, <3>1, <3>2, StepIsHarmless
  <2>2. Settled(a)'
    BY <1>1, <2>1, StepIsHarmless DEF Settled, At
  <2>3. recorded'[a] = recorded[a]
    <3>1. CASE \E r \in Requests : AttemptPublish(r)
      <4>1. PICK r \in Requests : AttemptPublish(r)
        BY <3>1
      <4>2. req[r].attempt # a
        BY <4>1 DEF AttemptPublish, At, Settled
      <4> QED
        BY <1>1, <4>1, <4>2 DEF AttemptPublish, TypeOK
    <3> QED
      BY <1>1, <3>1, StepIsHarmless
  <2> QED
    BY <2>2, <2>3
<1>2. TypeOK /\ [Next]_vars => [Silent]_vars
  BY <1>1
<1> QED
  BY <1>2, TypeCorrect, PTL DEF Spec, RecordedOnce

=============================================================================
