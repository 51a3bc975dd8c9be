---------------------------- MODULE ProgressSync ----------------------------
(***************************************************************************)
(* Reading sessions of one student in progress-service (src/services/      *)
(* progress-service/src/progress-service.ts over the PostgreSQL repository *)
(* of repo/progress-repo.ts).                                              *)
(*                                                                         *)
(* A request in flight is a slot of `req'; every `await' on the repository *)
(* or the event bus ends a step.  Crash drops a request at an await: the   *)
(* process stops, or the call fails and the handler throws; batchSync      *)
(* turns the latter into a failed session, which the client is told.       *)
(*                                                                         *)
(* Sessions of a batch are handled one by one, each of them is a request   *)
(* here.  What a session reports is reduced to its words: 0 when created,  *)
(* 1 as the batch reports it, 2 as a PATCH reports it.  The trend and the  *)
(* averages of the fluency record are left out: the record is the set of   *)
(* completed sessions, with their words, and the set of attempts that it   *)
(* was computed from.                                                      *)
(***************************************************************************)
EXTENDS Naturals

CONSTANTS Online,         \* ids of sessions created by POST /sessions
          Offline,        \* ids of sessions created on the device
          Attempts,       \* client-made ids of gate attempts
          SessionOf,      \* the session of each attempt
          ReportedStatus, \* the status the batch reports for a session
          Requests,       \* the requests that can be in flight together
          Patches,        \* what PATCH requests ask for
          NoSession, NoAttempt

Sessions == Online \union Offline

ASSUME ConstantsAssumption ==
  /\ Online \intersect Offline = {}
  /\ NoSession \notin Sessions
  /\ NoAttempt \notin Attempts
  /\ SessionOf \in [Attempts -> Sessions]
  /\ ReportedStatus \in [Offline -> {"active", "completed", "abandoned"}]
  /\ Patches \subseteq {"finish", "abandon", "words"}

VARIABLES
  status,     \* sessions.status, or "none"
  words,      \* sessions.words_read
  attempts,   \* the rows of gate_attempts
  fluency,    \* what the row of fluency_scores was computed from
  recorded,   \* the gate_attempt.recorded events of each attempt
  completed,  \* the sessions with a session.completed event
  req,        \* the request in each slot
  wasDone,    \* history: the sessions whose status has been completed
  synced,     \* history: the sessions the batch answered as synced
  answered    \* history: the attempts that were answered

dbVars == <<status, words, attempts, fluency>>
busVars == <<recorded, completed>>
history == <<wasDone, synced, answered>>
vars == <<dbVars, busVars, req, history>>

Status == {"none", "active", "completed", "abandoned"}
PC == {"idle", "patchRead", "patchWrite", "list", "stats", "store", "finished",
       "check", "insert", "announce"}
Kind == {"none", "patch", "attempt", "sync"}
Row == [status : Status, words : 0 .. 2]
Fluency == [sessions : SUBSET (Sessions \X (0 .. 2)), gates : SUBSET Attempts]

(* A slot: the kind of request, its session, the patch, the row read, the  *)
(* attempt being recorded, the attempts still to record, the fluency being *)
(* computed.                                                               *)
Request ==
  [pc : PC, kind : Kind, session : Sessions \union {NoSession},
   patch : Patches \union {"none"}, read : Row,
   attempt : Attempts \union {NoAttempt}, todo : SUBSET Attempts, sum : Fluency]

NoRow == [status |-> "none", words |-> 0]
NoFluency == [sessions |-> {}, gates |-> {}]
Slot(pc, kind, session, patch, read, attempt, todo, sum) ==
  [pc |-> pc, kind |-> kind, session |-> session, patch |-> patch,
   read |-> read, attempt |-> attempt, todo |-> todo, sum |-> sum]
Idle == Slot("idle", "none", NoSession, "none", NoRow, NoAttempt, {}, NoFluency)

TypeOK ==
  /\ status \in [Sessions -> Status]
  /\ words \in [Sessions -> 0 .. 2]
  /\ attempts \subseteq Attempts
  /\ fluency \in Fluency
  /\ recorded \in [Attempts -> Nat]
  /\ completed \subseteq Sessions
  /\ req \in [Requests -> Request]
  /\ wasDone \subseteq Sessions
  /\ synced \subseteq Offline
  /\ answered \subseteq Attempts

Init ==
  /\ status = [s \in Sessions |-> "none"]
  /\ words = [s \in Sessions |-> 0]
  /\ attempts = {}
  /\ fluency = NoFluency
  /\ recorded = [a \in Attempts |-> 0]
  /\ completed = {}
  /\ req = [r \in Requests |-> Idle]
  /\ wasDone = {}
  /\ synced = {}
  /\ answered = {}

At(r, p) == req[r].pc = p
Keep(r, slot) == req' = [req EXCEPT ![r] = slot]
Return(r) == Keep(r, Idle)
(* The request goes to p, having computed so much of the fluency. *)
Sum(r, p, sum) ==
  Keep(r, Slot(p, req[r].kind, req[r].session, req[r].patch, NoRow,
               NoAttempt, {}, sum))

(* A plausible slip, used only to show that a property notices it. *)
EveryStarted == {s \in Sessions : status[s] # "none"}

AttemptsOf(s) == {a \in Attempts : SessionOf[a] = s}
Done == {s \in Sessions : status[s] = "completed"}
SetStatus(s, st) ==
  /\ status' = [status EXCEPT ![s] = st]
  /\ wasDone' = IF st = "completed" THEN wasDone \union {s} ELSE wasDone

-----------------------------------------------------------------------------
(* Plausible slips, used only to show that the properties notice them. *)
NeverRecorded(a) == FALSE
ProceedAtOnce(r, kind, s, todo) ==
  /\ Return(r)
  /\ synced' = IF kind = "sync" THEN synced \union {s} ELSE synced
AnnounceFirst(r) ==
  /\ At(r, "check")
  /\ req[r].attempt \notin attempts
  /\ recorded' = [recorded EXCEPT ![req[r].attempt] = @ + 1]
  /\ Keep(r, Slot("insert", req[r].kind, req[r].session, "none", NoRow,
                  req[r].attempt, req[r].todo, NoFluency))
  /\ UNCHANGED <<dbVars, completed, history>>

-----------------------------------------------------------------------------
(* createSession *)
CreateSession(s) ==
  /\ status[s] = "none"
  /\ SetStatus(s, "active")
  /\ words' = [words EXCEPT ![s] = 0]
  /\ UNCHANGED <<attempts, fluency, busVars, req, synced, answered>>

-----------------------------------------------------------------------------
(* PATCH /sessions/:id.  The route reads the session, the repository reads *)
(* it again and writes status and words together.                          *)
PatchStatus(p, st) ==
  IF p = "finish" THEN "completed" ELSE IF p = "abandon" THEN "abandoned" ELSE st
PatchWords(p, w) == IF p = "abandon" THEN w ELSE 2

PatchFind(r, s, p) ==
  /\ At(r, "idle")
  /\ status[s] # "none"
  /\ Keep(r, Slot("patchRead", "patch", s, p, NoRow, NoAttempt, {}, NoFluency))
  /\ UNCHANGED <<dbVars, busVars, history>>

PatchRead(r) ==
  /\ At(r, "patchRead")
  /\ LET s == req[r].session IN
       Keep(r, Slot("patchWrite", "patch", s, req[r].patch,
                    [status |-> status[s], words |-> words[s]],
                    NoAttempt, {}, NoFluency))
  /\ UNCHANGED <<dbVars, busVars, history>>

PatchWrite(r) ==
  /\ At(r, "patchWrite")
  /\ SetStatus(req[r].session, PatchStatus(req[r].patch, req[r].read.status))
  /\ words' = [words EXCEPT ![req[r].session] =
                 PatchWords(req[r].patch, req[r].read.words)]
  /\ IF req[r].patch = "finish" THEN Sum(r, "list", NoFluency) ELSE Return(r)
  /\ UNCHANGED <<attempts, fluency, busVars, synced, answered>>

(* The session.completed event, after the fluency. *)
PublishCompleted(r) ==
  /\ At(r, "finished")
  /\ completed' = completed \union {req[r].session}
  /\ Return(r)
  /\ UNCHANGED <<dbVars, recorded, history>>

-----------------------------------------------------------------------------
(* recomputeFluency: the sessions are read, then the gate statistics, then *)
(* the whole record is written.                                            *)
FluencyList(r) ==
  /\ At(r, "list")
  /\ Sum(r, "stats", [sessions |-> {<<s, words[s]>> : s \in Done}, gates |-> {}])
  /\ UNCHANGED <<dbVars, busVars, history>>

FluencyStats(r) ==
  /\ At(r, "stats")
  /\ Sum(r, "store", [sessions |-> req[r].sum.sessions, gates |-> attempts])
  /\ UNCHANGED <<dbVars, busVars, history>>

FluencyStore(r) ==
  /\ At(r, "store")
  /\ fluency' = req[r].sum
  /\ IF req[r].kind = "patch"
     THEN Sum(r, "finished", NoFluency) /\ UNCHANGED synced
     ELSE Return(r) /\ synced' = synced \union {req[r].session}
  /\ UNCHANGED <<status, words, attempts, busVars, wasDone, answered>>

-----------------------------------------------------------------------------
(* What follows the attempts that are recorded: the next attempt of the    *)
(* session, or, in a batch, the fluency of a completed one.                *)
Proceed(r, kind, s, todo) ==
  \/ \E a \in todo :
       /\ Keep(r, Slot("check", kind, s, "none", NoRow, a, todo \ {a}, NoFluency))
       /\ UNCHANGED synced
  \/ /\ todo = {}
     /\ kind = "sync" /\ ReportedStatus[s] = "completed"
     /\ Keep(r, Slot("list", kind, s, "none", NoRow, NoAttempt, {}, NoFluency))
     /\ UNCHANGED synced
  \/ /\ todo = {}
     /\ kind = "sync" /\ ReportedStatus[s] # "completed"
     /\ Return(r)
     /\ synced' = synced \union {s}
  \/ /\ todo = {}
     /\ kind = "attempt"
     /\ Return(r)
     /\ UNCHANGED synced

(* syncOneOfflineSession: the row is inserted or overwritten. *)
SyncSession(r, s) ==
  /\ At(r, "idle")
  /\ SetStatus(s, ReportedStatus[s])
  /\ words' = [words EXCEPT ![s] = 1]
  /\ Proceed(r, "sync", s, AttemptsOf(s))
  /\ UNCHANGED <<attempts, fluency, busVars, answered>>

(* POST /sessions/:id/gate-attempts *)
AttemptFind(r, a) ==
  /\ At(r, "idle")
  /\ status[SessionOf[a]] # "none"
  /\ Proceed(r, "attempt", SessionOf[a], {a})
  /\ UNCHANGED <<dbVars, busVars, wasDone, answered>>

(* recordGateAttempt: an attempt whose id is known is answered at once. *)
AlreadyRecorded(a) == a \in attempts

AttemptKnown(r) ==
  /\ At(r, "check")
  /\ AlreadyRecorded(req[r].attempt)
  /\ answered' = answered \union {req[r].attempt}
  /\ Proceed(r, req[r].kind, req[r].session, req[r].todo)
  /\ UNCHANGED <<dbVars, busVars, wasDone>>

AttemptNew(r) ==
  /\ At(r, "check")
  /\ ~ AlreadyRecorded(req[r].attempt)
  /\ Keep(r, Slot("insert", req[r].kind, req[r].session, "none", NoRow,
                  req[r].attempt, req[r].todo, NoFluency))
  /\ UNCHANGED <<dbVars, busVars, history>>

AttemptInsert(r) ==
  /\ At(r, "insert")
  /\ attempts' = attempts \union {req[r].attempt}
  /\ Keep(r, Slot("announce", req[r].kind, req[r].session, "none", NoRow,
                  req[r].attempt, req[r].todo, NoFluency))
  /\ UNCHANGED <<status, words, fluency, busVars, history>>

AttemptPublish(r) ==
  /\ At(r, "announce")
  /\ recorded' = [recorded EXCEPT ![req[r].attempt] = @ + 1]
  /\ answered' = answered \union {req[r].attempt}
  /\ Proceed(r, req[r].kind, req[r].session, req[r].todo)
  /\ UNCHANGED <<dbVars, completed, wasDone>>

(* The request is lost at an await. *)
Crash(r) ==
  /\ ~ At(r, "idle")
  /\ Return(r)
  /\ UNCHANGED <<dbVars, busVars, history>>

-----------------------------------------------------------------------------
Work(r) ==
  \/ \E s \in Sessions, p \in Patches : PatchFind(r, s, p)
  \/ PatchRead(r) \/ PatchWrite(r) \/ PublishCompleted(r)
  \/ FluencyList(r) \/ FluencyStats(r) \/ FluencyStore(r)
  \/ \E s \in Offline : SyncSession(r, s)
  \/ \E a \in Attempts : AttemptFind(r, a)
  \/ AttemptKnown(r) \/ AttemptNew(r) \/ AttemptInsert(r) \/ AttemptPublish(r)

Next ==
  \/ \E s \in Online : CreateSession(s)
  \/ \E r \in Requests : Work(r) \/ Crash(r)

Spec == Init /\ [][Next]_vars

-----------------------------------------------------------------------------
(* What the app may rely on when it forgets a session or an attempt        *)
(* (sync-queue.ts deletes what batchSync did not call failed): the session *)
(* has its row and all its attempts have theirs.                           *)
AckedIsStored ==
  /\ \A s \in synced : status[s] # "none" /\ AttemptsOf(s) \subseteq attempts
  /\ answered \subseteq attempts

(* Consumers are told only of attempts that have a row, and of sessions    *)
(* that were completed.                                                    *)
EventsAreTrue ==
  /\ \A a \in Attempts : recorded[a] > 0 => a \in attempts
  /\ completed \subseteq wasDone

(* The fluency record, however stale, counts only sessions that were       *)
(* completed and attempts that are stored.                                 *)
FluencyIsReal ==
  /\ \A x \in fluency.sessions : x[1] \in wasDone
  /\ fluency.gates \subseteq attempts

(* Recording an attempt again (a retried request, a re-sent batch) emits   *)
(* no event, and never will, once its row is there and the requests that   *)
(* did not see it are through.                                             *)
Settled(a) ==
  a \in attempts /\ \A r \in Requests : req[r].attempt = a => At(r, "check")
RecordedOnce ==
  [][\A a \in Attempts : Settled(a) => Settled(a)' /\ recorded'[a] = recorded[a]]_vars

=============================================================================
