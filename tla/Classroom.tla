----------------------------- MODULE Classroom ------------------------------
(***************************************************************************)
(* classroom-service: rooms, join codes, members and goals                 *)
(* (src/services/classroom-service/src) over PostgreSQL.                   *)
(*                                                                         *)
(* A request in flight is a slot of `req' and every await whose answer is  *)
(* used later ends a step.  getClassroom asks only whether deleted_at is   *)
(* set, and nothing clears it: reads of it that follow one another are one *)
(* step, the last.  The id of a room is a UUID its teacher learns from the *)
(* answer, so that no request names a room whose creation was not          *)
(* answered.  A new code is drawn at random: it may be the code of another *)
(* room, which the index refuses, or one that another room had before.     *)
(***************************************************************************)
EXTENDS Integers

CONSTANTS Rooms, Students,
          Teacher,      \* whoever manages the rooms
          Codes,        \* the join codes that can be drawn
          Requests,
          None

Members == Students \union {Teacher}

ASSUME ClassroomAssumption ==
  /\ Teacher \notin Students
  /\ None \notin Rooms \union Members \union Codes

VARIABLES
  rooms,      \* the rows of classrooms
  answered,   \* those whose creation was answered
  deleted,    \* those with deleted_at set
  code,       \* join_codes.code of each room
  expired,    \* the rooms whose code is past expires_at
  outdated,   \* history: the joins whose room was given a new code between
              \* the comparison and the lookup
  members,    \* classroom_members: <<room, user>>
  goals,      \* student_goals: <<room, student>>
  balance,    \* history: for each <<room, student>>, how often the row was
              \* inserted less how often member.joined was published
  uneven,     \* history: pairs whose join overlapped another or broke off;
              \* their balance is no longer kept
  req

tables == <<rooms, deleted, code, expired, members, goals>>
vars == <<tables, answered, outdated, balance, uneven, req>>

Pairs == Rooms \X Students
PC == {"idle", "code", "teacher", "recode", "remove", "goal",
       "compare", "lookup", "duplicate", "add", "publish"}
Request == [pc : PC, room : Rooms \union {None}, user : Members \union {None},
            code : Codes \union {None}, asked : Rooms \union {None}]
Slot(pc, room, user, k, asked) ==
  [pc |-> pc, room |-> room, user |-> user, code |-> k, asked |-> asked]
Idle == Slot("idle", None, None, None, None)

TypeOK ==
  /\ deleted \subseteq answered /\ answered \subseteq rooms /\ rooms \subseteq Rooms
  /\ code \in [Rooms -> Codes \union {None}]
  /\ expired \subseteq {c \in rooms : code[c] # None}
  /\ outdated \subseteq Requests
  /\ members \subseteq rooms \X Members
  /\ goals \subseteq answered \X Students
  /\ balance \in [Pairs -> Int]
  /\ uneven \subseteq Pairs
  /\ req \in [Requests -> Request]

Init ==
  /\ rooms = {} /\ answered = {} /\ deleted = {}
  /\ code = [c \in Rooms |-> None]
  /\ expired = {}
  /\ outdated = {}
  /\ members = {}
  /\ goals = {}
  /\ balance = [p \in Pairs |-> 0]
  /\ uneven = {}
  /\ req = [r \in Requests |-> Idle]

At(r, p) == req[r].pc = p
Keep(r, slot) == req' = [req EXCEPT ![r] = slot]
Goto(r, p) == Keep(r, Slot(p, req[r].room, req[r].user, req[r].code, req[r].asked))
Return(r) == Keep(r, Idle)
Pair(r) == <<req[r].room, req[r].user>>

-----------------------------------------------------------------------------
(* Plausible slips of the code, used only to show that the properties      *)
(* notice them: a check or an index that was dropped, a row deleted for    *)
(* good.                                                                   *)
EvenDeleted(c) == c \in answered
NotCompared(c, k) == TRUE
NotChecked(c, s) == FALSE
HardDelete(c) ==
  /\ c \in answered \ deleted
  /\ rooms' = rooms \ {c}
  /\ UNCHANGED <<answered, deleted, code, expired, outdated, members, goals, balance,
                 uneven, req>>

-----------------------------------------------------------------------------
(* The repository's queries. *)
getClassroom(c) == c \in answered \ deleted
AlreadyMember(c, s) == <<c, s>> \in members
CodeTaken(c, k) == \E d \in rooms \ {c} : code[d] = k
CodeMatches(c, k) == code[c] = k
getJoinCode(k) == {c \in rooms : code[c] = k}

-----------------------------------------------------------------------------
(* createClassroom: the room, then its code, then the teacher's row.       *)
CreateClassroom(r, c) ==
  /\ At(r, "idle")
  /\ c \notin rooms
  /\ rooms' = rooms \union {c}
  /\ Keep(r, Slot("code", c, Teacher, None, None))
  /\ UNCHANGED <<answered, deleted, code, expired, outdated, members, goals,
                 balance, uneven>>

(* generateJoinCode on a room that exists: setJoinCode replaces the code.  *)
GenerateJoinCode(r, c) ==
  /\ At(r, "idle")
  /\ getClassroom(c)
  /\ Keep(r, Slot("recode", c, Teacher, None, None))
  /\ UNCHANGED <<tables, answered, outdated, balance, uneven>>

Awaiting(c) == {q \in Requests : At(q, "lookup") /\ req[q].asked = c}

SetJoinCode(r, k) ==
  /\ \/ At(r, "code") /\ Goto(r, "teacher")
     \/ At(r, "recode") /\ Return(r)
  /\ ~ CodeTaken(req[r].room, k)
  /\ code' = [code EXCEPT ![req[r].room] = k]
  /\ expired' = expired \ {req[r].room}
  /\ outdated' = IF CodeMatches(req[r].room, k) THEN outdated
                 ELSE outdated \union Awaiting(req[r].room)
  /\ UNCHANGED <<rooms, answered, deleted, members, goals, balance, uneven>>

(* The index on join_codes.code: the request is answered 500, a creation   *)
(* leaves a room that nobody knows.                                        *)
SetJoinCodeRefused(r, k) ==
  /\ req[r].pc \in {"code", "recode"}
  /\ CodeTaken(req[r].room, k)
  /\ Return(r)
  /\ UNCHANGED <<tables, answered, outdated, balance, uneven>>

AddTeacher(r) ==
  /\ At(r, "teacher")
  /\ members' = members \union {<<req[r].room, Teacher>>}
  /\ answered' = answered \union {req[r].room}
  /\ Return(r)
  /\ UNCHANGED <<rooms, deleted, code, expired, outdated, goals, balance, uneven>>

(* deleteClassroom: check and update have the effect of one step, since    *)
(* nothing else writes deleted_at.                                         *)
DeleteClassroom(c) ==
  /\ getClassroom(c)
  /\ deleted' = deleted \union {c}
  /\ UNCHANGED <<rooms, answered, code, expired, outdated, members, goals, balance,
                 uneven, req>>

(* Thirty days pass. *)
Expire(c) ==
  /\ c \in rooms
  /\ code[c] # None
  /\ expired' = expired \union {c}
  /\ UNCHANGED <<rooms, answered, deleted, code, outdated, members, goals, balance,
                 uneven, req>>

-----------------------------------------------------------------------------
(* removeMember and setGoal check the room, then write; setGoal does not   *)
(* ask whether the student is a member.                                    *)
RemoveFind(r, c, u) ==
  /\ At(r, "idle")
  /\ getClassroom(c)
  /\ Keep(r, Slot("remove", c, u, None, None))
  /\ UNCHANGED <<tables, answered, outdated, balance, uneven>>

RemoveMember(r) ==
  /\ At(r, "remove")
  /\ members' = members \ {Pair(r)}
  /\ Return(r)
  /\ UNCHANGED <<rooms, answered, deleted, code, expired, outdated, goals, balance,
                 uneven>>

GoalFind(r, c, s) ==
  /\ At(r, "idle")
  /\ getClassroom(c)
  /\ Keep(r, Slot("goal", c, s, None, None))
  /\ UNCHANGED <<tables, answered, outdated, balance, uneven>>

SetGoal(r) ==
  /\ At(r, "goal")
  /\ goals' = goals \union {Pair(r)}
  /\ Return(r)
  /\ UNCHANGED <<rooms, answered, deleted, code, expired, outdated, members, balance,
                 uneven>>

-----------------------------------------------------------------------------
(* The join route: the room named in the path is read, its code compared   *)
(* with the one presented; joinClassroom then looks the code up again and  *)
(* joins the room found there.  Only the first read asks for deleted_at.   *)
JoinFind(r, c, s, k) ==
  /\ At(r, "idle")
  /\ getClassroom(c)
  /\ Keep(r, Slot("compare", c, s, k, c))
  /\ outdated' = outdated \ {r}
  /\ UNCHANGED <<tables, answered, balance, uneven>>

JoinCompare(r) ==
  /\ At(r, "compare")
  /\ IF CodeMatches(req[r].room, req[r].code) THEN Goto(r, "lookup") ELSE Return(r)
  /\ UNCHANGED <<tables, answered, outdated, balance, uneven>>

(* The request's room is now the one the code belongs to. *)
JoinLookup(r) ==
  /\ At(r, "lookup")
  /\ \/ \E c \in getJoinCode(req[r].code) \ expired :
          Keep(r, Slot("duplicate", c, req[r].user, req[r].code, req[r].asked))
     \/ getJoinCode(req[r].code) \subseteq expired /\ Return(r)
  /\ UNCHANGED <<tables, answered, outdated, balance, uneven>>

Uneven(p) ==
  /\ uneven' = uneven \union {p}
  /\ balance' = [balance EXCEPT ![p] = 0]
Count(p, n) ==
  balance' = [balance EXCEPT ![p] = IF p \in uneven THEN 0 ELSE @ + n]

Joining(q, p) == req[q].pc \in {"add", "publish"} /\ Pair(q) = p

JoinDuplicate(r) ==
  /\ At(r, "duplicate")
  /\ IF AlreadyMember(req[r].room, req[r].user)
     THEN Return(r) /\ UNCHANGED <<balance, uneven>>
     ELSE /\ Goto(r, "add")
          /\ IF \E q \in Requests : Joining(q, Pair(r))
             THEN Uneven(Pair(r)) ELSE UNCHANGED <<balance, uneven>>
  /\ UNCHANGED <<tables, answered, outdated>>

(* ON CONFLICT DO NOTHING: a row that is there stays as it is. *)
JoinAdd(r) ==
  /\ At(r, "add")
  /\ members' = members \union {Pair(r)}
  /\ Count(Pair(r), IF Pair(r) \in members THEN 0 ELSE 1)
  /\ Goto(r, "publish")
  /\ UNCHANGED <<rooms, answered, deleted, code, expired, outdated, goals, uneven>>

JoinPublish(r) ==
  /\ At(r, "publish")
  /\ Count(Pair(r), -1)
  /\ Return(r)
  /\ UNCHANGED <<tables, answered, outdated, uneven>>

(* The request is lost at an await; a join lost before its event leaves a  *)
(* member whose retry is answered 409 and publishes nothing.               *)
Crash(r) ==
  /\ ~ At(r, "idle")
  /\ IF At(r, "publish") THEN Uneven(Pair(r)) ELSE UNCHANGED <<balance, uneven>>
  /\ Return(r)
  /\ UNCHANGED <<tables, answered, outdated>>

Manage(r) ==
  \/ \E c \in Rooms : CreateClassroom(r, c) \/ GenerateJoinCode(r, c)
  \/ \E k \in Codes : SetJoinCode(r, k) \/ SetJoinCodeRefused(r, k)
  \/ AddTeacher(r)
  \/ \E c \in Rooms, u \in Members : RemoveFind(r, c, u)
  \/ \E c \in Rooms, s \in Students : GoalFind(r, c, s)
  \/ RemoveMember(r) \/ SetGoal(r)

Join(r) ==
  \/ \E c \in Rooms, s \in Students, k \in Codes : JoinFind(r, c, s, k)
  \/ JoinCompare(r) \/ JoinLookup(r) \/ JoinDuplicate(r)
  \/ JoinAdd(r) \/ JoinPublish(r)

Next ==
  \/ \E r \in Requests : Manage(r) \/ Join(r) \/ Crash(r)
  \/ \E c \in Rooms : DeleteClassroom(c) \/ Expire(c)

Spec == Init /\ [][Next]_vars

-----------------------------------------------------------------------------
(* The code is read twice, by room in the route (:131) and by code in the  *)
(* service (:113).  A student is let into a room other than the one asked  *)
(* for only if that room's code was replaced between the two reads: no     *)
(* code presented for one room opens another, and no retry, crash or       *)
(* earlier replacement misleads a join.                                    *)
AdmittedWhereAsked ==
  \A r \in Requests :
    req[r].pc \in {"duplicate", "add", "publish"} /\ req[r].room # req[r].asked
      => r \in outdated

(* member.joined is published once per stay, also for a student who was    *)
(* removed and came back: a stay has no event, or an event no stay, only   *)
(* if two joins of the pair overlapped or one broke off before its event.  *)
EventsMatchStays ==
  \A p \in Pairs \ uneven :
    (\A r \in Requests : ~ Joining(r, p)) => balance[p] = 0

(* A deleted room whose last requests are answered admits nobody any more, *)
(* although joinClassroom never reads the room: no code leads to it.       *)
Closed(c) ==
  /\ c \in deleted
  /\ \A r \in Requests : /\ req[r].room # c
                         /\ req[r].pc = "lookup" => req[r].code # code[c]
ClosedRoomIsClosed ==
  [][\A c \in Rooms :
       Closed(c) => /\ Closed(c)'
                    /\ \A u \in Members : <<c, u>> \in members <=> <<c, u>> \in members']_vars

=============================================================================
