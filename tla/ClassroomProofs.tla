--------------------------- MODULE ClassroomProofs --------------------------
(***************************************************************************)
(* Theorems about Classroom for any rooms, students, codes and number of   *)
(* requests in flight.                                                     *)
(*                                                                         *)
(* CodeInv says when the second lookup of a code cannot lead elsewhere: as *)
(* long as the asked room keeps the code it was compared with, the index   *)
(* refuses it to every other room.  StayInv says how the events and the    *)
(* rows of a pair stand while one join of it is under way.                 *)
(***************************************************************************)
EXTENDS Classroom, TLAPS

Joins == {"compare", "lookup", "duplicate", "add", "publish"}

SlotOK(s, rs, as) ==
  /\ s \in Request
  /\ s.pc # "idle" => s.room \in rs /\ s.user \in Members
  /\ s.pc = "goal" => s.room \in as
  /\ s.pc \in Joins \union {"goal"} => s.user \in Students
  /\ s.pc \in Joins => s.code \in Codes /\ s.asked \in rs
  /\ s.pc \in {"compare", "lookup"} => s.room = s.asked

SlotInv == \A r \in Requests : SlotOK(req[r], rooms, answered)

OnCourse(s) ==
  /\ s.pc = "lookup" => code[s.asked] = s.code
  /\ s.pc \in {"duplicate", "add", "publish"} => s.room = s.asked

CodeInv ==
  /\ \A c \in Rooms \ rooms : code[c] = None
  /\ \A c, d \in rooms : code[c] = code[d] /\ code[c] # None => c = d
  /\ \A r \in Requests \ outdated : OnCourse(req[r])

StayInv ==
  \A p \in Pairs \ uneven :
    /\ \A q, r \in Requests : Joining(q, p) /\ Joining(r, p) => q = r
    /\ \A r \in Requests : req[r].pc = "add" /\ Pair(r) = p => p \notin members /\ balance[p] = 0
    /\ \A r \in Requests : req[r].pc = "publish" /\ Pair(r) = p => balance[p] = 1
    /\ (\A r \in Requests : ~ Joining(r, p)) => balance[p] = 0

TableTypes ==
  /\ deleted \subseteq answered /\ answered \subseteq rooms /\ rooms \subseteq Rooms
  /\ code \in [Rooms -> Codes \union {None}]
  /\ expired \subseteq {c \in rooms : code[c] # None}
  /\ outdated \subseteq Requests
  /\ members \subseteq rooms \X Members
  /\ goals \subseteq answered \X Students
  /\ balance \in [Pairs -> Int]
  /\ uneven \subseteq Pairs

IInv ==
  /\ TableTypes
  /\ req \in [Requests -> Request]
  /\ SlotInv
  /\ CodeInv
  /\ StayInv

-----------------------------------------------------------------------------
LEMMA InitIInv == Init => IInv
<1> SUFFICES ASSUME Init PROVE IInv
  OBVIOUS
<1> USE ClassroomAssumption
<1>1. Idle \in Request /\ Idle.pc = "idle"
  BY DEF Idle, Slot, Request, PC
<1>2. SlotInv
  BY <1>1 DEF Init, SlotInv, SlotOK, Joins
<1>3. CodeInv /\ TableTypes /\ req \in [Requests -> Request]
  BY <1>1 DEF Init, CodeInv, OnCourse, TableTypes
<1>4. StayInv
  BY <1>1 DEF Init, StayInv, Joining
<1> QED BY <1>2, <1>3, <1>4 DEF IInv

LEMMA IInvImplies == IInv => TypeOK /\ AdmittedWhereAsked /\ EventsMatchStays
<1> SUFFICES ASSUME IInv PROVE TypeOK /\ AdmittedWhereAsked /\ EventsMatchStays
  OBVIOUS
<1>1. TypeOK
  BY DEF IInv, TypeOK, TableTypes
<1>2. AdmittedWhereAsked
  BY DEF IInv, CodeInv, OnCourse, AdmittedWhereAsked
<1>3. EventsMatchStays
  BY DEF IInv, StayInv, EventsMatchStays
<1> QED BY <1>1, <1>2, <1>3

LEMMA FieldsOf ==
  ASSUME NEW p, NEW c, NEW u, NEW k, NEW a
  PROVE  /\ Slot(p, c, u, k, a).pc = p
         /\ Slot(p, c, u, k, a).room = c
         /\ Slot(p, c, u, k, a).user = u
         /\ Slot(p, c, u, k, a).code = k
         /\ Slot(p, c, u, k, a).asked = a
BY DEF Slot

LEMMA SlotTypes ==
  ASSUME IInv, NEW r \in Requests
  PROVE  /\ \A p \in PC :
              Slot(p, req[r].room, req[r].user, req[r].code, req[r].asked) \in Request
         /\ \A p \in PC, c \in Rooms, u \in Members, k \in Codes \union {None},
               a \in Rooms \union {None} : Slot(p, c, u, k, a) \in Request
         /\ \A rs, as : SlotOK(Idle, rs, as)
         /\ Idle.pc = "idle"
<1>1. req[r] \in Request
  BY DEF IInv
<1> QED BY <1>1 DEF Request, Slot, Idle, SlotOK, PC, Joins

LEMMA Kept ==
  ASSUME IInv, NEW r \in Requests, NEW s, Keep(r, s), SlotOK(s, rooms', answered'),
         rooms \subseteq rooms', answered \subseteq answered'
  PROVE  /\ req' \in [Requests -> Request]
         /\ req'[r] = s
         /\ \A q \in Requests : q # r => req'[q] = req[q]
         /\ SlotInv'
<1>1. s \in Request /\ req \in [Requests -> Request]
  BY DEF IInv, SlotOK
<1>2. /\ req' \in [Requests -> Request]
      /\ req'[r] = s
      /\ \A q \in Requests : q # r => req'[q] = req[q]
  BY <1>1 DEF Keep
<1>3. ASSUME NEW q \in Requests PROVE SlotOK(req'[q], rooms', answered')
  <2>1. CASE q = r
    BY <2>1, <1>2
  <2>2. CASE q # r
    <3>1. SlotOK(req[q], rooms, answered)
      BY DEF IInv, SlotInv
    <3> QED BY <2>2, <3>1, <1>2 DEF SlotOK
  <2> QED BY <2>1, <2>2
<1> QED BY <1>2, <1>3 DEF SlotInv

(* The codes stay as they are, and s is on course unless it is outdated.   *)
LEMMA CodesKept ==
  ASSUME IInv, NEW r \in Requests, NEW s, req'[r] = s,
         \A q \in Requests : q # r => req'[q] = req[q],
         r \notin outdated' => OnCourse(s), outdated \ {r} \subseteq outdated',
         UNCHANGED <<rooms, code>>
  PROVE  CodeInv'
BY DEF IInv, CodeInv, OnCourse

(* Nothing happens to the stays: no slot joins or ceases to.               *)
LEMMA StaysKept ==
  ASSUME IInv, NEW r \in Requests, NEW s, req'[r] = s,
         \A q \in Requests : q # r => req'[q] = req[q],
         req[r].pc \notin {"add", "publish"}, s.pc \notin {"add", "publish"},
         members' \intersect Pairs \subseteq members, UNCHANGED <<balance, uneven>>
  PROVE  StayInv'
<1>1. \A p, q : q \in Requests => (Joining(q, p)' <=> Joining(q, p))
  BY DEF Joining, Pair
<1>2. \A q \in Requests : req'[q].pc \in {"add", "publish"} => req'[q] = req[q] /\ q # r
  OBVIOUS
<1> QED BY <1>1, <1>2 DEF IInv, StayInv, Pair

(* A request goes on or ends without touching a table.                     *)
LEMMA QuietStep ==
  ASSUME IInv, NEW r \in Requests, NEW s, Keep(r, s), SlotOK(s, rooms, answered),
         r \notin outdated' => OnCourse(s), outdated' \in {outdated, outdated \ {r}},
         req[r].pc \notin {"add", "publish"}, s.pc \notin {"add", "publish"},
         UNCHANGED <<tables, answered, balance, uneven>>
  PROVE  IInv'
<1>1. /\ req' \in [Requests -> Request] /\ req'[r] = s /\ SlotInv'
      /\ \A q \in Requests : q # r => req'[q] = req[q]
  BY Kept DEF tables
<1>2. CodeInv'
  BY <1>1, CodesKept DEF tables
<1>3. StayInv'
  BY <1>1, StaysKept DEF tables
<1>4. TableTypes'
  BY DEF IInv, TableTypes, tables
<1> QED BY <1>1, <1>2, <1>3, <1>4 DEF IInv

(* A request starts: the slot was idle. *)
LEMMA StartStep ==
  ASSUME IInv, NEW r \in Requests, At(r, "idle"),
         NEW p \in {"recode", "remove", "goal", "compare"},
         NEW c \in answered \ deleted, NEW u \in Members, NEW k \in Codes \union {None},
         p \in {"goal", "compare"} => u \in Students,
         NEW a \in {None, c}, p = "compare" => k \in Codes /\ a = c,
         Keep(r, Slot(p, c, u, k, a)), outdated' \in {outdated, outdated \ {r}},
         UNCHANGED <<tables, answered, balance, uneven>>
  PROVE  IInv'
<1> DEFINE s == Slot(p, c, u, k, a)
<1>1. c \in Rooms /\ c \in rooms /\ a \in Rooms \union {None}
  BY DEF IInv, TableTypes
<1>2. s \in Request
  BY <1>1, SlotTypes DEF PC
<1>3. SlotOK(s, rooms, answered) /\ OnCourse(s) /\ s.pc \notin {"add", "publish"}
  BY <1>1, <1>2, FieldsOf DEF SlotOK, OnCourse, Joins
<1> HIDE DEF s
<1> QED BY <1>3, QuietStep DEF At, s

LEMMA ReturnStep ==
  ASSUME IInv, NEW r \in Requests, Return(r), req[r].pc \notin {"add", "publish"},
         UNCHANGED <<tables, answered, outdated, balance, uneven>>
  PROVE  IInv'
<1>1. SlotOK(Idle, rooms, answered) /\ Idle.pc = "idle" /\ OnCourse(Idle)
  BY SlotTypes DEF OnCourse
<1> QED BY <1>1, QuietStep DEF Return

-----------------------------------------------------------------------------
LEMMA ManageStep ==
  ASSUME IInv, NEW r \in Requests, Manage(r)
  PROVE  IInv'
<1> USE ClassroomAssumption
<1>s. SlotOK(req[r], rooms, answered) /\ req[r] \in Request /\ Teacher \in Members
  BY DEF IInv, SlotInv, Members
<1>1. ASSUME NEW c \in Rooms, CreateClassroom(r, c) PROVE IInv'
  <2> DEFINE s == Slot("code", c, Teacher, None, None)
  <2>1. s \in Request
    BY <1>s, SlotTypes DEF PC
  <2>2. /\ Keep(r, s) /\ At(r, "idle") /\ c \notin rooms /\ rooms' = rooms \union {c}
        /\ UNCHANGED <<answered, deleted, code, expired, outdated, members, goals,
                       balance, uneven>>
    BY <1>1 DEF CreateClassroom
  <2>3. SlotOK(s, rooms', answered') /\ s.pc = "code"
    BY <1>s, <2>1, <2>2, FieldsOf DEF SlotOK, Joins
  <2> HIDE DEF s
  <2>4. /\ req' \in [Requests -> Request] /\ req'[r] = s /\ SlotInv'
        /\ \A q \in Requests : q # r => req'[q] = req[q]
    BY <2>2, <2>3, Kept
  <2>5. TableTypes'
    BY <2>2 DEF IInv, TableTypes
  <2>6. CodeInv'
    <3>1. code[c] = None
      BY <2>2 DEF IInv, CodeInv
    <3>2. \A q \in Requests \ outdated : OnCourse(req'[q])
      BY <2>3, <2>4 DEF IInv, CodeInv, OnCourse
    <3> QED BY <2>2, <3>1, <3>2 DEF IInv, CodeInv, OnCourse
  <2>7. StayInv'
    BY <2>2, <2>3, <2>4, StaysKept DEF At
  <2> QED BY <2>4, <2>5, <2>6, <2>7 DEF IInv
<1>2. ASSUME NEW c \in Rooms, GenerateJoinCode(r, c) PROVE IInv'
  BY <1>s, <1>2, StartStep DEF GenerateJoinCode, getClassroom
<1>3. ASSUME NEW k \in Codes, SetJoinCode(r, k) PROVE IInv'
  <2> DEFINE c == req[r].room
             s == IF At(r, "code") THEN Slot("teacher", c, req[r].user, req[r].code, req[r].asked)
                  ELSE Idle
  <2>1. /\ Keep(r, s) /\ req[r].pc \in {"code", "recode"}
        /\ ~ CodeTaken(c, k)
        /\ code' = [code EXCEPT ![c] = k]
        /\ expired' = expired \ {c}
        /\ outdated' = IF code[c] = k THEN outdated ELSE outdated \union Awaiting(c)
        /\ UNCHANGED <<rooms, answered, deleted, members, goals, balance, uneven>>
    BY <1>3 DEF SetJoinCode, CodeMatches, Goto, Return, At
  <2>2. c \in rooms /\ c \in Rooms
    BY <1>s, <2>1 DEF SlotOK, IInv, TableTypes
  <2>3. SlotOK(s, rooms, answered) /\ s.pc \in {"teacher", "idle"}
    <3>1. CASE At(r, "code")
      <4> DEFINE t == Slot("teacher", c, req[r].user, req[r].code, req[r].asked)
      <4>1. t \in Request
        BY SlotTypes DEF PC
      <4>2. req[r].user \in Members
        BY <1>s, <3>1 DEF SlotOK, At, Joins
      <4>3. SlotOK(t, rooms, answered) /\ t.pc = "teacher"
        BY <2>2, <4>1, <4>2, FieldsOf DEF SlotOK, Joins
      <4> QED BY <3>1, <4>3
    <3>2. CASE ~ At(r, "code")
      BY <3>2, SlotTypes
    <3> QED BY <3>1, <3>2
  <2> HIDE DEF s
  <2>4. /\ req' \in [Requests -> Request] /\ req'[r] = s /\ SlotInv'
        /\ \A q \in Requests : q # r => req'[q] = req[q]
    BY <2>1, <2>3, Kept
  <2>5. /\ code' \in [Rooms -> Codes \union {None}]
        /\ code'[c] = k /\ \A d \in Rooms \ {c} : code'[d] = code[d]
    BY <2>1, <2>2 DEF IInv, TableTypes
  <2>6. TableTypes'
    BY <2>1, <2>5 DEF IInv, TableTypes, Awaiting
  <2>7. CodeInv'
    <3>1. rooms \subseteq Rooms /\ \A d \in rooms \ {c} : code[d] # k
      BY <2>1 DEF IInv, TableTypes, CodeTaken
    <3>2. \A d, e \in rooms : code'[d] = code'[e] /\ code'[d] # None => d = e
      BY <2>5, <3>1 DEF IInv, CodeInv
    <3>3. ASSUME NEW q \in Requests \ outdated' PROVE OnCourse(req[q])'
      <4>1. CASE q = r
        BY <2>3, <2>4, <4>1 DEF OnCourse
      <4>2. CASE q # r
        <5>1. req'[q] = req[q] /\ OnCourse(req[q]) /\ SlotOK(req[q], rooms, answered)
          BY <2>1, <2>4, <3>3, <4>2 DEF IInv, CodeInv, SlotInv
        <5>2. req[q].pc = "lookup" => req[q].asked \in Rooms
          BY <3>1, <5>1 DEF SlotOK, Joins
        <5>3. req[q].pc = "lookup" /\ req[q].asked = c => code[c] = k
          BY <2>1, <3>3 DEF Awaiting, At
        <5> QED BY <2>5, <5>1, <5>2, <5>3 DEF OnCourse
      <4> QED BY <4>1, <4>2
    <3>4. \A d \in Rooms \ rooms' : code'[d] = None
      BY <2>1, <2>2, <2>5 DEF IInv, CodeInv
    <3> QED BY <2>1, <3>2, <3>3, <3>4 DEF CodeInv
  <2>8. StayInv'
    BY <2>1, <2>3, <2>4, StaysKept
  <2> QED BY <2>4, <2>6, <2>7, <2>8 DEF IInv
<1>4. ASSUME NEW k \in Codes, SetJoinCodeRefused(r, k) PROVE IInv'
  BY <1>4, ReturnStep DEF SetJoinCodeRefused
<1>5. CASE AddTeacher(r)
  <2>1. req[r].room \in rooms /\ req[r].pc = "teacher"
    BY <1>5, <1>s DEF AddTeacher, At, SlotOK
  <2>2. /\ Keep(r, Idle)
        /\ members' = members \union {<<req[r].room, Teacher>>}
        /\ answered' = answered \union {req[r].room}
        /\ UNCHANGED <<rooms, deleted, code, expired, outdated, goals, balance, uneven>>
    BY <1>5 DEF AddTeacher, Return
  <2>3. SlotOK(Idle, rooms', answered') /\ Idle.pc = "idle"
    BY SlotTypes
  <2>4. /\ req' \in [Requests -> Request] /\ req'[r] = Idle /\ SlotInv'
        /\ \A q \in Requests : q # r => req'[q] = req[q]
    BY <2>2, <2>3, Kept
  <2>5. TableTypes'
    BY <1>s, <2>1, <2>2 DEF IInv, TableTypes
  <2>6. CodeInv'
    BY <2>2, <2>3, <2>4, CodesKept DEF OnCourse
  <2>7. members' \intersect Pairs \subseteq members
    BY <2>2 DEF Pairs
  <2>8. StayInv'
    BY <2>1, <2>2, <2>3, <2>4, <2>7, StaysKept
  <2> QED BY <2>4, <2>5, <2>6, <2>8 DEF IInv
<1>6. ASSUME NEW c \in Rooms, NEW u \in Members, RemoveFind(r, c, u) PROVE IInv'
  BY <1>6, StartStep DEF RemoveFind, getClassroom
<1>7. ASSUME NEW c \in Rooms, NEW u \in Students, GoalFind(r, c, u) PROVE IInv'
  BY <1>7, StartStep DEF GoalFind, getClassroom, Members
<1>8. CASE RemoveMember(r)
  <2>1. /\ Keep(r, Idle) /\ req[r].pc = "remove"
        /\ members' = members \ {Pair(r)}
        /\ UNCHANGED <<rooms, answered, deleted, code, expired, outdated, goals, balance, uneven>>
    BY <1>8 DEF RemoveMember, Return, At
  <2>2. SlotOK(Idle, rooms', answered') /\ Idle.pc = "idle"
    BY SlotTypes
  <2>3. /\ req' \in [Requests -> Request] /\ req'[r] = Idle /\ SlotInv'
        /\ \A q \in Requests : q # r => req'[q] = req[q]
    BY <2>1, <2>2, Kept
  <2>4. TableTypes'
    BY <2>1 DEF IInv, TableTypes
  <2>5. CodeInv'
    BY <2>1, <2>2, <2>3, CodesKept DEF OnCourse
  <2>6. StayInv'
    BY <2>1, <2>2, <2>3, StaysKept
  <2> QED BY <2>3, <2>4, <2>5, <2>6 DEF IInv
<1>9. CASE SetGoal(r)
  <2>1. /\ Keep(r, Idle) /\ req[r].pc = "goal"
        /\ goals' = goals \union {Pair(r)}
        /\ UNCHANGED <<rooms, answered, deleted, code, expired, outdated, members, balance, uneven>>
    BY <1>9 DEF SetGoal, Return, At
  <2>2. SlotOK(Idle, rooms', answered') /\ Idle.pc = "idle"
    BY SlotTypes
  <2>3. /\ req' \in [Requests -> Request] /\ req'[r] = Idle /\ SlotInv'
        /\ \A q \in Requests : q # r => req'[q] = req[q]
    BY <2>1, <2>2, Kept
  <2>4. Pair(r) \in answered \X Students
    BY <1>s, <2>1 DEF Pair, SlotOK
  <2>5. TableTypes'
    BY <2>1, <2>4 DEF IInv, TableTypes
  <2>6. CodeInv'
    BY <2>1, <2>2, <2>3, CodesKept DEF OnCourse
  <2>7. StayInv'
    BY <2>1, <2>2, <2>3, StaysKept
  <2> QED BY <2>3, <2>5, <2>6, <2>7 DEF IInv
<1> QED BY <1>1, <1>2, <1>3, <1>4, <1>5, <1>6, <1>7, <1>8, <1>9 DEF Manage

-----------------------------------------------------------------------------
(* Steps that start, count or end a stay of the pair p: the other pairs    *)
(* keep their balance, and p's is right again or kept no longer.           *)
LEMMA StayMoved ==
  ASSUME IInv, NEW r \in Requests, NEW s, NEW p \in Pairs, req'[r] = s,
         \A q \in Requests : q # r => req'[q] = req[q],
         req[r].pc \in {"add", "publish"} => Pair(r) = p,
         s.pc \in {"add", "publish"} => <<s.room, s.user>> = p,
         \A o \in Pairs \ {p} : balance'[o] = balance[o] /\ (o \in members' => o \in members),
         uneven \subseteq uneven', uneven' \subseteq uneven \union {p},
         p \notin uneven' =>
           /\ \A q \in Requests : q # r => ~ Joining(q, p)
           /\ balance'[p] = IF s.pc = "publish" THEN 1 ELSE 0
           /\ s.pc = "add" => p \notin members'
  PROVE  StayInv'
<1>1. ASSUME NEW o \in Pairs \ uneven', o # p
      PROVE  /\ \A q, t \in Requests : Joining(q, o)' /\ Joining(t, o)' => q = t
             /\ \A q \in Requests : req'[q].pc = "add" /\ Pair(q)' = o
                  => o \notin members' /\ balance'[o] = 0
             /\ \A q \in Requests : req'[q].pc = "publish" /\ Pair(q)' = o => balance'[o] = 1
             /\ (\A q \in Requests : ~ Joining(q, o)') => balance'[o] = 0
  <2>1. o \notin uneven /\ balance'[o] = balance[o] /\ (o \in members' => o \in members)
    BY <1>1
  <2>2. \A q \in Requests : (Joining(q, o)' => req'[q] = req[q]) /\ (Joining(q, o)' <=> Joining(q, o))
    BY <1>1 DEF Joining, Pair
  <2> QED BY <2>1, <2>2 DEF IInv, StayInv, Joining, Pair
<1>2. ASSUME p \notin uneven'
      PROVE  /\ \A q, t \in Requests : Joining(q, p)' /\ Joining(t, p)' => q = t
             /\ \A q \in Requests : req'[q].pc = "add" /\ Pair(q)' = p
                  => p \notin members' /\ balance'[p] = 0
             /\ \A q \in Requests : req'[q].pc = "publish" /\ Pair(q)' = p => balance'[p] = 1
             /\ (\A q \in Requests : ~ Joining(q, p)') => balance'[p] = 0
  <2>1. \A q \in Requests : Joining(q, p)' => q = r
    BY <1>2 DEF Joining, Pair
  <2>2. balance'[p] = 1 => Joining(r, p)'
    BY <1>2 DEF Joining, Pair
  <2> QED BY <1>2, <2>1, <2>2 DEF Joining, Pair
<1> QED BY <1>1, <1>2 DEF StayInv

(* The pair of a join that has passed the duplicate check. *)
LEMMA StayOf ==
  ASSUME IInv, NEW r \in Requests, req[r].pc \in {"duplicate", "add", "publish"}
  PROVE  /\ Pair(r) \in Pairs
         /\ Pair(r) \in rooms \X Members
         /\ Pair(r) \notin uneven /\ req[r].pc # "duplicate" =>
              /\ \A q \in Requests : q # r => ~ Joining(q, Pair(r))
              /\ req[r].pc = "add" => balance[Pair(r)] = 0 /\ Pair(r) \notin members
              /\ req[r].pc = "publish" => balance[Pair(r)] = 1
<1>1. SlotOK(req[r], rooms, answered) /\ rooms \subseteq Rooms
  BY DEF IInv, SlotInv, TableTypes
<1>2. Pair(r) \in Pairs /\ Pair(r) \in rooms \X Members
  BY <1>1 DEF SlotOK, Joins, Pair, Pairs
<1> QED BY <1>2 DEF IInv, StayInv, Joining

LEMMA JoinStep ==
  ASSUME IInv, NEW r \in Requests, Join(r)
  PROVE  IInv'
<1> USE ClassroomAssumption
<1>s. SlotOK(req[r], rooms, answered) /\ req[r] \in Request
  BY DEF IInv, SlotInv
<1>1. ASSUME NEW c \in Rooms, NEW u \in Students, NEW k \in Codes, JoinFind(r, c, u, k)
      PROVE  IInv'
  BY <1>1, StartStep DEF JoinFind, getClassroom, Members
<1>2. CASE JoinCompare(r)
  <2>1. CASE ~ CodeMatches(req[r].room, req[r].code)
    BY <1>2, <2>1, ReturnStep DEF JoinCompare, At
  <2>2. CASE CodeMatches(req[r].room, req[r].code)
    <3> DEFINE s == Slot("lookup", req[r].room, req[r].user, req[r].code, req[r].asked)
    <3>1. s \in Request
      BY SlotTypes DEF PC
    <3>2. /\ Keep(r, s) /\ req[r].pc = "compare"
          /\ UNCHANGED <<tables, answered, outdated, balance, uneven>>
      BY <1>2, <2>2 DEF JoinCompare, Goto, At
    <3>3. SlotOK(s, rooms, answered) /\ s.pc = "lookup"
      BY <1>s, <3>1, <3>2, FieldsOf DEF SlotOK, Joins
    <3>4. s.code = req[r].code /\ s.asked = req[r].asked
      BY FieldsOf
    <3>5. code[req[r].asked] = req[r].code
      BY <1>s, <2>2, <3>2 DEF CodeMatches, SlotOK
    <3>6. OnCourse(s)
      BY <3>3, <3>4, <3>5 DEF OnCourse
    <3> HIDE DEF s
    <3> QED BY <3>2, <3>3, <3>6, QuietStep
  <2> QED BY <2>1, <2>2
<1>3. CASE JoinLookup(r)
  <2>1. CASE Return(r)
    BY <1>3, <2>1, ReturnStep DEF JoinLookup, At
  <2>2. ASSUME NEW c \in getJoinCode(req[r].code) \ expired,
               Keep(r, Slot("duplicate", c, req[r].user, req[r].code, req[r].asked))
        PROVE  IInv'
    <3> DEFINE s == Slot("duplicate", c, req[r].user, req[r].code, req[r].asked)
    <3>1. req[r].pc = "lookup" /\ UNCHANGED <<tables, answered, outdated, balance, uneven>>
      BY <1>3 DEF JoinLookup, At
    <3>2. /\ c \in rooms /\ code[c] = req[r].code /\ rooms \subseteq Rooms
          /\ req[r].code \in Codes /\ req[r].asked \in rooms
          /\ req[r].user \in Students
      BY <1>s, <3>1 DEF getJoinCode, SlotOK, Joins, IInv, TableTypes
    <3>3. r \notin outdated => c = req[r].asked
      BY <3>1, <3>2 DEF IInv, CodeInv, OnCourse
    <3>4. s \in Request
      BY <3>2, SlotTypes DEF PC, Members
    <3>5. /\ SlotOK(s, rooms, answered) /\ s.pc = "duplicate"
          /\ r \notin outdated => OnCourse(s)
      BY <3>1, <3>2, <3>3, <3>4, FieldsOf DEF SlotOK, OnCourse, Joins, Members
    <3> HIDE DEF s
    <3> QED BY <2>2, <3>1, <3>5, QuietStep DEF s
  <2> QED BY <1>3, <2>1, <2>2 DEF JoinLookup
<1>4. CASE JoinDuplicate(r)
  <2> DEFINE p == Pair(r)
  <2>1. req[r].pc = "duplicate" /\ UNCHANGED <<tables, answered, outdated>> /\ p \in Pairs
    BY <1>4, StayOf DEF JoinDuplicate, At
  <2>2. CASE AlreadyMember(req[r].room, req[r].user)
    BY <1>4, <2>1, <2>2, ReturnStep DEF JoinDuplicate
  <2>3. CASE ~ AlreadyMember(req[r].room, req[r].user)
    <3> DEFINE s == Slot("add", req[r].room, req[r].user, req[r].code, req[r].asked)
    <3>1. s \in Request
      BY SlotTypes DEF PC
    <3>2. SlotOK(s, rooms', answered') /\ s.pc = "add" /\ s.room = req[r].room /\ s.user = req[r].user
      BY <1>s, <2>1, <3>1, FieldsOf DEF SlotOK, Joins, tables
    <3>a. r \notin outdated => OnCourse(s)
      BY <2>1, FieldsOf DEF IInv, CodeInv, OnCourse
    <3>3. /\ Keep(r, s) /\ p \notin members
          /\ IF \E q \in Requests : Joining(q, p)
             THEN uneven' = uneven \union {p} /\ balance' = [balance EXCEPT ![p] = 0]
             ELSE UNCHANGED <<balance, uneven>>
      BY <1>4, <2>3 DEF JoinDuplicate, Goto, AlreadyMember, Pair, Uneven
    <3> HIDE DEF s
    <3>4. /\ req' \in [Requests -> Request] /\ req'[r] = s /\ SlotInv'
          /\ \A q \in Requests : q # r => req'[q] = req[q]
      BY <2>1, <3>2, <3>3, Kept DEF tables
    <3>5. CodeInv'
      BY <2>1, <3>2, <3>4, <3>a, CodesKept DEF tables
    <3>6. TableTypes'
      BY <2>1, <3>3 DEF IInv, TableTypes, tables
    <3>7. balance[p] = 0 \/ \E q \in Requests : Joining(q, p) \/ p \in uneven
      BY <2>1 DEF IInv, StayInv
    <3>8. \A o \in Pairs \ {p} : balance'[o] = balance[o]
      BY <3>3 DEF IInv, TableTypes
    <3>9. p \notin uneven' => balance'[p] = 0 /\ \A q \in Requests : ~ Joining(q, p)
      BY <3>3, <3>7 DEF IInv, StayInv
    <3>10. StayInv'
      BY <2>1, <3>2, <3>3, <3>4, <3>8, <3>9, StayMoved DEF tables, Pair
    <3> QED BY <3>4, <3>5, <3>6, <3>10 DEF IInv
  <2> QED BY <2>2, <2>3
<1>5. CASE JoinAdd(r)
  <2> DEFINE p == Pair(r)
             s == Slot("publish", req[r].room, req[r].user, req[r].code, req[r].asked)
             n == IF p \in members THEN 0 ELSE 1
  <2>1. /\ Keep(r, s) /\ req[r].pc = "add"
        /\ members' = members \union {p}
        /\ balance' = [balance EXCEPT ![p] = IF p \in uneven THEN 0 ELSE @ + n]
        /\ UNCHANGED <<rooms, answered, deleted, code, expired, outdated, goals, uneven>>
    BY <1>5 DEF JoinAdd, Goto, At, Count
  <2>2. s \in Request
    BY SlotTypes DEF PC
  <2>3. SlotOK(s, rooms', answered') /\ s.pc = "publish" /\ s.room = req[r].room /\ s.user = req[r].user
    BY <1>s, <2>1, <2>2, FieldsOf DEF SlotOK, Joins
  <2>a. r \notin outdated => OnCourse(s)
    BY <2>1, FieldsOf DEF IInv, CodeInv, OnCourse
  <2> HIDE DEF s
  <2>4. /\ req' \in [Requests -> Request] /\ req'[r] = s /\ SlotInv'
        /\ \A q \in Requests : q # r => req'[q] = req[q]
    BY <2>1, <2>3, Kept
  <2>5. CodeInv'
    BY <2>1, <2>3, <2>4, <2>a, CodesKept
  <2>6. /\ p \in Pairs /\ p \in rooms \X Members
        /\ p \notin uneven => /\ balance[p] = 0 /\ p \notin members
                             /\ \A q \in Requests : q # r => ~ Joining(q, p)
    BY <2>1, StayOf
  <2>7. /\ balance' \in [Pairs -> Int]
        /\ \A o \in Pairs \ {p} : balance'[o] = balance[o]
        /\ p \notin uneven => balance'[p] = 1
    BY <2>1, <2>6 DEF IInv, TableTypes
  <2>8. TableTypes'
    BY <2>1, <2>6, <2>7 DEF IInv, TableTypes
  <2>9. StayInv'
    BY <2>1, <2>3, <2>4, <2>6, <2>7, StayMoved DEF Pair
  <2> QED BY <2>4, <2>5, <2>8, <2>9 DEF IInv
<1>6. CASE JoinPublish(r)
  <2> DEFINE p == Pair(r)
  <2>1. /\ Keep(r, Idle) /\ req[r].pc = "publish"
        /\ balance' = [balance EXCEPT ![p] = IF p \in uneven THEN 0 ELSE @ + (-1)]
        /\ UNCHANGED <<tables, answered, outdated, uneven>>
    BY <1>6 DEF JoinPublish, Return, At, Count
  <2>2. SlotOK(Idle, rooms', answered') /\ Idle.pc = "idle"
    BY SlotTypes
  <2>3. /\ req' \in [Requests -> Request] /\ req'[r] = Idle /\ SlotInv'
        /\ \A q \in Requests : q # r => req'[q] = req[q]
    BY <2>1, <2>2, Kept DEF tables
  <2>4. CodeInv'
    BY <2>1, <2>2, <2>3, CodesKept DEF OnCourse, tables
  <2>5. /\ p \in Pairs
        /\ p \notin uneven => balance[p] = 1 /\ \A q \in Requests : q # r => ~ Joining(q, p)
    BY <2>1, StayOf
  <2>6. /\ balance' \in [Pairs -> Int]
        /\ \A o \in Pairs \ {p} : balance'[o] = balance[o]
        /\ p \notin uneven => balance'[p] = 0
    BY <2>1, <2>5 DEF IInv, TableTypes
  <2>7. TableTypes'
    BY <2>1, <2>6 DEF IInv, TableTypes, tables
  <2>8. StayInv'
    BY <2>1, <2>2, <2>3, <2>5, <2>6, StayMoved DEF tables
  <2> QED BY <2>3, <2>4, <2>7, <2>8 DEF IInv
<1> QED BY <1>1, <1>2, <1>3, <1>4, <1>5, <1>6 DEF Join

-----------------------------------------------------------------------------
LEMMA CrashStep ==
  ASSUME IInv, NEW r \in Requests, Crash(r)
  PROVE  IInv'
<1>1. CASE req[r].pc \notin {"add", "publish"}
  BY <1>1, ReturnStep DEF Crash, At
<1>2. CASE req[r].pc \in {"add", "publish"}
  <2> DEFINE p == Pair(r)
  <2>1. /\ Keep(r, Idle)
        /\ IF req[r].pc = "publish"
           THEN uneven' = uneven \union {p} /\ balance' = [balance EXCEPT ![p] = 0]
           ELSE UNCHANGED <<balance, uneven>>
        /\ UNCHANGED <<tables, answered, outdated>>
    BY DEF Crash, Return, At, Uneven
  <2>2. SlotOK(Idle, rooms', answered') /\ Idle.pc = "idle"
    BY SlotTypes
  <2>3. /\ req' \in [Requests -> Request] /\ req'[r] = Idle /\ SlotInv'
        /\ \A q \in Requests : q # r => req'[q] = req[q]
    BY <2>1, <2>2, Kept DEF tables
  <2>4. CodeInv'
    BY <2>1, <2>2, <2>3, CodesKept DEF OnCourse, tables
  <2>5. /\ p \in Pairs
        /\ p \notin uneven =>
             /\ req[r].pc = "add" => balance[p] = 0
             /\ \A q \in Requests : q # r => ~ Joining(q, p)
    BY <1>2, StayOf
  <2>6. /\ TableTypes'
        /\ \A o \in Pairs \ {p} : balance'[o] = balance[o]
        /\ uneven \subseteq uneven' /\ uneven' \subseteq uneven \union {p}
    BY <2>1, <2>5 DEF IInv, TableTypes, tables
  <2>7. p \notin uneven' => balance'[p] = 0 /\ \A q \in Requests : q # r => ~ Joining(q, p)
    BY <1>2, <2>1, <2>5
  <2>8. StayInv'
    BY <2>1, <2>2, <2>3, <2>5, <2>6, <2>7, StayMoved DEF tables
  <2> QED BY <2>3, <2>4, <2>6, <2>8 DEF IInv
<1> QED BY <1>1, <1>2

LEMMA NextIInv == IInv /\ [Next]_vars => IInv'
<1> SUFFICES ASSUME IInv, [Next]_vars PROVE IInv'
  OBVIOUS
<1>1. ASSUME NEW c \in Rooms, DeleteClassroom(c) PROVE IInv'
  BY <1>1 DEF DeleteClassroom, getClassroom, IInv, TableTypes, SlotInv, CodeInv, OnCourse,
              StayInv, Joining, Pair
<1>2. ASSUME NEW c \in Rooms, Expire(c) PROVE IInv'
  BY <1>2 DEF Expire, IInv, TableTypes, SlotInv, CodeInv, OnCourse, StayInv, Joining, Pair
<1>3. CASE UNCHANGED vars
  BY <1>3 DEF vars, tables, IInv, TableTypes, SlotInv, CodeInv, OnCourse, StayInv, Joining, Pair
<1> QED BY <1>1, <1>2, <1>3, ManageStep, JoinStep, CrashStep DEF Next

-----------------------------------------------------------------------------
Same(c) == \A u \in Members : <<c, u>> \in members <=> <<c, u>> \in members'

(* Nobody is on the way to a closed room: the next slot is not either.     *)
LEMMA ClosedKept ==
  ASSUME IInv, NEW c \in Rooms, Closed(c), NEW r \in Requests, NEW s, Keep(r, s),
         s.room # c, s.pc = "lookup" => s.code # code[c],
         deleted \subseteq deleted', code'[c] = code[c]
  PROVE  Closed(c)'
<1>1. /\ req'[r] = s
      /\ \A q \in Requests : q # r => req'[q] = req[q]
  BY DEF IInv, Keep
<1> QED BY <1>1 DEF Closed

LEMMA ClosedStep ==
  ASSUME IInv, [Next]_vars, NEW c \in Rooms, Closed(c)
  PROVE  Closed(c)' /\ Same(c)
<1> USE ClassroomAssumption
<1>0. /\ c \in deleted /\ c \in rooms /\ c # None
      /\ \A q \in Requests : /\ req[q].room # c
                             /\ req[q].pc = "lookup" => req[q].code # code[c]
  BY DEF Closed, IInv, TableTypes
<1>1. ASSUME NEW r \in Requests, Return(r), deleted \subseteq deleted', code'[c] = code[c]
      PROVE  Closed(c)'
  <2>1. Idle.room # c /\ Idle.pc = "idle"
    BY <1>0 DEF Idle, Slot
  <2> QED BY <1>1, <2>1, ClosedKept DEF Return
<1>2. ASSUME NEW r \in Requests, NEW p, NEW d \in Rooms, d # c, NEW u, NEW k, NEW a,
             p # "lookup", Keep(r, Slot(p, d, u, k, a)),
             deleted \subseteq deleted', code'[c] = code[c]
      PROVE  Closed(c)'
  <2> DEFINE s == Slot(p, d, u, k, a)
  <2>1. s.room # c /\ s.pc # "lookup"
    BY <1>2, FieldsOf
  <2> HIDE DEF s
  <2> QED BY <1>2, <2>1, ClosedKept DEF s
<1>3. ASSUME NEW r \in Requests, Manage(r) PROVE Closed(c)' /\ Same(c)
  <2>s. req[r].pc # "idle" => req[r].room \in Rooms /\ req[r].room # c
    BY <1>0 DEF IInv, SlotInv, SlotOK, TableTypes
  <2>1. CASE \E d \in Rooms : CreateClassroom(r, d)
    BY <1>0, <1>2, <2>1 DEF CreateClassroom, Same
  <2>2. CASE \E d \in Rooms : GenerateJoinCode(r, d)
    BY <1>0, <1>2, <2>2 DEF GenerateJoinCode, getClassroom, tables, Same
  <2>3. ASSUME NEW k \in Codes, SetJoinCode(r, k) PROVE Closed(c)' /\ Same(c)
    <3>1. code'[c] = code[c] /\ UNCHANGED <<deleted, members>>
      BY <1>0, <2>s, <2>3 DEF SetJoinCode, At, IInv, TableTypes
    <3>2. CASE Return(r)
      BY <1>1, <3>1, <3>2 DEF Same
    <3>3. CASE At(r, "code") /\ Goto(r, "teacher")
      BY <1>2, <2>s, <3>1, <3>3 DEF Goto, At, Same
    <3> QED BY <2>3, <3>2, <3>3 DEF SetJoinCode
  <2>4. CASE \E k \in Codes : SetJoinCodeRefused(r, k)
    BY <1>1, <2>4 DEF SetJoinCodeRefused, tables, Same
  <2>5. CASE AddTeacher(r)
    BY <1>1, <2>s, <2>5 DEF AddTeacher, At, Same
  <2>6. CASE \E d \in Rooms, u \in Members : RemoveFind(r, d, u)
    BY <1>0, <1>2, <2>6 DEF RemoveFind, getClassroom, tables, Same
  <2>7. CASE \E d \in Rooms, u \in Students : GoalFind(r, d, u)
    BY <1>0, <1>2, <2>7 DEF GoalFind, getClassroom, tables, Same
  <2>8. CASE RemoveMember(r)
    BY <1>1, <2>s, <2>8 DEF RemoveMember, At, Pair, Same
  <2>9. CASE SetGoal(r)
    BY <1>1, <2>9 DEF SetGoal, Same
  <2> QED BY <1>3, <2>1, <2>2, <2>3, <2>4, <2>5, <2>6, <2>7, <2>8, <2>9 DEF Manage
<1>4. ASSUME NEW r \in Requests, Join(r) PROVE Closed(c)' /\ Same(c)
  <2>s. /\ req[r].pc # "idle" => req[r].room \in rooms /\ req[r].room \in Rooms /\ req[r].room # c
        /\ req[r].pc \in Joins => req[r].code \in Codes
    BY <1>0 DEF IInv, SlotInv, SlotOK, TableTypes
  <2>1. CASE \E d \in Rooms, u \in Students, k \in Codes : JoinFind(r, d, u, k)
    BY <1>0, <1>2, <2>1 DEF JoinFind, getClassroom, tables, Same
  <2>2. CASE JoinCompare(r)
    <3>1. UNCHANGED <<deleted, code, members>> /\ req[r].pc = "compare"
      BY <2>2 DEF JoinCompare, tables, At
    <3>2. CASE ~ CodeMatches(req[r].room, req[r].code)
      BY <1>1, <2>2, <3>1, <3>2 DEF JoinCompare, Same
    <3>3. CASE CodeMatches(req[r].room, req[r].code)
      <4> DEFINE s == Slot("lookup", req[r].room, req[r].user, req[r].code, req[r].asked)
      <4>1. Keep(r, s)
        BY <2>2, <3>3 DEF JoinCompare, Goto
      <4>2. req[r].code # code[c]
        BY <1>0, <2>s, <3>1, <3>3 DEF CodeMatches, Joins, IInv, CodeInv
      <4>3. s.room # c /\ s.code # code[c]
        BY <2>s, <3>1, <4>2, FieldsOf
      <4> HIDE DEF s
      <4>4. Closed(c)'
        BY <3>1, <4>1, <4>3, ClosedKept
      <4> QED BY <3>1, <4>4 DEF Same
    <3> QED BY <3>2, <3>3
  <2>3. CASE JoinLookup(r)
    <3>1. UNCHANGED <<deleted, code, members>> /\ req[r].pc = "lookup"
      BY <2>3 DEF JoinLookup, tables, At
    <3>2. CASE Return(r)
      BY <1>1, <3>1, <3>2 DEF Same
    <3>3. ASSUME NEW d \in getJoinCode(req[r].code) \ expired,
                 Keep(r, Slot("duplicate", d, req[r].user, req[r].code, req[r].asked))
          PROVE  Closed(c)' /\ Same(c)
      <4>1. d # c /\ d \in Rooms
        BY <1>0, <3>1 DEF getJoinCode, IInv, TableTypes
      <4> QED BY <1>2, <3>1, <3>3, <4>1 DEF Same
    <3> QED BY <2>3, <3>2, <3>3 DEF JoinLookup
  <2>4. CASE JoinDuplicate(r)
    <3>1. UNCHANGED <<deleted, code, members>> /\ req[r].pc = "duplicate"
      BY <2>4 DEF JoinDuplicate, tables, At
    <3>2. CASE Return(r)
      BY <1>1, <3>1, <3>2 DEF Same
    <3>3. CASE Goto(r, "add")
      BY <1>2, <2>s, <3>1, <3>3 DEF Goto, Same
    <3> QED BY <2>4, <3>2, <3>3 DEF JoinDuplicate
  <2>5. CASE JoinAdd(r)
    <3>1. req[r].pc = "add" /\ members' = members \union {Pair(r)} /\ Goto(r, "publish")
          /\ UNCHANGED <<deleted, code>>
      BY <2>5 DEF JoinAdd, At
    <3>2. Closed(c)'
      BY <1>2, <2>s, <3>1 DEF Goto
    <3> QED BY <2>s, <3>1, <3>2 DEF Same, Pair
  <2>6. CASE JoinPublish(r)
    BY <1>1, <2>6 DEF JoinPublish, tables, Same
  <2> QED BY <1>4, <2>1, <2>2, <2>3, <2>4, <2>5, <2>6 DEF Join
<1>5. ASSUME NEW r \in Requests, Crash(r) PROVE Closed(c)' /\ Same(c)
  BY <1>1, <1>5 DEF Crash, tables, Same
<1>6. ASSUME NEW d \in Rooms, DeleteClassroom(d) \/ Expire(d) PROVE Closed(c)' /\ Same(c)
  BY <1>6 DEF DeleteClassroom, Expire, Closed, Same
<1>7. CASE UNCHANGED vars
  BY <1>7 DEF vars, tables, Closed, Same
<1> QED BY <1>3, <1>4, <1>5, <1>6, <1>7 DEF Next

-----------------------------------------------------------------------------
(* The inductive invariant holds in every behaviour.                       *)
THEOREM Inductive == Spec => []IInv
BY InitIInv, NextIInv, PTL DEF Spec

(* The type invariant holds in every behaviour.                            *)
THEOREM TypeCorrect == Spec => []TypeOK
BY Inductive, IInvImplies, PTL

(* A join ends in the room that was asked for unless that room was given a *)
(* new code between the comparison in the route and the lookup in          *)
(* joinClassroom (classroom-service.ts:113): codes of other rooms, given   *)
(* up, drawn again or replaced at any time, mislead no join.               *)
THEOREM JoinsWhereAsked == Spec => []AdmittedWhereAsked
BY Inductive, IInvImplies, PTL

(* Stays and events match unless joins of a pair overlap or break off      *)
(* (classroom-service.ts:120-145).                                         *)
THEOREM EventPerStay == Spec => []EventsMatchStays
BY Inductive, IInvImplies, PTL

(* Nobody enters or leaves a deleted room whose requests are answered      *)
(* (classroom-service.ts:87-90).                                           *)
THEOREM ClosedForGood == Spec => ClosedRoomIsClosed
<1>1. IInv /\ [Next]_vars =>
        [\A c \in Rooms : Closed(c) =>
           /\ Closed(c)'
           /\ \A u \in Members : <<c, u>> \in members <=> <<c, u>> \in members']_vars
  BY ClosedStep DEF Same
<1> QED BY <1>1, Inductive, PTL DEF Spec, ClosedRoomIsClosed

=============================================================================
