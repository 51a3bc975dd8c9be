---------------------------- MODULE AccessProofs ----------------------------
(***************************************************************************)
(* Theorems about Access for any users, tokens, requests and any lifetime  *)
(* of a token.  Whoever holds a list of students holds what was true at    *)
(* some moment; the inductive invariant bounds the age of that moment,     *)
(* along the chain from the query over the token to the answer: at most a  *)
(* tick in a request, what the token has lived and the request that signed *)
(* it in a token, and both with the request that presents it.              *)
(***************************************************************************)
EXTENDS Access, TLAPS

(* The tick that a request has seen. *)
Seen(r) == IF req[r].late THEN 1 ELSE 0

(* Of the accounts an owner was allowed to see (itself and the listed      *)
(* students) the watched one is still in scope, or left it at most k ticks *)
(* ago.                                                                    *)
NotLost(o, S, k) ==
  watched[1] = o /\ (watched[2] \in S \/ watched[2] = o) => Watched \/ since <= k

(* A child that came into the scope of a parent and is not listed did so   *)
(* at most k ticks ago.                                                    *)
NotMissed(o, S, k) ==
  o \in Parents /\ watched[1] = o /\ watched[2] \in Children \ S /\ Watched => since <= k

SlotInv(r) ==
  /\ req[r].pc = "idle" => ~ req[r].late
  /\ req[r].pc # "idle" => req[r].user \in Users
  /\ req[r].pc = "found" => NotLost(req[r].user, {}, Seen(r))
  /\ req[r].pc = "listed" => /\ NotLost(req[r].user, req[r].students, Seen(r))
                             /\ NotMissed(req[r].user, req[r].students, Seen(r))
  /\ req[r].pc = "reading" => NotLost(req[r].user, req[r].students, TTL + 1 + Seen(r))
  /\ req[r].pc \in {"teacher", "dashboard"} => req[r].user = Teacher
  /\ req[r].pc = "dashboard" => NotLost(Teacher, req[r].students, Seen(r))

TokenInv(t) ==
  verifyToken(t) =>
    /\ tokens[t].owner \in Users
    /\ NotLost(tokens[t].owner, tokens[t].childIds, TTL + 2 - tokens[t].left)
    /\ NotMissed(tokens[t].owner, tokens[t].childIds, TTL + 2 - tokens[t].left)

IInv ==
  /\ TypeOK
  /\ \A r \in Requests : SlotInv(r)
  /\ \A t \in Tokens : TokenInv(t)

(* What the types say of one slot, one token and the pair.                 *)
LEMMA Shapes ==
  ASSUME TypeOK
  PROVE  /\ TTL \in Nat /\ since \in 0 .. TTL + 3 /\ since \in Int
         /\ watched[1] \in Users /\ watched[2] \in Users
         /\ watched[1] = Teacher => watched[2] \in Children
         /\ watched[1] \in Children => watched[2] = watched[1]
         /\ watched[1] \in Parents => watched[2] \in Children \/ watched[2] = watched[1]
         /\ \A A, B : watched \in A \X B <=> watched[1] \in A /\ watched[2] \in B
         /\ \A r \in Requests : /\ req[r] \in Request /\ req[r].students \subseteq Children
                                /\ req[r].late \in BOOLEAN
         /\ \A t \in Tokens : /\ tokens[t] \in Token /\ tokens[t].left \in 0 .. TTL + 1
                              /\ tokens[t].childIds \subseteq Children
<1>1. TTL \in Nat /\ since \in 0 .. TTL + 3 /\ since \in Int
  BY AccessAssumption DEF TypeOK, Longest
<1>2. /\ watched[1] \in Users /\ watched[2] \in Users
      /\ watched[1] = Teacher => watched[2] \in Children
      /\ watched[1] \in Children => watched[2] = watched[1]
      /\ watched[1] \in Parents => watched[2] \in Children \/ watched[2] = watched[1]
      /\ watched = <<watched[1], watched[2]>>
  BY AccessAssumption DEF TypeOK, Pairs, Users
<1>3. \A A, B : watched \in A \X B <=> watched[1] \in A /\ watched[2] \in B
  BY <1>2
<1>4. \A r \in Requests : /\ req[r] \in Request /\ req[r].students \subseteq Children
                          /\ req[r].late \in BOOLEAN
  BY DEF TypeOK, Request
<1>5. \A t \in Tokens : /\ tokens[t] \in Token /\ tokens[t].left \in 0 .. TTL + 1
                        /\ tokens[t].childIds \subseteq Children
  BY DEF TypeOK, Token
<1> QED BY <1>1, <1>2, <1>3, <1>4, <1>5

LEMMA InitIInv == Init => IInv
<1> SUFFICES ASSUME Init PROVE IInv
  OBVIOUS
<1>1. TypeOK
  BY AccessAssumption
     DEF Init, TypeOK, Idle, Slot, Request, PC, Token, Longest
<1>2. \A r \in Requests : SlotInv(r)
  BY DEF Init, SlotInv, Idle, Slot
<1>3. \A t \in Tokens : TokenInv(t)
  BY DEF Init, TokenInv, verifyToken
<1> QED BY <1>1, <1>2, <1>3 DEF IInv

-----------------------------------------------------------------------------
(* A change of the rows: the bounds hold since the history starts anew     *)
(* whenever the scope changes.                                             *)
LEMMA RowsStep ==
  ASSUME IInv, Notes, TypeOK', UNCHANGED <<tokens, req>>
  PROVE  IInv'
<1>1. /\ UNCHANGED <<watched, tokens, req>> /\ since \in Int
      /\ since' = IF Watched' = Watched THEN since ELSE 0
  BY Shapes DEF Notes, IInv
<1>2. ASSUME NEW o, NEW S, NEW k \in Nat
      PROVE  /\ NotLost(o, S, k) => NotLost(o, S, k)'
             /\ NotMissed(o, S, k) => NotMissed(o, S, k)'
  BY <1>1 DEF NotLost, NotMissed
<1>3. ASSUME NEW r \in Requests PROVE SlotInv(r)'
  <2>1. Seen(r) \in Nat /\ TTL + 1 + Seen(r) \in Nat /\ Seen(r)' = Seen(r)
    BY <1>1, Shapes DEF Seen, IInv
  <2> QED BY <1>1, <1>2, <2>1 DEF SlotInv, IInv
<1>4. ASSUME NEW t \in Tokens PROVE TokenInv(t)'
  <2>1. TTL + 2 - tokens[t].left \in Nat
    BY Shapes DEF IInv
  <2> QED BY <1>1, <1>2, <2>1 DEF TokenInv, verifyToken, IInv
<1> QED BY <1>3, <1>4 DEF IInv

(* One slot moves while rows, tokens and time stand still.                 *)
LEMMA SlotStep ==
  ASSUME IInv, NEW r \in Requests, NEW s \in Request, req' = [req EXCEPT ![r] = s],
         UNCHANGED <<tables, tokens, history>>, SlotInv(r)'
  PROVE  IInv'
<1>1. /\ UNCHANGED <<parentOf, gone, members, open, tokens, watched, since>>
      /\ Watched' = Watched
  BY DEF tables, history, Watched, Scope
<1>2. TypeOK'
  BY <1>1 DEF IInv, TypeOK
<1>3. ASSUME NEW q \in Requests, q # r PROVE SlotInv(q)'
  <2>1. req'[q] = req[q]
    BY <1>3 DEF IInv, TypeOK
  <2> QED BY <1>1, <2>1 DEF SlotInv, NotLost, NotMissed, Seen, IInv
<1>4. ASSUME NEW t \in Tokens PROVE TokenInv(t)'
  BY <1>1 DEF TokenInv, verifyToken, NotLost, NotMissed, IInv
<1> QED BY <1>2, <1>3, <1>4 DEF IInv

LEMMA ReturnStep ==
  ASSUME IInv, NEW r \in Requests, Return(r), UNCHANGED <<tables, tokens, history>>
  PROVE  IInv'
<1>1. Idle \in Request
  BY DEF Idle, Slot, Request, PC
<1>2. req'[r] = Idle
  BY DEF Return, IInv, TypeOK
<1>3. SlotInv(r)'
  BY <1>2 DEF SlotInv, Idle, Slot
<1> QED BY <1>1, <1>3, SlotStep DEF Return

(* What a slot holds after Keep.                                           *)
LEMMA Kept ==
  ASSUME IInv, NEW r \in Requests, NEW pc \in PC, NEW u \in Users,
         NEW S \in SUBSET Children, Keep(r, pc, u, S)
  PROVE  LET s == Slot(pc, u, S, req[r].late)
         IN  /\ s \in Request /\ req' = [req EXCEPT ![r] = s]
             /\ req'[r].pc = pc /\ req'[r].user = u /\ req'[r].students = S
             /\ Seen(r)' = Seen(r) /\ Seen(r) \in 0 .. 1
             /\ req'[r].late = req[r].late
BY Shapes DEF IInv, TypeOK, Keep, Slot, Request, Seen

-----------------------------------------------------------------------------
LEMMA RowsKeep == IInv /\ Rows => IInv'
<1> SUFFICES ASSUME IInv, Rows PROVE IInv'
  OBVIOUS
<1>1. Notes /\ UNCHANGED <<tokens, req>>
  BY DEF Rows, LinkParent, SoftDelete, UpdateUser, AddMember, RemoveMember,
         DeleteClassroom
<1>2. /\ parentOf' \in [Children -> Parents \union {None}]
      /\ gone' \subseteq Parents \union Children
      /\ members' \subseteq Children /\ open' \in BOOLEAN
  BY DEF Rows, LinkParent, SoftDelete, UpdateUser, AddMember, RemoveMember,
         DeleteClassroom, IInv, TypeOK
<1>3. watched' \in Pairs /\ since' \in 0 .. Longest
  BY <1>1, AccessAssumption DEF Notes, IInv, TypeOK, Longest
<1>4. TypeOK'
  BY <1>1, <1>2, <1>3 DEF IInv, TypeOK
<1> QED BY <1>1, <1>4, RowsStep

LEMMA IssueKeep == IInv /\ Issue => IInv'
<1> SUFFICES ASSUME IInv, Issue PROVE IInv'
  OBVIOUS
<1> TypeOK
  BY DEF IInv
<1>1. ASSUME NEW r \in Requests, NEW u \in Users, FindOwner(r, u) PROVE IInv'
  <2>1. /\ Keep(r, "found", u, {}) /\ u \notin gone /\ "found" \in PC
        /\ UNCHANGED <<tables, tokens, history>>
    BY <1>1 DEF FindOwner, PC
  <2>2. watched[1] = u /\ watched[2] = u => Watched'
    BY <2>1, Shapes, AccessAssumption DEF Watched, Scope, tables, history
  <2>3. SlotInv(r)'
    BY <2>1, <2>2, Kept DEF SlotInv, NotLost, history
  <2> QED BY <2>1, <2>3, Kept, SlotStep
<1>2. ASSUME NEW r \in Requests, IssueTokens(r) PROVE IInv'
  <2> DEFINE u == req[r].user
             S == IF u \in Parents THEN listChildrenForParent(u) ELSE {}
  <2>1. /\ Keep(r, "listed", u, S) /\ req[r].pc = "found" /\ "listed" \in PC
        /\ UNCHANGED <<tables, tokens, history>>
        /\ u \in Users /\ S \subseteq Children
    BY <1>2 DEF IssueTokens, At, PC, IInv, SlotInv, listChildrenForParent
  <2>2. NotLost(u, {}, Seen(r))
    BY <2>1 DEF IInv, SlotInv
  <2>3. /\ watched[1] = u /\ watched[2] \in S => Watched
        /\ u \in Parents /\ watched[1] = u /\ watched[2] \in Children \ S => ~ Watched
    BY AccessAssumption DEF Watched, Scope, listChildrenForParent
  <2>4. UNCHANGED <<watched, since>> /\ Watched' = Watched
    BY <2>1 DEF Watched, Scope, tables, history
  <2>5. SlotInv(r)'
    BY <2>1, <2>2, <2>3, <2>4, Kept DEF SlotInv, NotLost, NotMissed
  <2> QED BY <2>1, <2>5, Kept, SlotStep
<1>3. ASSUME NEW r \in Requests, NEW t \in Tokens, SignAccessToken(r, t) PROVE IInv'
  <2> DEFINE k == [owner |-> req[r].user, childIds |-> req[r].students, left |-> TTL + 1]
  <2>1. /\ tokens' = [tokens EXCEPT ![t] = k] /\ Return(r) /\ req[r].pc = "listed"
        /\ UNCHANGED <<parentOf, gone, members, open, watched, since>>
        /\ Watched' = Watched
    BY <1>3 DEF SignAccessToken, At, tables, history, Watched, Scope
  <2>2. /\ req[r].user \in Users
        /\ NotLost(req[r].user, req[r].students, Seen(r))
        /\ NotMissed(req[r].user, req[r].students, Seen(r))
        /\ Seen(r) \in 0 .. 1
    BY <2>1 DEF IInv, SlotInv, Seen
  <2>3. k \in Token
    BY <2>2, Shapes DEF Token
  <2>4. req' \in [Requests -> Request] /\ req'[r] = Idle
    BY <2>1 DEF Return, Idle, Slot, Request, PC, TypeOK
  <2>5. TypeOK'
    BY <2>1, <2>3, <2>4 DEF TypeOK
  <2>6. ASSUME NEW x \in Tokens PROVE TokenInv(x)'
    <3>1. CASE x = t
      <4>1. tokens'[x] = k
        BY <2>1, <3>1 DEF TypeOK
      <4> QED BY <2>1, <2>2, <4>1, Shapes DEF TokenInv, NotLost, NotMissed
    <3>2. CASE x # t
      <4>1. tokens'[x] = tokens[x]
        BY <2>1, <3>2 DEF TypeOK
      <4> QED BY <2>1, <4>1 DEF TokenInv, verifyToken, NotLost, NotMissed, IInv
    <3> QED BY <3>1, <3>2
  <2>7. ASSUME NEW q \in Requests PROVE SlotInv(q)'
    <3>1. CASE q = r
      BY <2>4, <3>1 DEF SlotInv, Idle, Slot
    <3>2. CASE q # r
      <4>1. req'[q] = req[q]
        BY <2>1, <3>2 DEF Return, TypeOK
      <4> QED BY <2>1, <4>1 DEF SlotInv, NotLost, NotMissed, Seen, IInv
    <3> QED BY <3>1, <3>2
  <2> QED BY <2>5, <2>6, <2>7 DEF IInv
<1>4. ASSUME NEW t \in Tokens, Expire(t) PROVE IInv'
  <2>1. /\ tokens' = [tokens EXCEPT ![t].left = 0]
        /\ UNCHANGED <<parentOf, gone, members, open, watched, since, req>>
        /\ Watched' = Watched
    BY <1>4 DEF Expire, tables, history, Watched, Scope
  <2>2. [tokens[t] EXCEPT !.left = 0] \in Token
    BY Shapes DEF Token
  <2>3. TypeOK'
    BY <2>1, <2>2 DEF TypeOK
  <2>4. ASSUME NEW x \in Tokens PROVE TokenInv(x)'
    <3>1. CASE x = t
      <4>1. tokens'[x].left = 0
        BY <2>1, <3>1, Shapes DEF Token, TypeOK
      <4> QED BY <4>1 DEF TokenInv, verifyToken
    <3>2. CASE x # t
      <4>1. tokens'[x] = tokens[x]
        BY <2>1, <3>2 DEF TypeOK
      <4> QED BY <2>1, <4>1 DEF TokenInv, verifyToken, NotLost, NotMissed, IInv
    <3> QED BY <3>1, <3>2
  <2>5. \A q \in Requests : SlotInv(q)'
    BY <2>1 DEF SlotInv, NotLost, NotMissed, Seen, IInv
  <2> QED BY <2>3, <2>4, <2>5 DEF IInv
<1>5. ASSUME NEW r \in Requests, Break(r) PROVE IInv'
  BY <1>5, ReturnStep DEF Break
<1> QED BY <1>1, <1>2, <1>3, <1>4, <1>5 DEF Issue

(* A read that passed its checks sees what its token was given.            *)
LEMMA GrantedStep ==
  ASSUME IInv, NEW r \in Requests, NEW t \in Tokens, NEW S \in SUBSET Children,
         S # {}, RequireAuth(r, t), requireStudentAccess(r, t, S),
         UNCHANGED <<tables, tokens, history>>
  PROVE  IInv'
<1> TypeOK
  BY DEF IInv
<1> DEFINE o == tokens[t].owner
<1>1. /\ req[r].pc = "idle" /\ "reading" \in PC /\ tokens[t].left > 0
      /\ Keep(r, "reading", o, S)
      /\ \A c \in S : c = o \/ c \in tokens[t].childIds
  BY DEF RequireAuth, verifyToken, requireStudentAccess, canAccessStudent, At, PC
<1>2. o \in Users /\ NotLost(o, tokens[t].childIds, TTL + 2 - tokens[t].left)
  BY <1>1 DEF IInv, TokenInv, verifyToken
<1>3. NotLost(o, S, TTL + 1)
  BY <1>1, <1>2, Shapes DEF NotLost
<1>4. UNCHANGED <<watched, since>> /\ Watched' = Watched
  BY DEF Watched, Scope, tables, history
<1>5. /\ req'[r].pc = "reading" /\ req'[r].user = o /\ req'[r].students = S
      /\ Seen(r)' \in 0 .. 1
  BY <1>1, <1>2, Kept
<1>6. SlotInv(r)'
  BY <1>2, <1>3, <1>4, <1>5, Shapes DEF SlotInv, NotLost
<1> QED BY <1>1, <1>2, <1>6, Kept, SlotStep

LEMMA ReadKeep == IInv /\ Read => IInv'
<1> SUFFICES ASSUME IInv, Read PROVE IInv'
  OBVIOUS
<1> TypeOK
  BY DEF IInv
<1>1. ASSUME NEW r \in Requests, NEW t \in Tokens, NEW c \in Children,
             GetSession(r, t, c) \/ GetFluency(r, t, c) \/ GetAssignments(r, t, c)
      PROVE  IInv'
  BY <1>1, GrantedStep DEF GetSession, GetFluency, GetAssignments
<1>2. ASSUME NEW r \in Requests, NEW t \in Tokens, NEW S \in (SUBSET Children) \ {{}},
             BatchFluency(r, t, S)
      PROVE  IInv'
  BY <1>2, GrantedStep DEF BatchFluency
<1>3. ASSUME NEW r \in Requests, NEW t \in Tokens, Dashboard(r, t) PROVE IInv'
  <2>1. /\ Keep(r, "teacher", Teacher, {}) /\ "teacher" \in PC /\ Teacher \in Users
        /\ UNCHANGED <<tables, tokens, history>>
    BY <1>3 DEF Dashboard, PC, Users
  <2>2. SlotInv(r)'
    BY <2>1, Kept DEF SlotInv
  <2> QED BY <2>1, <2>2, Kept, SlotStep
<1>4. ASSUME NEW r \in Requests, ListMembers(r) PROVE IInv'
  <2>1. CASE ~ getClassroom
    BY <1>4, <2>1, ReturnStep DEF ListMembers
  <2>2. CASE getClassroom
    <3>1. /\ Keep(r, "dashboard", Teacher, members) /\ "dashboard" \in PC
          /\ Teacher \in Users /\ members \in SUBSET Children
          /\ UNCHANGED <<tables, tokens, history>>
      BY <1>4, <2>2 DEF ListMembers, PC, Users, TypeOK
    <3>2. watched[1] = Teacher => watched[2] \in Children /\ watched[2] # Teacher
      BY Shapes, AccessAssumption
    <3>3. watched[1] = Teacher /\ watched[2] \in members => Watched'
      BY <2>2, <3>1 DEF Watched, Scope, getClassroom, tables, history
    <3>4. UNCHANGED watched
      BY <3>1 DEF history
    <3>5. SlotInv(r)'
      BY <3>1, <3>2, <3>3, <3>4, Kept DEF SlotInv, NotLost
    <3> QED BY <3>1, <3>5, Kept, SlotStep
  <2> QED BY <2>1, <2>2
<1>5. ASSUME NEW r \in Requests, GetStudentsFluency(r) \/ Answer(r) PROVE IInv'
  BY <1>5, ReturnStep DEF GetStudentsFluency, Answer
<1> QED BY <1>1, <1>2, <1>3, <1>4, <1>5 DEF Read

(* A tick ages what a token and a request hold as much as the history.     *)
LEMMA TickKeep == IInv /\ Tick => IInv'
<1> SUFFICES ASSUME IInv, Tick PROVE IInv'
  OBVIOUS
<1> TypeOK
  BY DEF IInv
<1>1. /\ UNCHANGED <<parentOf, gone, members, open, watched>> /\ Watched' = Watched
      /\ since' = IF since = Longest THEN Longest ELSE since + 1
      /\ tokens' = [t \in Tokens |->
                      [tokens[t] EXCEPT !.left = IF @ = 0 THEN 0 ELSE @ - 1]]
      /\ req' = [r \in Requests |-> [req[r] EXCEPT !.late = @ \/ ~ At(r, "idle")]]
      /\ \A t \in Tokens : tokens[t].left # 1
      /\ \A r \in Requests : ~ req[r].late
  BY DEF Tick, tables, Watched, Scope
<1>2. ASSUME NEW t \in Tokens
      PROVE  /\ tokens'[t] \in Token
             /\ tokens'[t].owner = tokens[t].owner
             /\ tokens'[t].childIds = tokens[t].childIds
             /\ tokens'[t].left = IF tokens[t].left = 0 THEN 0 ELSE tokens[t].left - 1
  <2>1. tokens[t] \in Token /\ tokens[t].left \in 0 .. TTL + 1 /\ TTL \in Nat
    BY Shapes
  <2>2. tokens'[t] = [tokens[t] EXCEPT !.left = IF @ = 0 THEN 0 ELSE @ - 1]
    BY <1>1
  <2> QED BY <2>1, <2>2 DEF Token
<1>3. ASSUME NEW r \in Requests
      PROVE  /\ req'[r] \in Request
             /\ req'[r].pc = req[r].pc /\ req'[r].user = req[r].user
             /\ req'[r].students = req[r].students
             /\ req'[r].late = (req[r].pc # "idle")
             /\ Seen(r) = 0 /\ (req[r].pc # "idle" => Seen(r)' = 1)
  <2>1. req[r] \in Request /\ ~ req[r].late
    BY <1>1, Shapes
  <2>2. req'[r] = [req[r] EXCEPT !.late = @ \/ ~ At(r, "idle")]
    BY <1>1
  <2> QED BY <2>1, <2>2 DEF Request, Seen, At
<1>4. TypeOK'
  <2>1. tokens' \in [Tokens -> Token] /\ req' \in [Requests -> Request]
    BY <1>1, <1>2, <1>3
  <2>2. since' \in 0 .. Longest
    BY <1>1, Shapes DEF Longest
  <2> QED BY <1>1, <2>1, <2>2 DEF TypeOK
<1>5. ASSUME NEW o, NEW S, NEW k \in 0 .. TTL + 2
      PROVE  /\ NotLost(o, S, k) => NotLost(o, S, k + 1)'
             /\ NotMissed(o, S, k) => NotMissed(o, S, k + 1)'
  <2>1. since <= k => since' <= k + 1
    BY <1>1, <1>5, Shapes DEF Longest
  <2> QED BY <1>1, <2>1 DEF NotLost, NotMissed
<1>6. ASSUME NEW r \in Requests PROVE SlotInv(r)'
  <2>1. 0 \in 0 .. TTL + 2 /\ TTL + 1 \in 0 .. TTL + 2 /\ TTL \in Nat
    BY Shapes
  <2>2. SlotInv(r)
    BY DEF IInv
  <2>3. CASE req[r].pc \in {"idle", "teacher"}
    BY <1>3, <2>2, <2>3 DEF SlotInv
  <2>7. CASE req[r].pc = "found"
    <3>1. PICK u \in Users : u = req[r].user /\ NotLost(u, {}, 0)
      BY <1>3, <2>2, <2>7 DEF SlotInv
    <3>2. NotLost(u, {}, 0 + 1)'
      BY <1>5, <2>1, <3>1
    <3> QED BY <1>3, <2>2, <2>7, <3>1, <3>2 DEF SlotInv, NotLost
  <2>4. CASE req[r].pc = "listed"
    BY <1>3, <1>5, <2>1, <2>2, <2>4 DEF SlotInv
  <2>5. CASE req[r].pc = "reading"
    BY <1>3, <1>5, <2>1, <2>2, <2>5 DEF SlotInv
  <2>6. CASE req[r].pc = "dashboard"
    BY <1>3, <1>5, <2>1, <2>2, <2>6 DEF SlotInv
  <2> QED BY <1>3, <2>3, <2>4, <2>5, <2>6, <2>7 DEF Request, PC
<1>7. ASSUME NEW t \in Tokens PROVE TokenInv(t)'
  <2> DEFINE k == TTL + 2 - tokens[t].left
  <2>1. /\ tokens[t].left \in 0 .. TTL + 1 /\ k \in 0 .. TTL + 2
        /\ verifyToken(t)' => tokens[t].left > 0 /\ TTL + 2 - tokens'[t].left = k + 1
    BY <1>2, Shapes DEF verifyToken
  <2>2. verifyToken(t)' => TokenInv(t) /\ verifyToken(t)
    BY <2>1 DEF verifyToken, IInv
  <2> QED BY <1>2, <1>5, <2>1, <2>2 DEF TokenInv
<1> QED BY <1>4, <1>6, <1>7 DEF IInv

LEMMA StepIInv == IInv /\ [Next]_vars => IInv'
<1>1. IInv /\ UNCHANGED vars => IInv'
  BY DEF vars, tables, history, IInv, TypeOK, SlotInv, TokenInv, NotLost, NotMissed,
         Seen, Watched, Scope, verifyToken
<1> QED BY <1>1, RowsKeep, IssueKeep, ReadKeep, TickKeep DEF Next

(* The inductive invariant holds of every behaviour. *)
LEMMA Invariance == Spec => []IInv
BY InitIInv, StepIInv, PTL DEF Spec

(* Every variable stays in its type. *)
THEOREM TypeCorrect == Spec => []TypeOK
<1>1. IInv => TypeOK
  BY DEF IInv
<1> QED BY <1>1, Invariance, PTL

(* No answer shows a student whom its reader lost from scope longer ago    *)
(* than a token lives and the requests around it take (requireStudentAccess*)
(* over the claims of issueTokens), or than the one request of the         *)
(* dashboard.                                                              *)
THEOREM SightIsBounded == Spec => []SightFollowsScope
<1>1. IInv => SightFollowsScope
  <2> SUFFICES ASSUME IInv, NEW r \in Requests
               PROVE  /\ At(r, "reading") /\ watched \in {req[r].user} \X (req[r].students \union {req[r].user})
                           => Watched \/ since <= TTL + 2
                      /\ At(r, "dashboard") /\ watched \in {Teacher} \X req[r].students
                           => Watched \/ since <= 1
    BY DEF SightFollowsScope
  <2>1. Seen(r) \in 0 .. 1 /\ TTL \in Nat /\ since \in Int /\ SlotInv(r)
    BY Shapes DEF Seen, IInv
  <2> QED BY <2>1, Shapes DEF SlotInv, NotLost, At, IInv
<1> QED BY <1>1, Invariance, PTL

(* No valid token keeps a child from its parent for longer than it lives   *)
(* and the request that signed it takes, once the child was linked.        *)
THEOREM SightArrives == Spec => []SightReachesScope
<1>1. IInv => SightReachesScope
  <2> SUFFICES ASSUME IInv, NEW t \in Tokens, verifyToken(t),
                      tokens[t].owner = watched[1], watched[1] # Teacher,
                      watched[2] \in Children, Watched, since > TTL + 1
               PROVE  canAccessStudent(t, watched[2])
    BY DEF SightReachesScope
  <2>1. /\ tokens[t].left \in 1 .. TTL + 1 /\ TTL \in Nat /\ since \in Int
        /\ NotMissed(tokens[t].owner, tokens[t].childIds, TTL + 2 - tokens[t].left)
    BY Shapes DEF IInv, TokenInv, verifyToken
  <2>2. watched[1] \in Parents \/ watched[2] = watched[1]
    BY Shapes DEF IInv, Users
  <2> QED BY <2>1, <2>2 DEF NotMissed, canAccessStudent
<1> QED BY <1>1, Invariance, PTL

=============================================================================
