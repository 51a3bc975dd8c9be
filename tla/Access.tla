------------------------------- MODULE Access -------------------------------
(***************************************************************************)
(* Who reads a student's data (master doc, section 16.2): the claims that  *)
(* auth-service signs into an access token, the checks server-kit makes    *)
(* from them for progress-service and content-service, and the dashboard   *)
(* of classroom-service, which checks its own tables instead.              *)
(*                                                                         *)
(* Time passes in ticks.  A token is valid for TTL ticks and the rest of   *)
(* the last one, and a request is answered before the second tick after    *)
(* its start: the one assumption on speed, that a request takes less than  *)
(* a tick.  A request in flight is a slot of `req'; every await whose      *)
(* answer is used later ends a step.  An administrator sees everything and *)
(* is left out; the teacher's account is not deleted, which is the case of *)
(* any other account.                                                      *)
(***************************************************************************)
EXTENDS Integers

CONSTANTS Parents, Children,
          Teacher,     \* who owns the one room
          Tokens,      \* slots for access tokens
          Requests,
          TTL,         \* ticks that an access token lives
          None

Users == Parents \union Children \union {Teacher}
Pairs == {<<u, u>> : u \in Parents \union Children}
           \union ((Parents \union {Teacher}) \X Children)

ASSUME AccessAssumption ==
  /\ TTL \in Nat
  /\ Parents \intersect Children = {}
  /\ Teacher \notin Parents \union Children
  /\ None \notin Users

VARIABLES
  parentOf,   \* users.parent_id of each child
  gone,       \* the users with deleted_at set
  members,    \* the children in the room
  open,       \* the room is not deleted
  tokens,
  req,
  watched,    \* history: a viewer and whom the viewer may see; any pair
  since       \* history: the ticks since the scope of that pair last changed

tables == <<parentOf, gone, members, open>>
history == <<watched, since>>
vars == <<tables, tokens, req, history>>

Token == [owner : Users \union {None}, childIds : SUBSET Children, left : 0..TTL+1]
PC == {"idle", "found", "listed", "reading", "teacher", "dashboard"}
Request == [pc : PC, user : Users \union {None}, students : SUBSET Children,
            late : BOOLEAN]
Slot(pc, u, S, late) == [pc |-> pc, user |-> u, students |-> S, late |-> late]
Idle == Slot("idle", None, {}, FALSE)
Longest == TTL + 3     \* where the history stops counting

TypeOK ==
  /\ parentOf \in [Children -> Parents \union {None}]
  /\ gone \subseteq Parents \union Children
  /\ members \subseteq Children
  /\ open \in BOOLEAN
  /\ tokens \in [Tokens -> Token]
  /\ req \in [Requests -> Request]
  /\ watched \in Pairs /\ since \in 0..Longest

Init ==
  /\ parentOf = [c \in Children |-> None]
  /\ gone = {}
  /\ members = {}
  /\ open = TRUE
  /\ tokens = [t \in Tokens |-> [owner |-> None, childIds |-> {}, left |-> 0]]
  /\ req = [r \in Requests |-> Idle]
  /\ watched \in Pairs /\ since = Longest

At(r, p) == req[r].pc = p
Keep(r, pc, u, S) == req' = [req EXCEPT ![r] = Slot(pc, u, S, @.late)]
Return(r) == req' = [req EXCEPT ![r] = Idle]

-----------------------------------------------------------------------------
(* Plausible slips of the code, used only to show that the properties      *)
(* notice them: the expiry not verified, a query without its deleted_at, a *)
(* check without the childIds claim, an age counted past zero.             *)
NotVerified(t) == tokens[t].owner # None
EvenDeleted(p) == {c \in Children : parentOf[c] = p}
OwnOnly(t, c) == tokens[t].owner = c
ExpireBelowZero(t) ==
  /\ tokens[t].left <= 1
  /\ tokens' = [tokens EXCEPT ![t].left = @ - 1]
  /\ UNCHANGED <<tables, req, history>>

-----------------------------------------------------------------------------
(* What the code means each viewer to see: an account itself and, of a     *)
(* parent, the children by the users table, of the teacher by the room.    *)
Scope(v, u) ==
  IF v = Teacher THEN open /\ u \in members
                 ELSE u \notin gone /\ (v = u \/ parentOf[u] = v)

(* The history starts anew where a step changes the scope.                 *)
Watched == Scope(watched[1], watched[2])
Notes ==
  /\ UNCHANGED watched
  /\ since' = IF Watched' = Watched THEN since ELSE 0

-----------------------------------------------------------------------------
(* The rows behind the scopes.                                             *)

(* submitConsent looked for a parent in an earlier step: a consent that    *)
(* overlaps another one moves the link.                                    *)
LinkParent(c, p) ==
  /\ parentOf' = [parentOf EXCEPT ![c] = p]
  /\ UNCHANGED <<gone, members, open, tokens, req>>
  /\ Notes

SoftDelete(u) ==
  /\ gone' = gone \union {u}
  /\ UNCHANGED <<parentOf, members, open, tokens, req>>
  /\ Notes

(* A profile update writes the row back as it read it, perhaps before the  *)
(* link or the deletion.                                                   *)
UpdateUser(u) ==
  /\ gone' \in {gone, gone \ {u}}
  /\ parentOf' \in {parentOf, [c \in Children |-> IF c = u THEN None ELSE parentOf[c]]}
  /\ UNCHANGED <<members, open, tokens, req>>
  /\ Notes

AddMember(c) ==
  /\ open
  /\ members' = members \union {c}
  /\ UNCHANGED <<parentOf, gone, open, tokens, req>>
  /\ Notes

RemoveMember(c) ==
  /\ members' = members \ {c}
  /\ UNCHANGED <<parentOf, gone, open, tokens, req>>
  /\ Notes

DeleteClassroom ==
  /\ open' = FALSE
  /\ UNCHANGED <<parentOf, gone, members, tokens, req>>
  /\ Notes

-----------------------------------------------------------------------------
(* login and refresh: the owner's row, then issueTokens.                   *)
FindOwner(r, u) ==
  /\ At(r, "idle")
  /\ u \notin gone
  /\ Keep(r, "found", u, {})
  /\ UNCHANGED <<tables, tokens, history>>

listChildrenForParent(p) == {c \in Children : parentOf[c] = p /\ c \notin gone}

IssueTokens(r) ==
  /\ At(r, "found")
  /\ Keep(r, "listed", req[r].user,
          IF req[r].user \in Parents THEN listChildrenForParent(req[r].user) ELSE {})
  /\ UNCHANGED <<tables, tokens, history>>

(* A slot is used again when its token has expired.                        *)
SignAccessToken(r, t) ==
  /\ At(r, "listed")
  /\ tokens[t].left = 0
  /\ tokens' = [tokens EXCEPT ![t] =
                  [owner |-> req[r].user, childIds |-> req[r].students, left |-> TTL+1]]
  /\ Return(r)
  /\ UNCHANGED <<tables, history>>

Expire(t) ==
  /\ tokens[t].left = 1
  /\ tokens' = [tokens EXCEPT ![t].left = 0]
  /\ UNCHANGED <<tables, req, history>>

-----------------------------------------------------------------------------
(* The reads from claims.                                                  *)
verifyToken(t) == tokens[t].left > 0

canAccessStudent(t, c) ==
  \/ tokens[t].owner \in Children /\ tokens[t].owner = c
  \/ tokens[t].owner \in Parents /\ c \in tokens[t].childIds

(* requireAuth, then the route's own check or requireStudentAccess; the    *)
(* query is under way.  A refusal changes nothing.                         *)
RequireAuth(r, t) == At(r, "idle") /\ verifyToken(t)
requireStudentAccess(r, t, S) ==
  /\ \A c \in S : canAccessStudent(t, c)
  /\ Keep(r, "reading", tokens[t].owner, S)

GetSession(r, t, c) ==
  /\ RequireAuth(r, t)
  /\ requireStudentAccess(r, t, {c})
  /\ UNCHANGED <<tables, tokens, history>>

GetFluency(r, t, c) ==
  /\ RequireAuth(r, t)
  /\ requireStudentAccess(r, t, {c})
  /\ UNCHANGED <<tables, tokens, history>>

BatchFluency(r, t, S) ==
  /\ RequireAuth(r, t)
  /\ requireStudentAccess(r, t, S)
  /\ UNCHANGED <<tables, tokens, history>>

GetAssignments(r, t, c) ==
  /\ RequireAuth(r, t)
  /\ requireStudentAccess(r, t, {c})
  /\ UNCHANGED <<tables, tokens, history>>

-----------------------------------------------------------------------------
(* The dashboard: the teacher's token says who asks, the room's rows whom  *)
(* the answer shows.                                                       *)
getClassroom == open
requireRole(t) == tokens[t].owner = Teacher
ensureClassroomTeacher(t) == getClassroom /\ tokens[t].owner = Teacher

Dashboard(r, t) ==
  /\ RequireAuth(r, t) /\ requireRole(t)
  /\ ensureClassroomTeacher(t)
  /\ Keep(r, "teacher", Teacher, {})
  /\ UNCHANGED <<tables, tokens, history>>

ListMembers(r) ==
  /\ At(r, "teacher")
  /\ IF getClassroom THEN Keep(r, "dashboard", Teacher, members) ELSE Return(r)
  /\ UNCHANGED <<tables, tokens, history>>

(* One batch to progress-service under the service's own token, which sees *)
(* everyone; when it fails, the students are shown without their fluency.  *)
GetStudentsFluency(r) ==
  /\ At(r, "dashboard")
  /\ Return(r)
  /\ UNCHANGED <<tables, tokens, history>>

(* The answer to a read from claims.                                       *)
Answer(r) ==
  /\ At(r, "reading")
  /\ Return(r)
  /\ UNCHANGED <<tables, tokens, history>>

(* The process stops, or a call fails.                                     *)
Break(r) ==
  /\ req[r].pc \in {"found", "listed", "teacher"}
  /\ Return(r)
  /\ UNCHANGED <<tables, tokens, history>>

-----------------------------------------------------------------------------
Tick ==
  /\ \A t \in Tokens : tokens[t].left # 1
  /\ \A r \in Requests : ~ req[r].late
  /\ tokens' = [t \in Tokens |->
                  [tokens[t] EXCEPT !.left = IF @ = 0 THEN 0 ELSE @ - 1]]
  /\ req' = [r \in Requests |-> [req[r] EXCEPT !.late = @ \/ ~ At(r, "idle")]]
  /\ since' = IF since = Longest THEN Longest ELSE since + 1
  /\ UNCHANGED <<tables, watched>>

Rows ==
  \/ \E c \in Children, p \in Parents : LinkParent(c, p)
  \/ \E u \in Parents \union Children : SoftDelete(u) \/ UpdateUser(u)
  \/ \E c \in Children : AddMember(c) \/ RemoveMember(c)
  \/ DeleteClassroom

Issue ==
  \/ \E r \in Requests, u \in Users : FindOwner(r, u)
  \/ \E r \in Requests : IssueTokens(r) \/ Break(r)
  \/ \E r \in Requests, t \in Tokens : SignAccessToken(r, t)
  \/ \E t \in Tokens : Expire(t)

Read ==
  \/ \E r \in Requests, t \in Tokens, c \in Children :
       GetSession(r, t, c) \/ GetFluency(r, t, c) \/ GetAssignments(r, t, c)
  \/ \E r \in Requests, t \in Tokens, S \in (SUBSET Children) \ {{}} :
       BatchFluency(r, t, S)
  \/ \E r \in Requests, t \in Tokens : Dashboard(r, t)
  \/ \E r \in Requests : ListMembers(r) \/ GetStudentsFluency(r) \/ Answer(r)

Next == Rows \/ Issue \/ Read \/ Tick
Spec == Init /\ [][Next]_vars

-----------------------------------------------------------------------------
(* An answer shows a student only to who has the student in scope or had   *)
(* it a short while ago: from claims (auth-service.ts:449-462,             *)
(* auth-plugin.ts:90-110) the life of a token and the two requests around  *)
(* it, from the dashboard's own check (classroom-service.ts:192) the one   *)
(* request.  A token outlives the link and the account it was issued for,  *)
(* but nothing renews the claim.                                           *)
SightFollowsScope ==
  \A r \in Requests :
    /\ At(r, "reading") /\ watched \in {req[r].user} \X (req[r].students \union {req[r].user})
         => Watched \/ since <= TTL + 2
    /\ At(r, "dashboard") /\ watched \in {Teacher} \X req[r].students
         => Watched \/ since <= 1

(* And nobody waits longer for what came into scope: once a child was a    *)
(* parent's own for the life of a token and the request that signed it,    *)
(* every token of the parent that still verifies opens the child's data.   *)
(* No token is told of a new link (submitConsent, auth-service.ts:387).    *)
SightReachesScope ==
  \A t \in Tokens :
    verifyToken(t) /\ tokens[t].owner = watched[1] /\ watched[1] # Teacher
      /\ watched[2] \in Children /\ Watched /\ since > TTL + 1
    => canAccessStudent(t, watched[2])

=============================================================================
