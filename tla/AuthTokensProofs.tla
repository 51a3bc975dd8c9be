-------------------------- MODULE AuthTokensProofs --------------------------
(***************************************************************************)
(* Theorems about AuthTokens for any accounts, tokens, links and number of *)
(* requests in flight.  IInv is the inductive invariant they rest on: what *)
(* the rows of refresh_tokens say of each other, and what each slot knows  *)
(* about the row it read.                                                  *)
(***************************************************************************)
EXTENDS AuthTokens, TLAPS

RowsInv ==
  /\ \A t \in Tokens \ issued : row[t] = NoRow
  /\ \A t \in issued :
       /\ row[t].user \in Users
       /\ row[t].family \in issued
       /\ row[t].pred \in revoked \union {NoToken}
       /\ row[t].pred = NoToken => row[t].family = t
       /\ row[t].pred # NoToken => row[row[t].pred].family = row[t].family
       /\ row[t].via = "password" /\ row[t].user \in Children => row[t].user \in verified

SlotInv(r) ==
  /\ req[r].pc # "idle" => req[r].user \in Users
  /\ req[r].token # NoToken => req[r].token \in issued
  /\ req[r].pc \in {"reuse", "rotate", "owner"} => req[r].token # NoToken
  /\ req[r].pc = "consent" => req[r].token = NoToken
  /\ req[r].pc \in {"owner", "issue"} => req[r].token \in revoked \union {NoToken}
  /\ req[r].pc \in {"resetUser", "resetHash", "resetMark", "resetRevoke"}
       => req[r].link \in Links
  /\ /\ req[r].pc \in {"reuse", "rotate", "owner", "issue"}
     /\ req[r].via = "password"
     /\ req[r].user \in Children
     => req[r].user \in verified

IInv ==
  /\ TypeOK
  /\ RowsInv
  /\ \A r \in Requests : SlotInv(r)

LEMMA InitIInv == Init => IInv
BY ConstantsAssumption
   DEF Init, IInv, TypeOK, RowsInv, SlotInv, NoRow, Row, Idle, Slot, Request, PC, Via

(* A step that neither issues a token nor forgets a revocation or a        *)
(* consent keeps what is known of rows and of the slots it does not touch. *)
LEMMA Monotone ==
  ASSUME IInv, issued' = issued, row' = row, revoked \subseteq revoked',
         verified \subseteq verified'
  PROVE  /\ RowsInv'
         /\ \A r \in Requests : req'[r] = req[r] => SlotInv(r)'
BY DEF IInv, RowsInv, SlotInv

(* The slot a request moves on to, or leaves. *)
LEMMA SlotType ==
  ASSUME IInv, NEW r \in Requests, NEW p \in PC
  PROVE  /\ Slot(p, req[r].user, req[r].token, req[r].link, req[r].since, req[r].via)
              \in Request
         /\ Idle \in Request
         /\ \A u \in Users : Slot(p, u, NoToken, NoLink, 0, "none") \in Request
BY DEF IInv, TypeOK, Request, Idle, Slot, PC, Via

LEMMA Kept ==
  ASSUME IInv, NEW r \in Requests, NEW s \in Request, Keep(r, s)
  PROVE  /\ req' \in [Requests -> Request]
         /\ req'[r] = s
         /\ \A q \in Requests : q # r => req'[q] = req[q]
BY DEF IInv, TypeOK, Keep

LEMMA Moved ==
  ASSUME IInv, NEW r \in Requests, NEW p \in PC, Goto(r, p)
  PROVE  /\ req' \in [Requests -> Request]
         /\ req'[r].pc = p /\ req'[r].user = req[r].user
         /\ req'[r].token = req[r].token /\ req'[r].link = req[r].link
         /\ req'[r].via = req[r].via /\ req'[r].since = req[r].since
         /\ \A q \in Requests : q # r => req'[q] = req[q]
<1> DEFINE s == Slot(p, req[r].user, req[r].token, req[r].link, req[r].since,
                     req[r].via)
<1>1. s \in Request
  BY SlotType
<1>2. Keep(r, s)
  BY DEF Goto
<1> QED BY <1>1, <1>2, Kept DEF Slot

LEMMA Returned ==
  ASSUME IInv, NEW r \in Requests, Return(r),
         issued' = issued, row' = row, revoked \subseteq revoked',
         verified \subseteq verified'
  PROVE  /\ req' \in [Requests -> Request]
         /\ RowsInv'
         /\ \A q \in Requests : SlotInv(q)'
<1>1. Idle \in Request
  BY SlotType DEF PC
<1>2. req'[r] = Idle /\ req' \in [Requests -> Request]
  BY <1>1, Kept DEF Return
<1>3. \A q \in Requests : q # r => SlotInv(q)'
  BY <1>1, Kept, Monotone DEF Return
<1>4. SlotInv(r)'
  BY <1>2 DEF SlotInv, Idle, Slot
<1> QED BY <1>2, <1>3, <1>4, Monotone

(* The types of the history variables.                                     *)
LEMMA BehindType ==
  ASSUME IInv, NEW r \in Requests, NEW S \in SUBSET Sweeps, Behind(r, S)
  PROVE  /\ burnt' \subseteq Tokens /\ halfway' \subseteq Users
         /\ lateReq' \in [Requests -> SUBSET Sweeps]
         /\ lateTok' \in [Tokens -> SUBSET Sweeps]
BY DEF Behind, IInv, TypeOK

LEMMA OvertakeType ==
  ASSUME IInv, NEW Q, NEW s \in Sweeps, Overtake(Q, s)
  PROVE  lateReq' \in [Requests -> SUBSET Sweeps]
BY DEF Overtake, IInv, TypeOK

LEMMA SessionStep ==
  ASSUME IInv, NEW r \in Requests, Session(r)
  PROVE  IInv'
<1> USE ConstantsAssumption
<1>1. ASSUME NEW u \in Users, LoginFind(r, u) PROVE IInv'
  <2> DEFINE s == Slot(IF u \in Children THEN "consent" ELSE "issue",
                       u, NoToken, NoLink, password[u], "password")
  <2>1. s \in Request
    BY DEF IInv, TypeOK, Request, Slot, PC, Via
  <2>2. Keep(r, s) /\ Behind(r, {}) /\ UNCHANGED dbVars
    BY <1>1 DEF LoginFind
  <2>3. SlotInv(r)'
    BY <2>1, <2>2, Kept DEF SlotInv, Slot, dbVars
  <2> QED BY <2>1, <2>2, <2>3, Kept, Monotone, BehindType DEF IInv, TypeOK, dbVars, history
<1>2. ASSUME NEW u \in Users, GoogleOAuth(r, u) PROVE IInv'
  <2> DEFINE s == Slot("issue", u, NoToken, NoLink, password[u], "google")
  <2>1. s \in Request
    BY DEF IInv, TypeOK, Request, Slot, PC, Via
  <2>2. Keep(r, s) /\ Behind(r, {}) /\ UNCHANGED dbVars
    BY <1>2 DEF GoogleOAuth
  <2>3. SlotInv(r)'
    BY <2>1, <2>2, Kept DEF SlotInv, Slot, dbVars
  <2> QED BY <2>1, <2>2, <2>3, Kept, Monotone, BehindType DEF IInv, TypeOK, dbVars, history
<1>3. CASE LoginConsent(r)
  <2>1. CASE ~ ConsentVerified(req[r].user)
    BY <1>3, <2>1, Returned DEF LoginConsent, IInv, TypeOK, dbVars, history
  <2>2. CASE ConsentVerified(req[r].user)
    <3>1. Goto(r, "issue") /\ UNCHANGED <<dbVars, history>>
      BY <1>3, <2>2 DEF LoginConsent
    <3>2. SlotInv(r)'
      BY <1>3, <2>2, <3>1, Moved
         DEF LoginConsent, At, ConsentVerified, SlotInv, PC, IInv, dbVars
    <3> QED BY <3>1, <3>2, Moved, Monotone DEF IInv, TypeOK, PC, dbVars, history
  <2> QED BY <2>1, <2>2
<1>4. ASSUME NEW t \in Tokens, RefreshFind(r, t) PROVE IInv'
  <2> DEFINE s == Slot(IF AlreadyRevoked(t) THEN "reuse" ELSE "rotate",
                       row[t].user, t, NoLink, row[t].since, row[t].via)
  <2>1. row[t] \in Row
    BY DEF IInv, TypeOK
  <2>2. s \in Request
    BY <2>1 DEF Row, Request, Slot, PC
  <2>3. Keep(r, s) /\ t \in issued /\ Behind(r, lateTok[t]) /\ UNCHANGED dbVars
    BY <1>4 DEF RefreshFind
  <2>4. SlotInv(r)'
    BY <2>2, <2>3, Kept DEF SlotInv, Slot, IInv, RowsInv, TypeOK, dbVars
  <2> QED BY <2>2, <2>3, <2>4, Kept, Monotone, BehindType DEF IInv, TypeOK, dbVars, history
<1>5. ASSUME NEW t \in Tokens, IssueTokens(r, t) PROVE IInv'
  <2> DEFINE p == req[r].token
             f == IF p = NoToken THEN t ELSE row[p].family
             n == [user |-> req[r].user, family |-> f, pred |-> p,
                   since |-> req[r].since, via |-> req[r].via]
  <2>1. /\ At(r, "issue") /\ t \notin issued /\ issued' = issued \union {t}
        /\ row' = [row EXCEPT ![t] = n]
        /\ Return(r)
        /\ UNCHANGED <<deleted, password, verified, revoked, linkUser, linkUsed,
                       announced, burnt, halfway, lateReq>>
        /\ lateTok' = [lateTok EXCEPT ![t] = lateReq[r]]
    BY <1>5 DEF IssueTokens
  <2>2. /\ req[r] \in Request
        /\ p \in revoked \union {NoToken} /\ req[r].user \in Users
        /\ p # NoToken => p \in issued /\ row[p] \in Row
    BY <2>1 DEF IInv, TypeOK, SlotInv, At
  <2>3. n \in Row
    BY <2>2 DEF Row, Request
  <2>4. row' \in [Tokens -> Row]
    BY <2>1, <2>3 DEF IInv, TypeOK
  <2>5. row'[t] = n /\ \A x \in issued : x # t /\ row'[x] = row[x]
    BY <2>1 DEF IInv, TypeOK
  <2>6. /\ req' \in [Requests -> Request]
        /\ req'[r] = Idle
        /\ \A q \in Requests : q # r => req'[q] = req[q]
    BY <2>1, SlotType, Kept DEF Return, PC
  <2>7. TypeOK'
    BY <2>1, <2>4, <2>6 DEF IInv, TypeOK
  <2>8. \A x \in Tokens \ issued' : row'[x] = NoRow
    BY <2>1 DEF IInv, RowsInv, TypeOK
  <2>9. /\ n.family \in issued'
        /\ n.via = "password" /\ n.user \in Children => n.user \in verified
        /\ n.pred # NoToken => row[n.pred].family = n.family
    BY <2>1, <2>2 DEF IInv, RowsInv, SlotInv, At
  <2>10. RowsInv'
    BY <2>1, <2>2, <2>5, <2>8, <2>9 DEF IInv, RowsInv, TypeOK
  <2>11. \A q \in Requests : SlotInv(q)'
    BY <2>1, <2>6 DEF IInv, SlotInv, Idle, Slot
  <2> QED BY <2>7, <2>10, <2>11 DEF IInv
<1>6. CASE RefreshReuse(r)
  <2>1. req[r].token \in issued /\ row[req[r].token].family \in issued
    BY <1>6 DEF RefreshReuse, At, IInv, SlotInv, RowsInv
  <2>2. revoked' \subseteq issued' /\ burnt' \subseteq Tokens
    BY <1>6, <2>1 DEF RefreshReuse, revokeTokenFamily, Family, IInv, TypeOK
  <2>3. lateReq' \in [Requests -> SUBSET Sweeps]
    BY <1>6, OvertakeType DEF RefreshReuse, Sweeps
  <2> QED BY <1>6, <2>2, <2>3, Returned DEF RefreshReuse, IInv, TypeOK
<1>7. CASE RefreshRotate(r)
  <2>1. /\ Goto(r, "owner") /\ req[r].token \in issued
        /\ revoked' = revoked \union {req[r].token}
    BY <1>7 DEF RefreshRotate, At, revokeRefreshToken, IInv, SlotInv
  <2>2. SlotInv(r)'
    BY <1>7, <2>1, Moved
       DEF RefreshRotate, At, SlotInv, PC, IInv
  <2> QED BY <1>7, <2>1, <2>2, Moved, Monotone
          DEF RefreshRotate, history, IInv, TypeOK, PC
<1>8. CASE RefreshOwner(r)
  <2>1. CASE Deleted(req[r].user)
    BY <1>8, <2>1, Returned DEF RefreshOwner, IInv, TypeOK, dbVars, history
  <2>2. CASE ~ Deleted(req[r].user)
    <3>1. Goto(r, "issue") /\ UNCHANGED <<dbVars, history>>
      BY <1>8, <2>2 DEF RefreshOwner
    <3>2. SlotInv(r)'
      BY <1>8, <3>1, Moved
         DEF RefreshOwner, At, SlotInv, PC, IInv, dbVars
    <3> QED BY <3>1, <3>2, Moved, Monotone DEF IInv, TypeOK, PC, dbVars, history
  <2> QED BY <2>1, <2>2
<1> QED BY <1>1, <1>2, <1>3, <1>4, <1>5, <1>6, <1>7, <1>8 DEF Session

LEMMA AccountStep ==
  ASSUME IInv, NEW r \in Requests, Account(r)
  PROVE  IInv'
<1> USE ConstantsAssumption
<1>1. ASSUME NEW k \in Links, ResetFind(r, k) PROVE IInv'
  <2> DEFINE s == Slot("resetUser", linkUser[k], NoToken, k, 0, "none")
  <2>1. /\ Keep(r, s) /\ linkUser[k] # NoUser
        /\ UNCHANGED <<dbVars, history>>
    BY <1>1 DEF ResetFind
  <2>2. s \in Request
    BY DEF IInv, TypeOK, Request, Slot, PC, Via
  <2>3. SlotInv(r)'
    BY <2>1, <2>2, Kept DEF SlotInv, Slot, IInv, TypeOK, dbVars
  <2> QED BY <2>1, <2>2, <2>3, Kept, Monotone DEF IInv, TypeOK, dbVars, history
<1>2. CASE ResetUser(r)
  <2>1. CASE Deleted(req[r].user)
    BY <1>2, <2>1, Returned DEF ResetUser, IInv, TypeOK, dbVars, history
  <2>2. CASE ~ Deleted(req[r].user)
    <3>1. Goto(r, "resetHash") /\ UNCHANGED <<dbVars, history>>
      BY <1>2, <2>2 DEF ResetUser
    <3>2. SlotInv(r)'
      BY <1>2, <3>1, Moved
         DEF ResetUser, At, SlotInv, PC, IInv, dbVars
    <3> QED BY <3>1, <3>2, Moved, Monotone DEF IInv, TypeOK, PC, dbVars, history
  <2> QED BY <2>1, <2>2
<1>3. CASE ResetPassword(r)
  <2>1. Goto(r, "resetMark") /\ At(r, "resetHash") /\ req[r].user \in Users
    BY <1>3 DEF ResetPassword, IInv, TypeOK, SlotInv, At
  <2>2. SlotInv(r)'
    BY <1>3, <2>1, Moved DEF ResetPassword, At, SlotInv, PC, IInv
  <2> QED BY <1>3, <2>1, <2>2, Moved, Monotone DEF ResetPassword, history, IInv, TypeOK, PC
<1>4. CASE ResetMark(r)
  <2>1. Goto(r, "resetRevoke") /\ req[r].link \in Links
    BY <1>4 DEF ResetMark, At, IInv, SlotInv
  <2>2. SlotInv(r)'
    BY <1>4, <2>1, Moved DEF ResetMark, At, SlotInv, PC, IInv
  <2> QED BY <1>4, <2>1, <2>2, Moved, Monotone
          DEF ResetMark, history, IInv, TypeOK, PC
<1>5. CASE ResetRevoke(r)
  <2>1. req[r] \in Request
    BY DEF IInv, TypeOK
  <2>2. /\ halfway' \subseteq Users /\ revoked' \subseteq issued'
        /\ lateReq' \in [Requests -> SUBSET Sweeps]
    BY <1>5, <2>1, OvertakeType
       DEF ResetRevoke, revokeAllUserTokens, TokensOf, Request, Sweeps, IInv, TypeOK
  <2> QED BY <1>5, <2>2, Returned DEF ResetRevoke, IInv, TypeOK
<1>6. ASSUME NEW u \in Users, DeleteRevoke(r, u) PROVE IInv'
  <2>0. Slot("erase", u, NoToken, NoLink, 0, "none") \in Request
    BY SlotType DEF PC
  <2>1. /\ Keep(r, Slot("erase", u, NoToken, NoLink, 0, "none"))
        /\ revoked' \subseteq issued'
    BY <1>6 DEF DeleteRevoke, Start, revokeAllUserTokens, TokensOf, IInv, TypeOK
  <2>2. SlotInv(r)'
    BY <2>1, <2>0, Kept DEF SlotInv, Slot
  <2> QED BY <1>6, <2>0, <2>1, <2>2, Kept, Monotone
          DEF DeleteRevoke, history, IInv, TypeOK, PC
<1>7. ASSUME NEW u \in Users, ProfileRead(r, u) PROVE IInv'
  <2> DEFINE p == IF Deleted(u) THEN "writeDeleted" ELSE "writeActive"
  <2>1. /\ Keep(r, Slot(p, u, NoToken, NoLink, 0, "none"))
        /\ UNCHANGED <<dbVars, history>>
    BY <1>7 DEF ProfileRead, Start
  <2>2. p \in PC /\ Slot(p, u, NoToken, NoLink, 0, "none") \in Request
    BY SlotType DEF PC
  <2>3. SlotInv(r)'
    BY <2>1, <2>2, Kept DEF SlotInv, Slot
  <2> QED BY <2>1, <2>2, <2>3, Kept, Monotone DEF IInv, TypeOK, dbVars, history
<1>8. CASE DeleteSoft(r)
  <2>1. Goto(r, "publish") /\ req[r].user \in Users
    BY <1>8 DEF DeleteSoft, At, IInv, SlotInv
  <2>2. SlotInv(r)'
    BY <1>8, <2>1, Moved DEF DeleteSoft, At, SlotInv, PC, IInv
  <2> QED BY <1>8, <2>1, <2>2, Moved, Monotone
          DEF DeleteSoft, history, IInv, TypeOK, PC
<1>9. CASE DeletePublish(r)
  <2>1. req[r].user \in Users
    BY <1>9 DEF DeletePublish, At, IInv, SlotInv
  <2> QED BY <1>9, <2>1, Returned DEF DeletePublish, history, IInv, TypeOK
<1>10. CASE ProfileWrite(r)
  <2>1. req[r].user \in Users
    BY <1>10 DEF ProfileWrite, At, IInv, SlotInv
  <2> QED BY <1>10, <2>1, Returned DEF ProfileWrite, history, IInv, TypeOK
<1> QED BY <1>1, <1>2, <1>3, <1>4, <1>5, <1>6, <1>7, <1>8, <1>9, <1>10 DEF Account

LEMMA StepIInv == IInv /\ [Next]_vars => IInv'
<1> SUFFICES ASSUME IInv, [Next]_vars PROVE IInv'
  OBVIOUS
<1> USE ConstantsAssumption
<1>1. ASSUME NEW r \in Requests, Session(r) PROVE IInv'
  BY <1>1, SessionStep
<1>2. ASSUME NEW r \in Requests, Account(r) PROVE IInv'
  BY <1>2, AccountStep
<1>3. ASSUME NEW r \in Requests, Crash(r) PROVE IInv'
  BY <1>3, Returned DEF Crash, IInv, TypeOK, dbVars, history
<1>4. ASSUME NEW t \in Tokens, Logout(t) PROVE IInv'
  BY <1>4, Monotone DEF Logout, revokeRefreshToken, history, IInv, TypeOK
<1>5. ASSUME NEW u \in Users, NEW k \in Links, ResetRequest(u, k) PROVE IInv'
  BY <1>5, Monotone DEF ResetRequest, history, IInv, TypeOK
<1>6. ASSUME NEW u \in Children, Consent(u) PROVE IInv'
  BY <1>6, Monotone DEF Consent, history, IInv, TypeOK
<1>7. CASE UNCHANGED vars
  BY <1>7 DEF vars, dbVars, history, IInv, TypeOK, RowsInv, SlotInv
<1> QED BY <1>1, <1>2, <1>3, <1>4, <1>5, <1>6, <1>7 DEF Next

(* The inductive invariant holds of every behaviour. *)
THEOREM Invariance == Spec => []IInv
BY InitIInv, StepIInv, PTL DEF Spec

(* Every variable stays in its type; in particular only rows that were     *)
(* inserted are ever revoked (logout and refreshSession update rows they   *)
(* found).                                                                 *)
THEOREM TypeCorrect == Spec => []TypeOK
<1>1. IInv => TypeOK
  BY DEF IInv
<1> QED BY <1>1, Invariance, PTL

(* The token a token was rotated from is revoked, however requests         *)
(* overlap: no client holds a usable token and its usable predecessor.     *)
THEOREM RotationRevokes == Spec => []PredecessorRevoked
<1>1. IInv => PredecessorRevoked
  BY DEF IInv, RowsInv, PredecessorRevoked
<1> QED BY <1>1, Invariance, PTL

(* Password sessions of children, and all that is rotated from them, exist *)
(* only after the consent was verified.                                    *)
THEOREM ConsentFirst == Spec => []PasswordSessionNeedsConsent
<1>1. IInv => PasswordSessionNeedsConsent
  BY DEF IInv, RowsInv, PasswordSessionNeedsConsent
<1> QED BY <1>1, Invariance, PTL
-----------------------------------------------------------------------------
(***************************************************************************)
(* What a step may do: the shape of the rotation chains, what stays        *)
(* revoked, and the implementation of TokenForest.                         *)
(***************************************************************************)

(* How a slot may change in a step that inserts no token.                  *)
SlotStep(q) ==
  \/ req'[q] = req[q]
  \/ req'[q].pc \notin Granting
  \/ /\ req[q].pc \in Granting \ {"issue"}
     /\ req'[q].token = req[q].token
     /\ req'[q].user = req[q].user
     /\ req'[q].since = req[q].since
     /\ req[q].pc = "consent" => req[q].token = NoToken
  \/ \E u \in Users : LoginFind(q, u) \/ GoogleOAuth(q, u)
  \/ \E t \in Tokens : RefreshFind(q, t)

QuietStep ==
  /\ issued' = issued /\ row' = row
  /\ revoked \subseteq revoked' /\ revoked' \subseteq issued
  /\ \A q \in Requests : SlotStep(q)

(* An issue fills in one unused row and frees its slot.                    *)
LEMMA Issued ==
  ASSUME IInv, NEW r \in Requests, NEW t \in Tokens, IssueTokens(r, t)
  PROVE  /\ t \notin issued /\ issued' = issued \union {t} /\ revoked' = revoked
         /\ \A x \in Tokens : x # t => row'[x] = row[x]
         /\ row'[t].user = req[r].user
         /\ row'[t].pred = req[r].token
         /\ row'[t].family = IF req[r].token = NoToken THEN t
                             ELSE row[req[r].token].family
         /\ req[r].pc = "issue"
         /\ req[r].token \in revoked \union {NoToken}
         /\ req'[r].pc = "idle"
         /\ \A q \in Requests : q # r => req'[q] = req[q]
<1>1. Idle \in Request
  BY SlotType DEF PC
<1>2. req'[r] = Idle /\ \A q \in Requests : q # r => req'[q] = req[q]
  BY <1>1, Kept DEF IssueTokens, Return
<1> QED BY <1>2 DEF IssueTokens, Idle, Slot, IInv, TypeOK, SlotInv, At

LEMMA ReturnStep ==
  ASSUME IInv, NEW r \in Requests, Return(r)
  PROVE  \A q \in Requests : SlotStep(q)
<1>1. Idle \in Request
  BY SlotType DEF PC
<1>2. req'[r] = Idle /\ \A q \in Requests : q # r => req'[q] = req[q]
  BY <1>1, Kept DEF Return
<1> QED BY <1>2 DEF SlotStep, Granting, Idle, Slot

LEMMA GotoStep ==
  ASSUME IInv, NEW r \in Requests, NEW p \in PC, Goto(r, p),
         req[r].pc \in Granting \ {"issue"} \/ p \notin Granting
  PROVE  \A q \in Requests : SlotStep(q)
BY Moved DEF SlotStep, IInv, SlotInv

LEMMA KeepStep ==
  ASSUME IInv, NEW r \in Requests, NEW s \in Request, Keep(r, s),
         \/ s.pc \notin Granting
         \/ \E u \in Users : LoginFind(r, u) \/ GoogleOAuth(r, u)
         \/ \E t \in Tokens : RefreshFind(r, t)
  PROVE  \A q \in Requests : SlotStep(q)
BY Kept DEF SlotStep

LEMMA SessionShape ==
  ASSUME IInv, NEW r \in Requests, Session(r)
  PROVE  QuietStep \/ \E t \in Tokens : IssueTokens(r, t)
<1> USE DEF QuietStep
<1>1. ASSUME NEW u \in Users, LoginFind(r, u) PROVE QuietStep
  <2> DEFINE s == Slot(IF u \in Children THEN "consent" ELSE "issue",
                       u, NoToken, NoLink, password[u], "password")
  <2>1. s \in Request
    BY DEF IInv, TypeOK, Request, Slot, PC, Via
  <2>2. Keep(r, s) /\ UNCHANGED dbVars
    BY <1>1 DEF LoginFind
  <2> QED BY <1>1, <2>1, <2>2, KeepStep DEF dbVars, IInv, TypeOK
<1>2. ASSUME NEW u \in Users, GoogleOAuth(r, u) PROVE QuietStep
  <2> DEFINE s == Slot("issue", u, NoToken, NoLink, password[u], "google")
  <2>1. s \in Request
    BY DEF IInv, TypeOK, Request, Slot, PC, Via
  <2>2. Keep(r, s) /\ UNCHANGED dbVars
    BY <1>2 DEF GoogleOAuth
  <2> QED BY <1>2, <2>1, <2>2, KeepStep DEF dbVars, IInv, TypeOK
<1>3. CASE LoginConsent(r)
  BY <1>3, ReturnStep, GotoStep DEF LoginConsent, At, Granting, PC, dbVars, IInv, TypeOK
<1>4. ASSUME NEW t \in Tokens, RefreshFind(r, t) PROVE QuietStep
  <2> DEFINE s == Slot(IF AlreadyRevoked(t) THEN "reuse" ELSE "rotate",
                       row[t].user, t, NoLink, row[t].since, row[t].via)
  <2>1. row[t] \in Row
    BY DEF IInv, TypeOK
  <2>2. s \in Request
    BY <2>1, ConstantsAssumption DEF Row, Request, Slot, PC
  <2>3. Keep(r, s) /\ UNCHANGED dbVars
    BY <1>4 DEF RefreshFind
  <2> QED BY <1>4, <2>2, <2>3, KeepStep DEF dbVars, IInv, TypeOK
<1>5. CASE RefreshReuse(r)
  BY <1>5, ReturnStep DEF RefreshReuse, revokeTokenFamily, Family, IInv, TypeOK
<1>6. CASE RefreshRotate(r)
  <2>1. req[r].token \in issued
    BY <1>6 DEF RefreshRotate, At, IInv, SlotInv
  <2> QED BY <1>6, <2>1, GotoStep
          DEF RefreshRotate, At, Granting, PC, revokeRefreshToken, IInv, TypeOK
<1>7. CASE RefreshOwner(r)
  BY <1>7, ReturnStep, GotoStep DEF RefreshOwner, At, Granting, PC, dbVars, IInv, TypeOK
<1> QED BY <1>1, <1>2, <1>3, <1>4, <1>5, <1>6, <1>7 DEF Session

LEMMA AccountShape ==
  ASSUME IInv, NEW r \in Requests, Account(r)
  PROVE  QuietStep
<1> USE DEF QuietStep
<1>1. ASSUME NEW k \in Links, ResetFind(r, k) PROVE QuietStep
  <2> DEFINE s == Slot("resetUser", linkUser[k], NoToken, k, 0, "none")
  <2>1. s \in Request /\ s.pc \notin Granting
    BY DEF IInv, TypeOK, Request, Slot, PC, Via, Granting
  <2>2. Keep(r, s) /\ UNCHANGED <<dbVars, history>>
    BY <1>1 DEF ResetFind
  <2> QED BY <2>1, <2>2, KeepStep DEF dbVars, IInv, TypeOK
<1>2. CASE ResetUser(r)
  BY <1>2, ReturnStep, GotoStep DEF ResetUser, Granting, PC, dbVars, IInv, TypeOK
<1>3. CASE ResetPassword(r)
  BY <1>3, GotoStep DEF ResetPassword, Granting, PC, IInv, TypeOK
<1>4. CASE ResetMark(r)
  BY <1>4, GotoStep DEF ResetMark, Granting, PC, IInv, TypeOK
<1>5. CASE ResetRevoke(r)
  BY <1>5, ReturnStep DEF ResetRevoke, revokeAllUserTokens, TokensOf, IInv, TypeOK
<1>6. ASSUME NEW u \in Users, DeleteRevoke(r, u) PROVE QuietStep
  <2> DEFINE s == Slot("erase", u, NoToken, NoLink, 0, "none")
  <2>1. s \in Request /\ s.pc \notin Granting
    BY SlotType DEF PC, Slot, Granting
  <2> QED BY <1>6, <2>1, KeepStep
          DEF DeleteRevoke, Start, revokeAllUserTokens, TokensOf, IInv, TypeOK
<1>7. ASSUME NEW u \in Users, ProfileRead(r, u) PROVE QuietStep
  <2> DEFINE s == Slot(IF Deleted(u) THEN "writeDeleted" ELSE "writeActive",
                       u, NoToken, NoLink, 0, "none")
  <2>1. s \in Request /\ s.pc \notin Granting
    BY SlotType DEF PC, Slot, Granting
  <2> QED BY <1>7, <2>1, KeepStep DEF ProfileRead, Start, dbVars, IInv, TypeOK
<1>8. CASE DeleteSoft(r)
  BY <1>8, GotoStep DEF DeleteSoft, Granting, PC, IInv, TypeOK
<1>9. CASE DeletePublish(r)
  BY <1>9, ReturnStep DEF DeletePublish, IInv, TypeOK
<1>10. CASE ProfileWrite(r)
  BY <1>10, ReturnStep DEF ProfileWrite, IInv, TypeOK
<1> QED BY <1>1, <1>2, <1>3, <1>4, <1>5, <1>6, <1>7, <1>8, <1>9, <1>10 DEF Account

(* Every step either inserts one token or only revokes tokens and moves    *)
(* slots along.                                                            *)
LEMMA Shape ==
  ASSUME IInv, [Next]_vars
  PROVE  QuietStep \/ \E r \in Requests, t \in Tokens : IssueTokens(r, t)
<1>1. ASSUME NEW r \in Requests, Crash(r) PROVE QuietStep
  BY <1>1, ReturnStep DEF Crash, dbVars, QuietStep, IInv, TypeOK
<1>2. ASSUME NEW t \in Tokens, Logout(t) PROVE QuietStep
  BY <1>2 DEF Logout, revokeRefreshToken, QuietStep, SlotStep, IInv, TypeOK
<1>3. ASSUME NEW u \in Users, NEW k \in Links, ResetRequest(u, k) PROVE QuietStep
  BY <1>3 DEF ResetRequest, QuietStep, SlotStep, IInv, TypeOK
<1>4. ASSUME NEW u \in Children, Consent(u) PROVE QuietStep
  BY <1>4 DEF Consent, QuietStep, SlotStep, IInv, TypeOK
<1>5. CASE UNCHANGED vars
  BY <1>5 DEF vars, dbVars, QuietStep, SlotStep, IInv, TypeOK
<1> QED BY <1>1, <1>2, <1>3, <1>4, <1>5, SessionShape, AccountShape DEF Next

-----------------------------------------------------------------------------
(* Rotation chains.  Leaf(a): nothing was rotated from a.                  *)
Leaf(a) == \A c \in issued : row[c].pred # a
ChainInv ==
  \A f \in Tokens :
    Forked(f) \/ \A a, b \in Family(f) : Leaf(a) /\ Leaf(b) => a = b

LEMMA ChainStep ==
  ASSUME IInv, ChainInv, [Next]_vars
  PROVE  ChainInv'
<1>1. CASE QuietStep
  BY <1>1 DEF QuietStep, ChainInv, Forked, Family, Leaf
<1>2. ASSUME NEW r \in Requests, NEW t \in Tokens, IssueTokens(r, t)
      PROVE  ChainInv'
  <2> DEFINE p == req[r].token
  <2>1. /\ t \notin issued /\ issued' = issued \union {t}
        /\ \A x \in issued : row'[x] = row[x]
        /\ row'[t].pred = p
        /\ row'[t].family = IF p = NoToken THEN t ELSE row[p].family
        /\ p \in issued \union {NoToken}
    BY <1>2, Issued DEF IInv, TypeOK
  <2>2. \A c \in issued : /\ row[c].family \in issued
                          /\ row[c].pred # NoToken =>
                               row[row[c].pred].family = row[c].family
    BY DEF IInv, RowsInv
  <2>3. NoToken \notin issued /\ t # NoToken
    BY ConstantsAssumption DEF IInv, TypeOK
  <2> SUFFICES ASSUME NEW f \in Tokens, ~ Forked(f)',
                      NEW a \in Family(f)', NEW b \in Family(f)', Leaf(a)', Leaf(b)'
               PROVE  a = b
    BY DEF ChainInv
  <2>4. ~ Forked(f)
    BY <2>1 DEF Forked, Family
  <2>5. \A x \in Family(f), y \in Family(f) : Leaf(x) /\ Leaf(y) => x = y
    BY <2>4 DEF ChainInv
  <2>6. \A x \in issued : Leaf(x)' => Leaf(x) /\ x # p
    BY <2>1 DEF Leaf
  <2>7. CASE p = NoToken
    BY <2>1, <2>2, <2>5, <2>6, <2>7 DEF Family
  <2>8. CASE p # NoToken /\ row[p].family # f
    BY <2>1, <2>5, <2>6, <2>8 DEF Family
  <2>9. CASE p # NoToken /\ row[p].family = f
    <3>1. Leaf(p)
      <4> SUFFICES ASSUME NEW c \in issued, row[c].pred = p PROVE FALSE
        BY DEF Leaf
      <4>1. c \in Family(f)' /\ t \in Family(f)' /\ c # t
        BY <2>1, <2>2, <2>9 DEF Family
      <4>2. row'[c].pred = p /\ row'[t].pred = p
        BY <2>1
      <4> QED BY <4>1, <4>2, <2>9 DEF Forked
    <3>2. p \in Family(f)
      BY <2>1, <2>9 DEF Family
    <3>3. \A x \in Family(f) : ~ Leaf(x)'
      BY <3>1, <3>2, <2>5, <2>6 DEF Family
    <3>4. Family(f)' \subseteq Family(f) \union {t}
      BY <2>1 DEF Family
    <3> QED BY <3>3, <3>4
  <2> QED BY <2>7, <2>8, <2>9
<1> QED BY <1>1, <1>2, Shape

(* Two live tokens of one family are always the outcome of two rotations   *)
(* of one token: single use fails in no other way, whatever the number of  *)
(* requests in flight and wherever they stop.                              *)
THEOREM ForkIsTheOnlyBreach == Spec => []OneLiveUnlessForked
<1>1. Init => ChainInv
  BY DEF Init, ChainInv, Family
<1>2. IInv /\ ChainInv /\ [Next]_vars => ChainInv'
  BY ChainStep
<1>3. IInv /\ ChainInv => OneLiveUnlessForked
  <2> SUFFICES ASSUME IInv, ChainInv PROVE OneLiveUnlessForked
    OBVIOUS
  <2>1. \A a \in Live : Leaf(a)
    BY ConstantsAssumption DEF Live, Leaf, IInv, RowsInv, TypeOK
  <2> QED BY <2>1 DEF OneLiveUnlessForked, ChainInv
<1> QED BY <1>1, <1>2, <1>3, Invariance, PTL DEF Spec

-----------------------------------------------------------------------------
(* What is dead stays dead. *)
LEMMA FamilyStep ==
  ASSUME IInv, [Next]_vars, NEW f \in Tokens, FamilyDead(f)
  PROVE  FamilyDead(f)'
<1>1. /\ \A q \in Requests : req[q].pc \in {"rotate", "owner", "issue"}
                               /\ req[q].token # NoToken => row[req[q].token].family # f
      /\ f \in issued /\ Family(f) \subseteq revoked
  BY DEF FamilyDead, Rotators
<1>2. CASE QuietStep
  <2>1. Family(f)' = Family(f) /\ Family(f)' \subseteq revoked' /\ f \in issued'
    BY <1>1, <1>2 DEF QuietStep, Family
  <2>2. ASSUME NEW q \in Requests, req'[q].pc \in {"rotate", "owner", "issue"},
               req'[q].token # NoToken, row[req'[q].token].family = f
        PROVE  FALSE
    <3>1. CASE req'[q] = req[q]
      BY <1>1, <2>2, <3>1
    <3>2. CASE req'[q].pc \notin Granting
      BY <2>2, <3>2 DEF Granting
    <3>3. CASE /\ req[q].pc \in Granting \ {"issue"}
               /\ req'[q].token = req[q].token
               /\ req[q].pc = "consent" => req[q].token = NoToken
      BY <1>1, <2>2, <3>3 DEF Granting
    <3>4. ASSUME NEW u \in Users, LoginFind(q, u) \/ GoogleOAuth(q, u) PROVE FALSE
      <4>1. req'[q].token = NoToken
        BY <3>4 DEF LoginFind, GoogleOAuth, Keep, Slot, IInv, TypeOK
      <4> QED BY <4>1, <2>2
    <3>5. ASSUME NEW t \in Tokens, RefreshFind(q, t) PROVE FALSE
      <4>1. /\ req'[q].token = t /\ t \in issued
            /\ req'[q].pc = IF t \in revoked THEN "reuse" ELSE "rotate"
        BY <3>5 DEF RefreshFind, Keep, Slot, IInv, TypeOK, AlreadyRevoked
      <4> QED BY <4>1, <2>2, <1>1 DEF Family
    <3> QED BY <1>2, <3>1, <3>2, <3>3, <3>4, <3>5 DEF QuietStep, SlotStep
  <2> QED BY <2>1, <2>2, <1>2 DEF FamilyDead, Rotators, QuietStep
<1>3. ASSUME NEW r \in Requests, NEW t \in Tokens, IssueTokens(r, t)
      PROVE  FamilyDead(f)'
  <2> DEFINE p == req[r].token
  <2>1. /\ t \notin issued /\ issued' = issued \union {t} /\ revoked' = revoked
        /\ \A x \in Tokens : x # t => row'[x] = row[x]
        /\ row'[t].family = IF p = NoToken THEN t ELSE row[p].family
        /\ req[r].pc = "issue" /\ req'[r].pc = "idle"
        /\ \A q \in Requests : q # r => req'[q] = req[q]
    BY <1>3, Issued
  <2>2. row'[t].family # f
    BY <1>1, <2>1
  <2>3. Family(f)' = Family(f)
    BY <2>1, <2>2 DEF Family, IInv, TypeOK
  <2>4. ASSUME NEW q \in Requests, req'[q].pc \in {"rotate", "owner", "issue"},
               req'[q].token # NoToken, row'[req'[q].token].family = f
        PROVE  FALSE
    <3>1. q # r /\ req'[q] = req[q]
      BY <2>1, <2>4
    <3>2. req[q].token \in issued
      BY <3>1, <2>4 DEF IInv, SlotInv
    <3> QED BY <1>1, <2>1, <2>4, <3>1, <3>2 DEF IInv, TypeOK
  <2> QED BY <1>1, <2>1, <2>3, <2>4 DEF FamilyDead, Rotators
<1> QED BY <1>2, <1>3, Shape

(* No replay, retry or overlapping request revives a dead family.          *)
THEOREM DeadFamily == Spec => DeadFamilyStaysDead
<1>1. IInv /\ [Next]_vars =>
        [\A f \in Tokens : FamilyDead(f) => FamilyDead(f)']_vars
  BY FamilyStep
<1> QED BY <1>1, Invariance, PTL DEF Spec, DeadFamilyStaysDead

LEMMA SignedOutStep ==
  ASSUME IInv, [Next]_vars, NEW u \in Users, SignedOut(u)
  PROVE  SignedOut(u)' \/ \E r \in Requests : LoginFind(r, u) \/ GoogleOAuth(r, u)
<1> SUFFICES ASSUME \A r \in Requests : ~ (LoginFind(r, u) \/ GoogleOAuth(r, u))
             PROVE  SignedOut(u)'
  OBVIOUS
<1>1. /\ TokensOf(u) \subseteq revoked
      /\ \A q \in Requests : req[q].user = u => req[q].pc \notin Granting
  BY DEF SignedOut, Granting
<1>2. CASE QuietStep
  <2>1. TokensOf(u)' \subseteq revoked'
    BY <1>1, <1>2 DEF QuietStep, TokensOf
  <2>2. ASSUME NEW q \in Requests, req'[q].user = u, req'[q].pc \in Granting
        PROVE  FALSE
    <3>1. ASSUME NEW v \in Users, LoginFind(q, v) \/ GoogleOAuth(q, v) PROVE FALSE
      <4>1. req'[q].user = v
        BY <3>1 DEF LoginFind, GoogleOAuth, Keep, Slot, IInv, TypeOK
      <4> QED BY <4>1, <3>1, <2>2
    <3>2. ASSUME NEW t \in Tokens, RefreshFind(q, t) PROVE FALSE
      <4>1. /\ req'[q].user = row[t].user /\ t \in issued
            /\ req'[q].pc = IF t \in revoked THEN "reuse" ELSE "rotate"
        BY <3>2 DEF RefreshFind, Keep, Slot, IInv, TypeOK, AlreadyRevoked
      <4> QED BY <4>1, <2>2, <1>1 DEF TokensOf, Granting
    <3> QED BY <1>1, <1>2, <2>2, <3>1, <3>2 DEF QuietStep, SlotStep, Granting
  <2> QED BY <2>1, <2>2 DEF SignedOut, Granting
<1>3. ASSUME NEW r \in Requests, NEW t \in Tokens, IssueTokens(r, t)
      PROVE  SignedOut(u)'
  <2>1. /\ t \notin issued /\ issued' = issued \union {t} /\ revoked' = revoked
        /\ \A x \in Tokens : x # t => row'[x] = row[x]
        /\ row'[t].user = req[r].user
        /\ req[r].pc = "issue" /\ req'[r].pc = "idle"
        /\ \A q \in Requests : q # r => req'[q] = req[q]
    BY <1>3, Issued
  <2>2. row'[t].user # u
    BY <1>1, <2>1 DEF Granting
  <2>3. TokensOf(u)' \subseteq revoked'
    BY <1>1, <2>1, <2>2 DEF TokensOf, IInv, TypeOK
  <2> QED BY <1>1, <2>1, <2>3 DEF SignedOut, Granting
<1> QED BY <1>2, <1>3, Shape

(* Once an account is signed out everywhere and nothing is under way for   *)
(* it, only a new login opens a session.                                   *)
THEOREM OnlyLoginSignsIn == Spec => SignedOutUntilLogin
<1>1. IInv /\ [Next]_vars =>
        [\A u \in Users :
           SignedOut(u) =>
             SignedOut(u)' \/ \E r \in Requests : LoginFind(r, u) \/ GoogleOAuth(r, u)]_vars
  BY SignedOutStep
<1> QED BY <1>1, Invariance, PTL DEF Spec, SignedOutUntilLogin

-----------------------------------------------------------------------------
(* A deleted account that no earlier request still has in hand.            *)
Harmless(q, u) ==
  req'[q].user = u => req'[q].pc \notin {"consent", "issue", "writeActive"}

LEMMA GoneStep ==
  ASSUME IInv, [Next]_vars, NEW u \in Users, Gone(u)
  PROVE  Gone(u)' /\ TokensOf(u)' = TokensOf(u)
<1>1. /\ u \in deleted
      /\ \A q \in Requests :
           req[q].user = u => req[q].pc \notin {"consent", "issue", "writeActive"}
  BY DEF Gone
<1>2. TokensOf(u)' = TokensOf(u)
  <2>1. CASE QuietStep
    BY <2>1 DEF QuietStep, TokensOf
  <2>2. ASSUME NEW r \in Requests, NEW t \in Tokens, IssueTokens(r, t)
        PROVE  TokensOf(u)' = TokensOf(u)
    BY <1>1, <2>2, Issued DEF TokensOf, IInv, TypeOK
  <2> QED BY <2>1, <2>2, Shape
<1> SUFFICES u \in deleted' /\ \A q \in Requests : Harmless(q, u)
  BY <1>2 DEF Gone, Harmless
<1>3. ASSUME NEW r \in Requests, NEW p \in PC, Goto(r, p),
             p \notin {"consent", "issue", "writeActive"}
      PROVE  \A q \in Requests : Harmless(q, u)
  BY <1>1, <1>3, Moved DEF Harmless
<1>4. ASSUME NEW r \in Requests, Return(r)
      PROVE  \A q \in Requests : Harmless(q, u)
  <2>1. req'[r].pc = "idle" /\ \A q \in Requests : q # r => req'[q] = req[q]
    BY <1>4 DEF Return, Keep, Idle, Slot, IInv, TypeOK
  <2> QED BY <1>1, <2>1 DEF Harmless
<1>5. ASSUME NEW r \in Requests, NEW p, NEW v, NEW t, NEW k, NEW s, NEW m,
             Keep(r, Slot(p, v, t, k, s, m)),
             p \notin {"consent", "issue", "writeActive"} \/ v # u
      PROVE  \A q \in Requests : Harmless(q, u)
  BY <1>1, <1>5 DEF Keep, Slot, Harmless, IInv, TypeOK
<1>6. ASSUME NEW r \in Requests, Session(r)
      PROVE  u \in deleted' /\ \A q \in Requests : Harmless(q, u)
  <2>1. u \in deleted'
    BY <1>1, <1>6
       DEF Session, LoginFind, GoogleOAuth, LoginConsent, RefreshFind, IssueTokens,
           RefreshReuse, RefreshRotate, RefreshOwner, dbVars
  <2>2. ASSUME NEW v \in Users, LoginFind(r, v) \/ GoogleOAuth(r, v)
        PROVE  \A q \in Requests : Harmless(q, u)
    BY <1>1, <1>5, <2>2 DEF LoginFind, GoogleOAuth, Deleted
  <2>3. CASE LoginConsent(r)
    <3>1. CASE Return(r)
      BY <1>4, <2>1, <3>1
    <3>2. CASE Goto(r, "issue")
      <4>1. req[r].user # u
        BY <1>1, <2>3 DEF LoginConsent, At
      <4> QED BY <1>5, <2>1, <3>2, <4>1 DEF Goto
    <3> QED BY <2>3, <3>1, <3>2 DEF LoginConsent
  <2>4. ASSUME NEW t \in Tokens, RefreshFind(r, t)
        PROVE  \A q \in Requests : Harmless(q, u)
    BY <1>5, <2>4 DEF RefreshFind
  <2>5. CASE RefreshOwner(r)
    <3>1. CASE Return(r)
      BY <1>4, <2>1, <3>1
    <3>2. CASE Goto(r, "issue") /\ ~ Deleted(req[r].user)
      BY <1>1, <1>5, <2>1, <3>2 DEF Goto, Deleted
    <3> QED BY <2>5, <3>1, <3>2 DEF RefreshOwner
  <2>6. CASE RefreshRotate(r)
    BY <1>3, <2>1, <2>6 DEF RefreshRotate, PC
  <2> QED BY <1>4, <1>6, <2>1, <2>2, <2>3, <2>4, <2>5, <2>6
          DEF Session, IssueTokens, RefreshReuse
<1>7. ASSUME NEW r \in Requests, Account(r)
      PROVE  u \in deleted' /\ \A q \in Requests : Harmless(q, u)
  <2>1. CASE ProfileWrite(r)
    <3>1. u \in deleted'
      BY <1>1, <2>1 DEF ProfileWrite, At
    <3> QED BY <1>4, <2>1, <3>1 DEF ProfileWrite
  <2>2. ASSUME NEW v \in Users, ProfileRead(r, v)
        PROVE  u \in deleted' /\ \A q \in Requests : Harmless(q, u)
    BY <1>1, <1>5, <2>2 DEF ProfileRead, Start, Deleted, dbVars
  <2>3. ASSUME NEW v \in Users, DeleteRevoke(r, v)
        PROVE  u \in deleted' /\ \A q \in Requests : Harmless(q, u)
    BY <1>1, <1>5, <2>3 DEF DeleteRevoke, Start
  <2>4. CASE DeleteSoft(r) \/ ResetMark(r)
    BY <1>1, <1>3, <2>4 DEF DeleteSoft, ResetMark, PC
  <2>5. CASE DeletePublish(r) \/ ResetRevoke(r)
    BY <1>1, <1>4, <2>5 DEF DeletePublish, ResetRevoke
  <2>6. CASE ResetUser(r)
    BY <1>1, <1>3, <1>4, <2>6 DEF ResetUser, PC, dbVars
  <2>7. CASE ResetPassword(r)
    BY <1>1, <1>3, <2>7 DEF ResetPassword, PC
  <2>8. ASSUME NEW k \in Links, ResetFind(r, k)
        PROVE  u \in deleted' /\ \A q \in Requests : Harmless(q, u)
    BY <1>1, <1>5, <2>8 DEF ResetFind, dbVars
  <2> QED BY <1>7, <2>1, <2>2, <2>3, <2>4, <2>5, <2>6, <2>7, <2>8 DEF Account
<1>8. ASSUME NEW r \in Requests, Crash(r)
      PROVE  u \in deleted' /\ \A q \in Requests : Harmless(q, u)
  BY <1>1, <1>4, <1>8 DEF Crash, dbVars
<1>9. ASSUME deleted' = deleted, req' = req
      PROVE  u \in deleted' /\ \A q \in Requests : Harmless(q, u)
  BY <1>1, <1>9 DEF Harmless
<1> QED BY <1>6, <1>7, <1>8, <1>9 DEF Next, Logout, ResetRequest, Consent, vars, dbVars

(* A deleted account with nothing under way stays deleted and is given no  *)
(* token, whatever live tokens its deletion left behind.                   *)
THEOREM DeletedAccountIsBarren == Spec => GoneIssuesNothing
<1>1. IInv /\ [Next]_vars =>
        [\A u \in Users : Gone(u) => Gone(u)' /\ TokensOf(u)' = TokensOf(u)]_vars
  BY GoneStep
<1> QED BY <1>1, Invariance, PTL DEF Spec, GoneIssuesNothing

-----------------------------------------------------------------------------
(* The token table of auth-service implements the forest of TokenForest.   *)
LEMMA ForestStep ==
  ASSUME IInv, [Next]_vars
  PROVE  [Forest!Next]_(Forest!vars)
<1> DEFINE parent == [t \in Tokens |-> row[t].pred]
<1>1. CASE QuietStep
  <2>1. issued' = issued /\ parent' = parent
    BY <1>1 DEF QuietStep
  <2>2. Forest!Kill(revoked' \ revoked)
    BY <1>1, <2>1 DEF QuietStep, Forest!Kill
  <2>3. revoked' \ revoked \in SUBSET issued
    BY <1>1 DEF QuietStep
  <2> QED BY <2>2, <2>3 DEF Forest!Next
<1>2. ASSUME NEW r \in Requests, NEW t \in Tokens, IssueTokens(r, t)
      PROVE  Forest!Next
  <2>1. /\ t \notin issued /\ issued' = issued \union {t} /\ revoked' = revoked
        /\ \A x \in Tokens : x # t => row'[x] = row[x]
        /\ row'[t].pred = req[r].token
        /\ req[r].token \in revoked \union {NoToken}
        /\ row[t].pred = NoToken
    BY <1>2, Issued DEF IInv, RowsInv, NoRow
  <2>2. CASE req[r].token = NoToken
    <3>1. parent' = parent
      BY <2>1, <2>2
    <3>2. Forest!Begin(t)
      BY <2>1, <3>1 DEF Forest!Begin
    <3> QED BY <3>2 DEF Forest!Next
  <2>3. CASE req[r].token # NoToken
    <3>1. parent' = [parent EXCEPT ![t] = req[r].token]
      BY <2>1
    <3>2. Forest!Extend(req[r].token, t) /\ req[r].token \in Tokens
      BY <2>1, <2>3, <3>1 DEF Forest!Extend, IInv, TypeOK
    <3> QED BY <3>2 DEF Forest!Next
  <2> QED BY <2>2, <2>3
<1> QED BY <1>1, <1>2, Shape

(* Whatever overlaps or stops, tokens are born live under a dead parent or *)
(* under none, and die once.                                               *)
THEOREM ImplementsTokenForest == Spec => ForestSpec
<1>1. Init => Forest!Init
  BY DEF Init, Forest!Init, NoRow
<1>2. IInv /\ [Next]_vars => [Forest!Next]_(Forest!vars)
  BY ForestStep
<1> QED BY <1>1, <1>2, Invariance, PTL DEF Spec, ForestSpec, Forest!Spec

-----------------------------------------------------------------------------
(***************************************************************************)
(* What is left of two promises of the documentation: whatever overlaps or *)
(* breaks off, only what was under way when a sweep revoked escapes it.    *)
(***************************************************************************)

(* Every rotation still under way in a burnt family was overtaken.         *)
ReuseInv ==
  /\ burnt \subseteq issued
  /\ BurntUnlessOvertaken
  /\ \A f \in burnt : \A q \in Rotators(f) : "reuse" \in lateReq[q]

LEMMA ReuseKept ==
  ASSUME IInv, ReuseInv, QuietStep, burnt' = burnt, lateTok' = lateTok,
         \A q \in Requests, t \in Tokens : ~ RefreshFind(q, t),
         \A q \in Requests : req'[q].token = NoToken \/ lateReq[q] \subseteq lateReq'[q]
  PROVE  ReuseInv'
<1>1. BurntUnlessOvertaken'
  BY DEF ReuseInv, BurntUnlessOvertaken, QuietStep, Family, Live
<1>2. ASSUME NEW f \in burnt, NEW q \in Rotators(f)' PROVE "reuse" \in lateReq'[q]
  <2>1. /\ q \in Requests /\ req'[q].pc \in {"rotate", "owner", "issue"}
        /\ req'[q].token # NoToken /\ row[req'[q].token].family = f
    BY <1>2 DEF Rotators, QuietStep
  <2>2. ASSUME NEW u \in Users, LoginFind(q, u) \/ GoogleOAuth(q, u) PROVE FALSE
    BY <2>1, <2>2 DEF LoginFind, GoogleOAuth, Keep, Slot, IInv, TypeOK
  <2>3. req'[q].token = req[q].token /\ req[q].pc \in {"rotate", "owner", "issue"}
    BY <2>1, <2>2 DEF QuietStep, SlotStep, Granting
  <2>4. q \in Rotators(f)
    BY <2>1, <2>3 DEF Rotators
  <2> QED BY <1>2, <2>1, <2>4 DEF ReuseInv
<1> QED BY <1>1, <1>2 DEF ReuseInv, QuietStep

LEMMA ReuseIssue ==
  ASSUME IInv, ReuseInv, NEW r \in Requests, NEW t \in Tokens, IssueTokens(r, t)
  PROVE  ReuseInv'
<1> DEFINE p == req[r].token
<1>1. /\ t \notin issued /\ issued' = issued \union {t} /\ revoked' = revoked
      /\ \A x \in Tokens : x # t => row'[x] = row[x]
      /\ row'[t].family = IF p = NoToken THEN t ELSE row[p].family
      /\ req[r].pc = "issue" /\ req'[r].pc = "idle"
      /\ \A q \in Requests : q # r => req'[q] = req[q]
  BY Issued
<1>2. /\ burnt' = burnt /\ lateReq' = lateReq /\ lateTok'[t] = lateReq[r]
      /\ \A x \in Tokens : x # t => lateTok'[x] = lateTok[x]
  BY DEF IssueTokens, IInv, TypeOK
<1>3. ASSUME NEW f \in burnt, row'[t].family = f PROVE "reuse" \in lateTok'[t]
  <2>1. p # NoToken /\ row[p].family = f
    BY <1>1, <1>3 DEF ReuseInv
  <2>2. r \in Rotators(f)
    BY <1>1, <2>1 DEF Rotators
  <2> QED BY <1>2, <2>2 DEF ReuseInv
<1>4. BurntUnlessOvertaken'
  BY <1>1, <1>2, <1>3 DEF ReuseInv, BurntUnlessOvertaken, Family, Live, IInv, TypeOK
<1>5. ASSUME NEW f \in burnt, NEW q \in Rotators(f)' PROVE q \in Rotators(f)
  <2>1. q \in Requests /\ q # r /\ req'[q] = req[q]
    BY <1>1, <1>5 DEF Rotators
  <2>2. req[q].token # NoToken => req[q].token \in issued /\ req[q].token # t
    BY <1>1, <2>1 DEF IInv, SlotInv
  <2> QED BY <1>1, <1>5, <2>1, <2>2 DEF Rotators, IInv, TypeOK
<1> QED BY <1>1, <1>2, <1>4, <1>5 DEF ReuseInv

LEMMA ReuseStep ==
  ASSUME IInv, ReuseInv, [Next]_vars
  PROVE  ReuseInv'
<1>1. ASSUME NEW r \in Requests, NEW t \in Tokens, IssueTokens(r, t) PROVE ReuseInv'
  BY <1>1, ReuseIssue
<1>2. ASSUME NEW r \in Requests, NEW t \in Tokens, RefreshFind(r, t) PROVE ReuseInv'
  <2>1. /\ req'[r].token = t /\ t \in issued
        /\ req'[r].pc = IF t \in revoked THEN "reuse" ELSE "rotate"
        /\ \A q \in Requests : q # r => req'[q] = req[q]
        /\ lateReq'[r] = lateTok[t]
        /\ \A q \in Requests : q # r => lateReq'[q] = lateReq[q]
        /\ UNCHANGED <<issued, revoked, row, burnt, lateTok>>
    BY <1>2 DEF RefreshFind, Behind, Keep, Slot, AlreadyRevoked, dbVars, IInv, TypeOK
  <2>2. ASSUME NEW f \in burnt, NEW q \in Rotators(f)' PROVE "reuse" \in lateReq'[q]
    <3>1. CASE q = r
      BY <2>1, <2>2, <3>1 DEF Rotators, ReuseInv, BurntUnlessOvertaken, Family, Live
    <3>2. CASE q # r
      BY <2>1, <2>2, <3>2 DEF Rotators, ReuseInv
    <3> QED BY <3>1, <3>2
  <2> QED BY <2>1, <2>2 DEF ReuseInv, BurntUnlessOvertaken, Family, Live
<1>3. ASSUME NEW r \in Requests, RefreshReuse(r) PROVE ReuseInv'
  <2>1. PICK f \in issued : f = row[req[r].token].family
    BY <1>3 DEF RefreshReuse, At, IInv, SlotInv, RowsInv
  <2>2. /\ revoked' = revoked \union Family(f) /\ burnt' = burnt \union {f}
        /\ Overtake(Rotators(f), "reuse")
        /\ UNCHANGED <<issued, row, lateTok>>
    BY <1>3, <2>1 DEF RefreshReuse, revokeTokenFamily
  <2>3. \A q \in Requests : req'[q].pc = "idle" \/ req'[q] = req[q]
    BY <1>3 DEF RefreshReuse, Return, Keep, Idle, Slot, IInv, TypeOK
  <2>4. \A g \in Tokens : Rotators(g)' \subseteq Rotators(g)
    BY <2>2, <2>3 DEF Rotators
  <2>5. \A g \in burnt' : \A q \in Rotators(g)' : "reuse" \in lateReq'[q]
    BY <2>1, <2>2, <2>4 DEF ReuseInv, Overtake, Rotators, IInv, TypeOK
  <2>6. BurntUnlessOvertaken'
    BY <2>2 DEF ReuseInv, BurntUnlessOvertaken, Family, Live
  <2> QED BY <2>1, <2>2, <2>5, <2>6 DEF ReuseInv
<1>4. ASSUME NEW r \in Requests, NEW u \in Users, LoginFind(r, u) \/ GoogleOAuth(r, u)
      PROVE  /\ burnt' = burnt /\ lateTok' = lateTok /\ req'[r].token = NoToken
             /\ \A q \in Requests \ {r} : lateReq'[q] = lateReq[q]
  BY <1>4 DEF LoginFind, GoogleOAuth, Behind, Keep, Slot, IInv, TypeOK
<1>5. ASSUME NEW r \in Requests, ResetRevoke(r)
      PROVE  /\ burnt' = burnt /\ lateTok' = lateTok
             /\ \A q \in Requests : lateReq[q] \subseteq lateReq'[q]
  BY <1>5 DEF ResetRevoke, Overtake
<1>6. \/ UNCHANGED <<burnt, lateReq, lateTok>>
      \/ \E r \in Requests, t \in Tokens : IssueTokens(r, t) \/ RefreshFind(r, t)
      \/ \E r \in Requests : RefreshReuse(r) \/ ResetRevoke(r)
      \/ \E r \in Requests, u \in Users : LoginFind(r, u) \/ GoogleOAuth(r, u)
  BY DEF Next, Session, Account, LoginConsent, RefreshRotate, RefreshOwner, Logout,
         ResetRequest, ResetFind, ResetUser, ResetPassword, ResetMark, DeleteRevoke,
         DeleteSoft, DeletePublish, ProfileRead, ProfileWrite, Consent, Crash,
         vars, history
<1> QED BY <1>1, <1>2, <1>3, <1>4, <1>5, <1>6, Shape, ReuseKept

(* When a reused token is answered (refreshSession, :324), its family is   *)
(* dead for good but for the tokens that stem from rotations then under    *)
(* way: no later rotation, replay, crash or retry leaves a live one.       *)
THEOREM ReuseSparesOnlyTheOvertaken == Spec => []BurntUnlessOvertaken
<1>1. Init => ReuseInv
  BY DEF Init, ReuseInv, BurntUnlessOvertaken
<1>2. IInv /\ ReuseInv /\ [Next]_vars => ReuseInv'
  BY ReuseStep
<1>3. ReuseInv => BurntUnlessOvertaken
  BY DEF ReuseInv
<1> QED BY <1>1, <1>2, <1>3, Invariance, PTL DEF Spec

-----------------------------------------------------------------------------
(* Why a token or request behind the account's password may be so.         *)
Excused(u, S) == "reset" \in S \/ u \in halfway \/ Resetting(u) # {}
TokenExcused(t) ==
  row[t].since < password[row[t].user] => Excused(row[t].user, lateTok[t])
SlotExcused(q) ==
  req[q].pc \in Granting /\ req[q].since < password[req[q].user]
    => Excused(req[q].user, lateReq[q])
ResetInv ==
  /\ OldSessionsExplained
  /\ \A q \in Requests : SlotExcused(q)

Others(r) == \A q \in Requests : q # r => req'[q] = req[q]

LEMMA OthersStay ==
  ASSUME IInv, NEW r \in Requests, Session(r) \/ Account(r) \/ Crash(r)
  PROVE  Others(r)
BY DEF Others, Session, Account, Crash, LoginFind, GoogleOAuth, LoginConsent, RefreshFind,
       IssueTokens, RefreshReuse, RefreshRotate, RefreshOwner, ResetFind, ResetUser,
       ResetPassword, ResetMark, ResetRevoke, DeleteRevoke, DeleteSoft, DeletePublish,
       ProfileRead, ProfileWrite, Start, Goto, Return, Keep, IInv, TypeOK

(* A reset that is under way stays so until it revokes or breaks off.      *)
LEMMA ResettingStays ==
  ASSUME IInv, [Next]_vars, NEW u \in Users,
         \A r \in Requests : ~ ResetRevoke(r) /\ ~ Crash(r)
  PROVE  Resetting(u) \subseteq Resetting(u)'
<1> SUFFICES ASSUME NEW q \in Resetting(u) PROVE q \in Resetting(u)'
  OBVIOUS
<1>1. q \in Requests /\ req[q].pc \in {"resetMark", "resetRevoke"} /\ req[q].user = u
  BY DEF Resetting
<1>2. CASE req'[q] = req[q]
  BY <1>1, <1>2 DEF Resetting
<1>3. CASE ResetMark(q)
  BY <1>1, <1>3, Moved DEF ResetMark, Resetting, PC
<1>4. CASE Session(q) \/ Account(q)
  BY <1>1, <1>3, <1>4
     DEF Session, Account, At, Start, LoginFind, GoogleOAuth, LoginConsent, RefreshFind,
         IssueTokens, RefreshReuse, RefreshRotate, RefreshOwner, ResetFind, ResetUser,
         ResetPassword, ResetRevoke, DeleteRevoke, DeleteSoft, DeletePublish,
         ProfileRead, ProfileWrite
<1>5. ASSUME NEW r \in Requests, Session(r) \/ Account(r), r # q PROVE req'[q] = req[q]
  BY <1>1, <1>5, OthersStay DEF Others
<1> QED BY <1>1, <1>2, <1>4, <1>5 DEF Next, Logout, ResetRequest, Consent, vars

(* A step that changes no row and no password, and excuses whom it excused *)
(* before, only has to account for the slots that move.                    *)
LEMMA ResetKept ==
  ASSUME IInv, ResetInv, issued' = issued, row' = row, revoked \subseteq revoked',
         password' = password, lateTok' = lateTok,
         \A u \in Users : u \in halfway \/ Resetting(u) # {}
                            => u \in halfway' \/ Resetting(u)' # {},
         \A q \in Requests : \/ SlotExcused(q)'
                             \/ req'[q] = req[q] /\ lateReq[q] \subseteq lateReq'[q]
  PROVE  ResetInv'
<1>1. \A t \in issued : row[t].user \in Users
  BY DEF IInv, RowsInv
<1>2. OldSessionsExplained'
  BY <1>1 DEF ResetInv, OldSessionsExplained, Live
<1>3. ASSUME NEW q \in Requests, req'[q] = req[q], lateReq[q] \subseteq lateReq'[q]
      PROVE  SlotExcused(q)'
  <2>1. req[q].pc \in Granting => req[q].user \in Users
    BY DEF Granting, IInv, SlotInv
  <2> QED BY <1>3, <2>1 DEF ResetInv, SlotExcused, Excused
<1> QED BY <1>2, <1>3 DEF ResetInv

LEMMA ResetQuiet ==
  ASSUME IInv, ResetInv, [Next]_vars, QuietStep,
         password' = password, halfway' = halfway, lateReq' = lateReq, lateTok' = lateTok,
         \A r \in Requests : ~ ResetRevoke(r) /\ ~ Crash(r),
         \A q \in Requests, t \in Tokens : ~ RefreshFind(q, t),
         \A q \in Requests, u \in Users : ~ LoginFind(q, u) /\ ~ GoogleOAuth(q, u)
  PROVE  ResetInv'
<1>1. \A u \in Users : Resetting(u) \subseteq Resetting(u)'
  BY ResettingStays
<1>2. ASSUME NEW q \in Requests, req'[q] # req[q] PROVE SlotExcused(q)'
  <2>1. CASE req'[q].pc \notin Granting
    BY <2>1 DEF SlotExcused, Granting
  <2>2. CASE /\ req[q].pc \in Granting
             /\ req'[q].user = req[q].user /\ req'[q].since = req[q].since
    <3>1. req[q].user \in Users
      BY <2>2 DEF Granting, IInv, SlotInv
    <3> QED BY <1>1, <2>2, <3>1 DEF ResetInv, SlotExcused, Excused
  <2> QED BY <1>2, <2>1, <2>2 DEF QuietStep, SlotStep
<1> QED BY <1>1, <1>2, ResetKept DEF QuietStep

LEMMA ResetFinds ==
  ASSUME IInv, ResetInv, [Next]_vars, NEW r \in Requests,
         \/ \E u \in Users : LoginFind(r, u) \/ GoogleOAuth(r, u)
         \/ \E t \in Tokens : RefreshFind(r, t)
  PROVE  ResetInv'
<1>1. /\ UNCHANGED <<issued, row, revoked, password, halfway, lateTok>>
      /\ \A q \in Requests : q # r => req'[q] = req[q] /\ lateReq'[q] = lateReq[q]
      /\ At(r, "idle")
  BY DEF LoginFind, GoogleOAuth, RefreshFind, Behind, Keep, dbVars, IInv, TypeOK
<1>2. \A u \in Users : Resetting(u) \subseteq Resetting(u)'
  BY <1>1 DEF Resetting, At
<1>3. ASSUME NEW u \in Users, LoginFind(r, u) \/ GoogleOAuth(r, u) PROVE SlotExcused(r)'
  <2>1. req'[r].user = u /\ req'[r].since = password[u] /\ password[u] \in Nat
    BY <1>3 DEF LoginFind, GoogleOAuth, Keep, Slot, IInv, TypeOK
  <2> QED BY <1>1, <2>1 DEF SlotExcused
<1>4. ASSUME NEW t \in Tokens, RefreshFind(r, t) PROVE SlotExcused(r)'
  <2>1. /\ req'[r].user = row[t].user /\ req'[r].since = row[t].since /\ t \in issued
        /\ req'[r].pc = IF t \in revoked THEN "reuse" ELSE "rotate"
        /\ lateReq'[r] = lateTok[t]
        /\ row[t].user \in Users
    BY <1>4 DEF RefreshFind, Behind, Keep, Slot, AlreadyRevoked, IInv, TypeOK, RowsInv
  <2> QED BY <1>1, <1>2, <2>1
          DEF ResetInv, OldSessionsExplained, Live, SlotExcused, Excused, Granting
<1>5. SlotExcused(r)'
  BY <1>3, <1>4
<1> QED BY <1>1, <1>2, <1>5, ResetKept

LEMMA ResetIssue ==
  ASSUME IInv, ResetInv, NEW r \in Requests, NEW t \in Tokens, IssueTokens(r, t)
  PROVE  ResetInv'
<1>1. /\ t \notin issued /\ issued' = issued \union {t} /\ revoked' = revoked
      /\ \A x \in Tokens : x # t => row'[x] = row[x]
      /\ row'[t].user = req[r].user /\ row'[t].since = req[r].since
      /\ req[r].pc = "issue" /\ req'[r].pc = "idle"
      /\ \A q \in Requests : q # r => req'[q] = req[q]
      /\ UNCHANGED <<password, halfway, lateReq>>
      /\ lateTok'[t] = lateReq[r]
      /\ \A x \in Tokens : x # t => lateTok'[x] = lateTok[x]
  <2>1. row'[t].since = req[r].since /\ UNCHANGED <<password, halfway, lateReq>>
    BY DEF IssueTokens, IInv, TypeOK
  <2>2. lateTok'[t] = lateReq[r] /\ \A x \in Tokens : x # t => lateTok'[x] = lateTok[x]
    BY DEF IssueTokens, IInv, TypeOK
  <2> QED BY <2>1, <2>2, Issued
<1>2. /\ req[r].user \in Users
      /\ \A x \in issued : row[x].user \in Users /\ x \in Tokens
  BY <1>1 DEF IInv, SlotInv, RowsInv, TypeOK
<1>3. \A u \in Users : Resetting(u)' = Resetting(u)
  BY <1>1 DEF Resetting
<1>4. ASSUME NEW x \in Live' PROVE TokenExcused(x)'
  <2>1. CASE x = t
    BY <1>1, <1>2, <1>3, <2>1 DEF ResetInv, SlotExcused, TokenExcused, Excused, Granting
  <2>2. CASE x # t
    <3>1. x \in Live /\ row'[x] = row[x] /\ lateTok'[x] = lateTok[x]
      BY <1>1, <1>2, <1>4, <2>2 DEF Live
    <3>2. row[x].user \in Users
      BY <1>2, <3>1 DEF Live
    <3> QED BY <1>1, <1>3, <3>1, <3>2
            DEF ResetInv, OldSessionsExplained, TokenExcused, Excused
  <2> QED BY <2>1, <2>2
<1>5. \A q \in Requests : SlotExcused(q)'
  <2> SUFFICES ASSUME NEW q \in Requests, q # r PROVE SlotExcused(q)'
    BY <1>1 DEF SlotExcused, Granting
  <2>1. req[q].pc \in Granting => req[q].user \in Users
    BY DEF Granting, IInv, SlotInv
  <2> QED BY <1>1, <1>3, <2>1 DEF ResetInv, SlotExcused, Excused
<1> QED BY <1>4, <1>5 DEF ResetInv, OldSessionsExplained, TokenExcused, Excused

(* The password is written: from here to the revocation the reset itself   *)
(* is the excuse.                                                          *)
LEMMA ResetWrites ==
  ASSUME IInv, ResetInv, NEW r \in Requests, ResetPassword(r)
  PROVE  ResetInv'
<1>0. PICK u \in Users : u = req[r].user
  BY DEF ResetPassword, At, IInv, SlotInv
<1>1. /\ UNCHANGED <<issued, row, revoked, halfway, lateReq, lateTok>>
      /\ \A v \in Users \ {u} : password'[v] = password[v]
      /\ req[r].pc = "resetHash"
  BY <1>0 DEF ResetPassword, At, history, IInv, TypeOK, SlotInv
<1>2. /\ req'[r].pc = "resetMark" /\ req'[r].user = u
      /\ \A q \in Requests : q # r => req'[q] = req[q]
  BY <1>0, Moved DEF ResetPassword, PC
<1>3. Resetting(u)' # {} /\ \A v \in Users : Resetting(v) \subseteq Resetting(v)'
  BY <1>1, <1>2 DEF Resetting
<1>4. \A t \in issued : row[t].user \in Users
  BY DEF IInv, RowsInv
<1>5. ASSUME NEW t \in Live' PROVE TokenExcused(t)'
  <2>1. t \in Live /\ row'[t] = row[t] /\ lateTok'[t] = lateTok[t] /\ row[t].user \in Users
    BY <1>1, <1>4, <1>5 DEF Live
  <2>2. CASE row[t].user = u
    BY <1>3, <2>1, <2>2 DEF TokenExcused, Excused
  <2>3. CASE row[t].user # u
    BY <1>1, <1>3, <2>1, <2>3 DEF ResetInv, OldSessionsExplained, TokenExcused, Excused
  <2> QED BY <2>2, <2>3
<1>6. ASSUME NEW q \in Requests PROVE SlotExcused(q)'
  <2>1. req[q].pc \in Granting => req[q].user \in Users
    BY DEF Granting, IInv, SlotInv
  <2> QED BY <1>1, <1>2, <1>3, <2>1 DEF ResetInv, SlotExcused, Excused, Granting
<1> QED BY <1>5, <1>6 DEF ResetInv, OldSessionsExplained, TokenExcused, Excused

(* The tokens are revoked: what may still issue one is overtaken.          *)
LEMMA ResetRevokes ==
  ASSUME IInv, ResetInv, NEW r \in Requests, ResetRevoke(r)
  PROVE  ResetInv'
<1> DEFINE u == req[r].user
<1>1. /\ UNCHANGED <<issued, row, password, lateTok>>
      /\ revoked' = revoked \union TokensOf(u) /\ halfway' = halfway \ {u}
      /\ Overtake(Grantors(u), "reset") /\ req[r].pc = "resetRevoke"
  BY DEF ResetRevoke, revokeAllUserTokens, At
<1>2. req'[r].pc = "idle" /\ \A q \in Requests : q # r => req'[q] = req[q]
  BY DEF ResetRevoke, Return, Keep, Idle, Slot, IInv, TypeOK
<1>3. \A v \in Users \ {u} : Resetting(v) \subseteq Resetting(v)'
  BY <1>2 DEF Resetting
<1>4. \A t \in issued : row[t].user \in Users
  BY DEF IInv, RowsInv
<1>5. OldSessionsExplained'
  BY <1>1, <1>3, <1>4 DEF ResetInv, OldSessionsExplained, Live, TokensOf
<1>6. ASSUME NEW q \in Requests PROVE SlotExcused(q)'
  <2>1. CASE req'[q].pc \notin Granting
    BY <2>1 DEF SlotExcused, Granting
  <2>2. CASE req'[q].pc \in Granting
    <3>1. q # r /\ req'[q] = req[q] /\ req[q].user \in Users
      BY <1>2, <2>2 DEF Granting, IInv, SlotInv
    <3>2. lateReq[q] \subseteq lateReq'[q]
          /\ (req[q].user = u => "reset" \in lateReq'[q])
      BY <1>1, <2>2, <3>1 DEF Overtake, Grantors
    <3> QED BY <1>1, <1>3, <2>2, <3>1, <3>2 DEF ResetInv, SlotExcused, Excused
  <2> QED BY <2>1, <2>2
<1> QED BY <1>5, <1>6 DEF ResetInv

LEMMA ResetStep ==
  ASSUME IInv, ResetInv, [Next]_vars
  PROVE  ResetInv'
<1>1. ASSUME NEW r \in Requests, Crash(r) PROVE ResetInv'
  <2>1. /\ UNCHANGED <<issued, row, revoked, password, lateReq, lateTok>>
        /\ halfway' = halfway \union {u \in Users : r \in Resetting(u)}
    BY <1>1 DEF Crash, dbVars
  <2>2. req'[r].pc = "idle" /\ \A q \in Requests : q # r => req'[q] = req[q]
    BY <1>1 DEF Crash, Return, Keep, Idle, Slot, IInv, TypeOK
  <2>3. \A u \in Users : u \in halfway \/ Resetting(u) # {}
                           => u \in halfway' \/ Resetting(u)' # {}
    BY <2>1, <2>2 DEF Resetting
  <2>4. SlotExcused(r)'
    BY <2>2 DEF SlotExcused, Granting
  <2> QED BY <2>1, <2>2, <2>3, <2>4, ResetKept
<1>2. ASSUME NEW r \in Requests, RefreshReuse(r) PROVE ResetInv'
  <2>1. /\ UNCHANGED <<issued, row, password, halfway, lateTok>>
        /\ revoked \subseteq revoked'
        /\ \A q \in Requests : lateReq[q] \subseteq lateReq'[q]
        /\ req[r].pc = "reuse"
    BY <1>2 DEF RefreshReuse, Overtake, At
  <2>2. req'[r].pc = "idle" /\ \A q \in Requests : q # r => req'[q] = req[q]
    BY <1>2 DEF RefreshReuse, Return, Keep, Idle, Slot, IInv, TypeOK
  <2>3. \A u \in Users : Resetting(u) \subseteq Resetting(u)'
    BY <2>1, <2>2 DEF Resetting
  <2>4. SlotExcused(r)'
    BY <2>2 DEF SlotExcused, Granting
  <2> QED BY <2>1, <2>2, <2>3, <2>4, ResetKept
<1>3. \/ UNCHANGED <<password, halfway, lateReq, lateTok>>
      \/ \E r \in Requests, t \in Tokens : IssueTokens(r, t) \/ RefreshFind(r, t)
      \/ \E r \in Requests : \/ RefreshReuse(r) \/ ResetPassword(r)
                             \/ ResetRevoke(r) \/ Crash(r)
      \/ \E r \in Requests, u \in Users : LoginFind(r, u) \/ GoogleOAuth(r, u)
  BY DEF Next, Session, Account, LoginConsent, RefreshRotate, RefreshOwner, Logout,
         ResetRequest, ResetFind, ResetUser, ResetMark, DeleteRevoke, DeleteSoft,
         DeletePublish, ProfileRead, ProfileWrite, Consent, vars, dbVars, history
<1> QED BY <1>1, <1>2, <1>3, Shape, ResetFinds, ResetIssue, ResetWrites, ResetRevokes,
           ResetQuiet

(* "Force re-login everywhere" (confirmPasswordReset, :297): a session     *)
(* opened under an older password is live only if it stems from a login or *)
(* refresh that was under way when a reset revoked, or while a reset is    *)
(* between the new password and the revocation, or broke off there.        *)
THEOREM ResetSparesOnlyTheOvertaken == Spec => []OldSessionsExplained
<1>1. Init => ResetInv
  BY DEF Init, ResetInv, OldSessionsExplained, SlotExcused, Live, Idle, Slot, Granting
<1>2. IInv /\ ResetInv /\ [Next]_vars => ResetInv'
  BY ResetStep
<1>3. ResetInv => OldSessionsExplained
  BY DEF ResetInv
<1> QED BY <1>1, <1>2, <1>3, Invariance, PTL DEF Spec

=============================================================================
