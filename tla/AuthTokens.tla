----------------------------- MODULE AuthTokens -----------------------------
(***************************************************************************)
(* Sessions of auth-service (src/services/auth-service/src/auth-service.ts *)
(* over the PostgreSQL repository of repo/auth-repo.ts).                   *)
(*                                                                         *)
(* A request in flight is a slot of `req'.  Every `await' of a handler on  *)
(* a repository call ends a step, so that the statements of two requests   *)
(* interleave exactly as the database can see them; what a handler keeps   *)
(* across an await is kept in its slot.  A slot is dropped at any await by *)
(* Crash: the process stops, or a repository call fails and the handler    *)
(* throws.                                                                 *)
(*                                                                         *)
(* Passwords are version numbers, hashes of tokens are the tokens.  A      *)
(* presented refresh token always has a row: tokens reach a client only    *)
(* after storeRefreshToken and no code deletes rows.  Attempts that fail   *)
(* before they change anything (wrong password, expired link) are not      *)
(* actions.                                                                *)
(***************************************************************************)
EXTENDS Naturals

CONSTANTS Users,        \* the accounts
          Children,     \* the accounts with requires_parental_consent
          Tokens,       \* the refresh tokens that can be minted
          Links,        \* the password-reset links that can be minted
          Requests,     \* the requests that can be in flight together
          MaxPassword,  \* bound: no reset starts once a password is this old
          NoUser, NoToken, NoLink

ASSUME ConstantsAssumption ==
  /\ Children \subseteq Users
  /\ NoUser \notin Users
  /\ NoToken \notin Tokens
  /\ NoLink \notin Links
  /\ MaxPassword \in Nat

VARIABLES
  deleted,     \* the accounts with deleted_at set
  password,    \* the version of users.password_hash of each account
  verified,    \* the children whose parental_consents row is 'verified'
  issued,      \* the tokens that have a row in refresh_tokens
  revoked,     \* those whose revoked_at is set
  row,         \* the other columns of their rows
  linkUser,    \* password_reset_tokens.user_id of each link sent
  linkUsed,    \* the links whose used_at is set
  announced,   \* the accounts whose user.deleted event was published
  req,         \* the request in each slot
  burnt,       \* history: families for which reuse was answered
  halfway,     \* history: accounts with a reset that broke off after it had
               \* changed the password, and none completed since
  lateReq,     \* history: the sweeps that overtook the request in each slot
  lateTok      \* history: those that overtook a request a token stems from

dbVars == <<deleted, password, verified, issued, revoked, row,
            linkUser, linkUsed, announced>>
history == <<burnt, halfway, lateReq, lateTok>>
vars == <<dbVars, req, history>>

PC == {"idle", "consent", "issue", "reuse", "rotate", "owner",
       "resetUser", "resetHash", "resetMark", "resetRevoke",
       "erase", "publish", "writeActive", "writeDeleted"}
Via == {"none", "password", "google"}

(* The updates that revoke many tokens at once.  A sweep overtakes the     *)
(* requests that it should have kept from issuing a token and could not,   *)
(* because they were already under way.                                    *)
Sweeps == {"reuse", "reset"}

(* `pred', `since' and `via' are history: the token a token was rotated    *)
(* from, the password its session was opened under, and how.  A family is  *)
(* named by the token that starts it.                                      *)
Row == [user : Users \union {NoUser}, family : Tokens \union {NoToken},
        pred : Tokens \union {NoToken}, since : Nat, via : Via]
Request == [pc : PC, user : Users \union {NoUser}, token : Tokens \union {NoToken},
            link : Links \union {NoLink}, since : Nat, via : Via]

NoRow == [user |-> NoUser, family |-> NoToken, pred |-> NoToken,
          since |-> 0, via |-> "none"]
Slot(pc, user, token, link, since, via) ==
  [pc |-> pc, user |-> user, token |-> token, link |-> link,
   since |-> since, via |-> via]
Idle == Slot("idle", NoUser, NoToken, NoLink, 0, "none")

TypeOK ==
  /\ deleted \subseteq Users
  /\ password \in [Users -> Nat]
  /\ verified \subseteq Children
  /\ issued \subseteq Tokens
  /\ revoked \subseteq issued
  /\ row \in [Tokens -> Row]
  /\ linkUser \in [Links -> Users \union {NoUser}]
  /\ linkUsed \subseteq Links
  /\ announced \subseteq Users
  /\ req \in [Requests -> Request]
  /\ burnt \subseteq Tokens
  /\ halfway \subseteq Users
  /\ lateReq \in [Requests -> SUBSET Sweeps]
  /\ lateTok \in [Tokens -> SUBSET Sweeps]

Init ==
  /\ deleted = {}
  /\ password = [u \in Users |-> 0]
  /\ verified = {}
  /\ issued = {}
  /\ revoked = {}
  /\ row = [t \in Tokens |-> NoRow]
  /\ linkUser = [k \in Links |-> NoUser]
  /\ linkUsed = {}
  /\ announced = {}
  /\ req = [r \in Requests |-> Idle]
  /\ burnt = {}
  /\ halfway = {}
  /\ lateReq = [r \in Requests |-> {}]
  /\ lateTok = [t \in Tokens |-> {}]

At(r, p) == req[r].pc = p
Keep(r, slot) == req' = [req EXCEPT ![r] = slot]
Goto(r, p) == Keep(r, Slot(p, req[r].user, req[r].token, req[r].link,
                           req[r].since, req[r].via))
Return(r) == Keep(r, Idle)
Start(r, p, u) == At(r, "idle") /\ Keep(r, Slot(p, u, NoToken, NoLink, 0, "none"))

(* History: r starts with the sweeps S behind it; a sweep overtakes Q.     *)
Behind(r, S) ==
  /\ lateReq' = [lateReq EXCEPT ![r] = S]
  /\ UNCHANGED <<burnt, halfway, lateTok>>
Overtake(Q, sweep) ==
  lateReq' = [q \in Requests |->
                IF q \in Q THEN lateReq[q] \union {sweep} ELSE lateReq[q]]

-----------------------------------------------------------------------------
(* Plausible slips of the code, used only to show that the properties      *)
(* notice them: a check that was dropped, an update that was forgotten.    *)
NotChecked(x) == FALSE
Accepted(x) == TRUE
RevokesNothing(x) == {}

-----------------------------------------------------------------------------
(* The repository's queries and updates. *)
Family(f) == {t \in issued : row[t].family = f}
TokensOf(u) == {t \in issued : row[t].user = u}

Deleted(u) == u \in deleted
ConsentVerified(u) == u \in verified
AlreadyRevoked(t) == t \in revoked
LinkUsed(k) == k \in linkUsed

revokeRefreshToken(t) == {t}
revokeTokenFamily(f) == Family(f)
revokeAllUserTokens(u) == TokensOf(u)

-----------------------------------------------------------------------------
(* login: the account is read and the password checked against the hash    *)
(* that was read; a child's consent is read next.                          *)
LoginFind(r, u) ==
  /\ At(r, "idle")
  /\ ~ Deleted(u)
  /\ Keep(r, Slot(IF u \in Children THEN "consent" ELSE "issue",
                  u, NoToken, NoLink, password[u], "password"))
  /\ Behind(r, {})
  /\ UNCHANGED dbVars

LoginConsent(r) ==
  /\ At(r, "consent")
  /\ IF ConsentVerified(req[r].user) THEN Goto(r, "issue") ELSE Return(r)
  /\ UNCHANGED <<dbVars, history>>

(* googleOAuth with the email of an existing account: no consent is read.  *)
GoogleOAuth(r, u) ==
  /\ At(r, "idle")
  /\ ~ Deleted(u)
  /\ Keep(r, Slot("issue", u, NoToken, NoLink, password[u], "google"))
  /\ Behind(r, {})
  /\ UNCHANGED dbVars

(* issueTokens: the row of a fresh token is inserted and the token         *)
(* answered.                                                               *)
IssueTokens(r, t) ==
  /\ At(r, "issue")
  /\ t \notin issued
  /\ issued' = issued \union {t}
  /\ row' = [row EXCEPT ![t] =
               [user |-> req[r].user,
                family |-> IF req[r].token = NoToken THEN t
                           ELSE row[req[r].token].family,
                pred |-> req[r].token,
                since |-> req[r].since,
                via |-> req[r].via]]
  /\ lateTok' = [lateTok EXCEPT ![t] = lateReq[r]]
  /\ Return(r)
  /\ UNCHANGED <<deleted, password, verified, revoked, linkUser, linkUsed,
                 announced, burnt, halfway, lateReq>>

-----------------------------------------------------------------------------
(* refreshSession: the row is read; a revoked one is answered by revoking  *)
(* its family, a live one is revoked, its account read, and a token of the *)
(* same family issued.                                                     *)
RefreshFind(r, t) ==
  /\ At(r, "idle")
  /\ t \in issued
  /\ Keep(r, Slot(IF AlreadyRevoked(t) THEN "reuse" ELSE "rotate",
                  row[t].user, t, NoLink, row[t].since, row[t].via))
  /\ Behind(r, lateTok[t])
  /\ UNCHANGED dbVars

Rotators(f) == {r \in Requests : /\ req[r].pc \in {"rotate", "owner", "issue"}
                                 /\ req[r].token # NoToken
                                 /\ row[req[r].token].family = f}

RefreshReuse(r) ==
  /\ At(r, "reuse")
  /\ LET f == row[req[r].token].family IN
       /\ revoked' = revoked \union revokeTokenFamily(f)
       /\ burnt' = burnt \union {f}
       /\ Overtake(Rotators(f), "reuse")
  /\ Return(r)
  /\ UNCHANGED <<deleted, password, verified, issued, row, linkUser, linkUsed,
                 announced, halfway, lateTok>>

RefreshRotate(r) ==
  /\ At(r, "rotate")
  /\ revoked' = revoked \union revokeRefreshToken(req[r].token)
  /\ Goto(r, "owner")
  /\ UNCHANGED <<deleted, password, verified, issued, row, linkUser, linkUsed,
                 announced, history>>

RefreshOwner(r) ==
  /\ At(r, "owner")
  /\ IF Deleted(req[r].user) THEN Return(r) ELSE Goto(r, "issue")
  /\ UNCHANGED <<dbVars, history>>

(* logout: the id found and the update that follows have the effect of one *)
(* update, whatever happens between them.                                  *)
Logout(t) ==
  /\ t \in issued
  /\ revoked' = revoked \union revokeRefreshToken(t)
  /\ UNCHANGED <<deleted, password, verified, issued, row, linkUser, linkUsed,
                 announced, req, history>>

-----------------------------------------------------------------------------
(* requestPasswordReset and confirmPasswordReset. *)
ResetRequest(u, k) ==
  /\ ~ Deleted(u)
  /\ linkUser[k] = NoUser
  /\ linkUser' = [linkUser EXCEPT ![k] = u]
  /\ UNCHANGED <<deleted, password, verified, issued, revoked, row, linkUsed,
                 announced, req, history>>

ResetFind(r, k) ==
  /\ At(r, "idle")
  /\ linkUser[k] # NoUser
  /\ ~ LinkUsed(k)
  /\ password[linkUser[k]] < MaxPassword
  /\ Keep(r, Slot("resetUser", linkUser[k], NoToken, k, 0, "none"))
  /\ UNCHANGED <<dbVars, history>>

ResetUser(r) ==
  /\ At(r, "resetUser")
  /\ IF Deleted(req[r].user) THEN Return(r) ELSE Goto(r, "resetHash")
  /\ UNCHANGED <<dbVars, history>>

ResetPassword(r) ==
  /\ At(r, "resetHash")
  /\ password' = [password EXCEPT ![req[r].user] = @ + 1]
  /\ Goto(r, "resetMark")
  /\ UNCHANGED <<deleted, verified, issued, revoked, row, linkUser, linkUsed,
                 announced, history>>

ResetMark(r) ==
  /\ At(r, "resetMark")
  /\ linkUsed' = linkUsed \union {req[r].link}
  /\ Goto(r, "resetRevoke")
  /\ UNCHANGED <<deleted, password, verified, issued, revoked, row, linkUser,
                 announced, history>>

(* The program counters from which a request may still issue a token.      *)
Granting == {"consent", "rotate", "owner", "issue"}
Grantors(u) == {r \in Requests : req[r].pc \in Granting /\ req[r].user = u}

ResetRevoke(r) ==
  /\ At(r, "resetRevoke")
  /\ revoked' = revoked \union revokeAllUserTokens(req[r].user)
  /\ halfway' = halfway \ {req[r].user}
  /\ Overtake(Grantors(req[r].user), "reset")
  /\ Return(r)
  /\ UNCHANGED <<deleted, password, verified, issued, row, linkUser, linkUsed,
                 announced, burnt, lateTok>>

-----------------------------------------------------------------------------
(* deleteAccount: the access token of the caller is not checked against    *)
(* deleted_at, so an account may be deleted again.                         *)
DeleteRevoke(r, u) ==
  /\ Start(r, "erase", u)
  /\ revoked' = revoked \union revokeAllUserTokens(u)
  /\ UNCHANGED <<deleted, password, verified, issued, row, linkUser, linkUsed,
                 announced, history>>

DeleteSoft(r) ==
  /\ At(r, "erase")
  /\ deleted' = deleted \union {req[r].user}
  /\ Goto(r, "publish")
  /\ UNCHANGED <<password, verified, issued, revoked, row, linkUser, linkUsed,
                 announced, history>>

DeletePublish(r) ==
  /\ At(r, "publish")
  /\ announced' = announced \union {req[r].user}
  /\ Return(r)
  /\ UNCHANGED <<deleted, password, verified, issued, revoked, row, linkUser,
                 linkUsed, history>>

(* updateProfile: the repository reads the whole row and writes it back,   *)
(* deleted_at included.                                                    *)
ProfileRead(r, u) ==
  /\ Start(r, IF Deleted(u) THEN "writeDeleted" ELSE "writeActive", u)
  /\ UNCHANGED <<dbVars, history>>

ProfileWrite(r) ==
  /\ \/ /\ At(r, "writeActive")
        /\ deleted' = deleted \ {req[r].user}
     \/ /\ At(r, "writeDeleted")
        /\ deleted' = deleted \union {req[r].user}
  /\ Return(r)
  /\ UNCHANGED <<password, verified, issued, revoked, row, linkUser, linkUsed,
                 announced, history>>

(* submitConsent succeeds for a child (its steps are those of the module   *)
(* Accounts).                                                              *)
Consent(u) ==
  /\ verified' = verified \union {u}
  /\ UNCHANGED <<deleted, password, issued, revoked, row, linkUser, linkUsed,
                 announced, req, history>>

(* The request is lost at an await. *)
Resetting(u) ==
  {r \in Requests : req[r].pc \in {"resetMark", "resetRevoke"} /\ req[r].user = u}

Crash(r) ==
  /\ ~ At(r, "idle")
  /\ halfway' = halfway \union {u \in Users : r \in Resetting(u)}
  /\ Return(r)
  /\ UNCHANGED <<dbVars, burnt, lateReq, lateTok>>

Session(r) ==
  \/ \E u \in Users : LoginFind(r, u) \/ GoogleOAuth(r, u)
  \/ LoginConsent(r)
  \/ \E t \in Tokens : RefreshFind(r, t) \/ IssueTokens(r, t)
  \/ RefreshReuse(r) \/ RefreshRotate(r) \/ RefreshOwner(r)

Account(r) ==
  \/ \E k \in Links : ResetFind(r, k)
  \/ ResetUser(r) \/ ResetPassword(r) \/ ResetMark(r) \/ ResetRevoke(r)
  \/ \E u \in Users : DeleteRevoke(r, u) \/ ProfileRead(r, u)
  \/ DeleteSoft(r) \/ DeletePublish(r) \/ ProfileWrite(r)

Next ==
  \/ \E r \in Requests : Session(r) \/ Account(r) \/ Crash(r)
  \/ \E t \in Tokens : Logout(t)
  \/ \E u \in Users, k \in Links : ResetRequest(u, k)
  \/ \E u \in Children : Consent(u)

Spec == Init /\ [][Next]_vars

-----------------------------------------------------------------------------
Live == issued \ revoked

(* The token a token was rotated from is revoked: whatever overlaps, no    *)
(* client holds a usable token together with its usable predecessor        *)
(* (refreshSession revokes at :338 before it issues at :343).              *)
PredecessorRevoked ==
  \A t \in issued : row[t].pred # NoToken => row[t].pred \in revoked

(* Two live tokens of one family can only come from two rotations of one   *)
(* and the same token: the missing compare-and-set on revoked_at (:337) is *)
(* the only way to break single use.                                       *)
Forked(f) ==
  \E a, b \in Family(f) :
    a # b /\ row[a].pred = row[b].pred /\ row[a].pred # NoToken
OneLiveUnlessForked ==
  \A f \in Tokens :
    Forked(f) \/ \A a, b \in Family(f) \cap Live : a = b

(* Once every token of a family is revoked and no rotation of one of them  *)
(* is under way, the family stays dead: no replay, retry or overlapping    *)
(* logout, reset or deletion brings a session back.                        *)
FamilyDead(f) == f \in issued /\ Family(f) \subseteq revoked /\ Rotators(f) = {}
DeadFamilyStaysDead ==
  [][\A f \in Tokens : FamilyDead(f) => FamilyDead(f)']_vars

(* Once all tokens of an account are revoked (password reset, deletion)    *)
(* and no request that would issue one is under way, only a new login can  *)
(* open a session.                                                         *)
SignedOut(u) ==
  /\ TokensOf(u) \subseteq revoked
  /\ \A r \in Requests :
       req[r].user = u => req[r].pc \notin Granting
SignedOutUntilLogin ==
  [][\A u \in Users :
       SignedOut(u) =>
         SignedOut(u)' \/ \E r \in Requests : LoginFind(r, u) \/ GoogleOAuth(r, u)]_vars

(* An account that is deleted, with no request under way that read it      *)
(* before, stays deleted and is never given a token again, though live     *)
(* tokens issued during the deletion may be left in the table.             *)
Gone(u) ==
  /\ u \in deleted
  /\ \A r \in Requests :
       req[r].user = u => req[r].pc \notin {"consent", "issue", "writeActive"}
GoneIssuesNothing ==
  [][\A u \in Users : Gone(u) => Gone(u)' /\ TokensOf(u)' = TokensOf(u)]_vars

(* A child's session opened with a password, and every token rotated from  *)
(* it, exists only if the parental consent was verified (:158).            *)
PasswordSessionNeedsConsent ==
  \A t \in issued :
    row[t].via = "password" /\ row[t].user \in Children => row[t].user \in verified

(* The token table implements the forest of TokenForest. *)
Forest == INSTANCE TokenForest WITH
            born <- issued, dead <- revoked,
            parent <- [t \in Tokens |-> row[t].pred]
ForestSpec == Forest!Spec

-----------------------------------------------------------------------------
(* What is left of two promises of the documentation, whatever overlaps,   *)
(* breaks off or is tried again.                                           *)

(* "On suspicious refresh token reuse, entire token family is revoked":    *)
(* the tokens of the family that live on stem from rotations that were     *)
(* under way when the reuse was answered (between :329 and :343), and from *)
(* no other request, earlier or later.                                     *)
BurntUnlessOvertaken ==
  \A f \in burnt : \A t \in Family(f) \cap Live : "reuse" \in lateTok[t]

(* "Revoke all refresh tokens for this user (force re-login everywhere)":  *)
(* a live session of an older password than the account's stems from a     *)
(* login or refresh that was under way when a reset revoked its tokens, or *)
(* else a reset is still between :294 and :298, or broke off there.        *)
OldSessionsExplained ==
  \A t \in Live :
    LET u == row[t].user IN
      row[t].since < password[u] =>
        \/ "reset" \in lateTok[t]
        \/ u \in halfway
        \/ Resetting(u) # {}

=============================================================================
