------------------------------ MODULE Accounts ------------------------------
(***************************************************************************)
(* Registration, parental consent, profile and deletion of accounts        *)
(* (src/services/auth-service/src/auth-service.ts and its routes) over the *)
(* tables users, parental_consents and oauth_connections.                  *)
(*                                                                         *)
(* As in AuthTokens a request in flight is a slot of `req', every await on *)
(* the database or the event bus ends a step, and Crash drops a slot at    *)
(* any of them: the process stops, or the call fails and the handler       *)
(* throws.  Sessions are the business of AuthTokens: here a parent who     *)
(* submits a consent, or the owner of a profile, simply holds an access    *)
(* token, which no handler checks against deleted_at.                      *)
(*                                                                         *)
(* RegisterSchema (packages/contracts/src/schemas.ts:23) strips parentId,  *)
(* so that every account is created without a parent.                      *)
(***************************************************************************)
EXTENDS Naturals

CONSTANTS Ids,         \* the accounts that can be created
          Children,    \* those registered by a student under thirteen
          Emails,      \* addresses, compared without case
          Parents,     \* the parents who hold an access token
          Requests,    \* the requests that can be in flight together
          None

ASSUME AccountsAssumption ==
  /\ Children \subseteq Ids
  /\ None \notin Ids \union Emails \union Parents

VARIABLES
  users,          \* the accounts with a row
  email,          \* users.email of each of them
  deleted,        \* the accounts with deleted_at set
  parentId,       \* users.parent_id
  consents,       \* the children with a parental_consents row
  consentParent,  \* its parent_id
  verified,       \* the children whose row is 'verified'
  connection,     \* oauth_connections: the account of each Google identity
  created,        \* the accounts whose user.created event was published
  answered,       \* those whose registration was answered with 201
  req,            \* the request in each slot
  contested       \* history: the children two parents were let claim at once,
                  \* or whose row a profile update took a parent back to

tables == <<users, email, deleted, parentId, consents, consentParent,
            verified, connection>>
vars == <<tables, created, answered, req, contested>>

PC == {"idle", "insert", "insertGoogle", "consent", "connect", "publish",
       "reply", "check", "linkUser", "linkConsent", "verify",
       "writeActive", "writeDeleted"}
Request == [pc : PC, id : Ids \union {None}, email : Emails \union {None},
            parent : Parents \union {None}]
Slot(pc, id, e, parent) == [pc |-> pc, id |-> id, email |-> e, parent |-> parent]
Idle == Slot("idle", None, None, None)

TypeOK ==
  /\ users \subseteq Ids
  /\ email \in [Ids -> Emails \union {None}]
  /\ deleted \subseteq users
  /\ parentId \in [Ids -> Parents \union {None}]
  /\ consents \subseteq users \intersect Children
  /\ consentParent \in [Ids -> Parents \union {None}]
  /\ verified \subseteq consents
  /\ connection \in [Emails -> users \union {None}]
  /\ created \subseteq users
  /\ answered \subseteq users
  /\ req \in [Requests -> Request]
  /\ contested \subseteq Children

Init ==
  /\ users = {}
  /\ email = [i \in Ids |-> None]
  /\ deleted = {}
  /\ parentId = [i \in Ids |-> None]
  /\ consents = {}
  /\ consentParent = [i \in Ids |-> None]
  /\ verified = {}
  /\ connection = [e \in Emails |-> None]
  /\ created = {}
  /\ answered = {}
  /\ req = [r \in Requests |-> Idle]
  /\ contested = {}

At(r, p) == req[r].pc = p
Keep(r, slot) == req' = [req EXCEPT ![r] = slot]
Goto(r, p) == Keep(r, Slot(p, req[r].id, req[r].email, req[r].parent))
Return(r) == Keep(r, Idle)

-----------------------------------------------------------------------------
(* Plausible slips of the code, used only to show that the properties      *)
(* notice them: a check or an index that was dropped, a swapped order, one *)
(* table of two forgotten.                                                 *)
NotIndexed(i, e) == FALSE
Undesignated(c, p) == FALSE
EventBeforeConsent(i, google) == "publish"
LinkConsentOnly(r) ==
  /\ At(r, "linkUser")
  /\ consentParent' = [consentParent EXCEPT ![req[r].id] =
                         IF req[r].id \in consents THEN req[r].parent ELSE @]
  /\ Goto(r, "linkConsent")
  /\ UNCHANGED <<users, email, deleted, parentId, consents, verified,
                 connection, created, answered, contested>>
VerifyWithoutRow(r) ==
  /\ At(r, "verify")
  /\ verified' = verified \union {req[r].id}
  /\ Return(r)
  /\ UNCHANGED <<users, email, deleted, parentId, consents, consentParent,
                 connection, created, answered, contested>>

-----------------------------------------------------------------------------
(* The repository's queries. *)
Active(i) == i \in users \ deleted
findUserByEmail(e) == {i \in users \ deleted : email[i] = e}
listChildrenForParent(p) == {c \in Children : Active(c) /\ parentId[c] = p}

(* idx_users_email_active_unique: no other account is active under e.      *)
EmailTaken(i, e) == findUserByEmail(e) \ {i} # {}

(* The row of the child names another parent. *)
DesignatedOther(c, p) == c \in consents /\ consentParent[c] \notin {None, p}

(* The parent whom GET /coppa/status/:childId shows the row: unlike the    *)
(* tokens, which carry listChildrenForParent, it asks parental_consents.   *)
MaySeeConsent(p, c) == c \in consents /\ consentParent[c] = p

-----------------------------------------------------------------------------
(* register, and googleOAuth for an address without an account: the        *)
(* address is looked up and, after the hash of the password or the answer  *)
(* of Google, the row inserted; the index may refuse it.                   *)
Register(r, i, e) ==
  /\ At(r, "idle")
  /\ i \notin users
  /\ \A q \in Requests : req[q].id # i       \* ids are fresh UUIDs
  /\ findUserByEmail(e) = {}
  /\ Keep(r, Slot("insert", i, e, None))
  /\ UNCHANGED <<tables, created, answered, contested>>

GoogleOAuth(r, i, e) ==
  /\ At(r, "idle")
  /\ i \notin users \union Children
  /\ \A q \in Requests : req[q].id # i
  /\ findUserByEmail(e) = {}
  /\ Keep(r, Slot("insertGoogle", i, e, None))
  /\ UNCHANGED <<tables, created, answered, contested>>

AfterInsert(i, google) ==
  IF google THEN "connect" ELSE IF i \in Children THEN "consent" ELSE "publish"

CreateUser(r) ==
  /\ \/ At(r, "insert")
     \/ At(r, "insertGoogle")
  /\ ~ EmailTaken(req[r].id, req[r].email)
  /\ users' = users \union {req[r].id}
  /\ email' = [email EXCEPT ![req[r].id] = req[r].email]
  /\ Goto(r, AfterInsert(req[r].id, At(r, "insertGoogle")))
  /\ UNCHANGED <<deleted, parentId, consents, consentParent, verified,
                 connection, created, answered, contested>>

CreateUserRefused(r) ==
  /\ \/ At(r, "insert")
     \/ At(r, "insertGoogle")
  /\ EmailTaken(req[r].id, req[r].email)
  /\ Return(r)
  /\ UNCHANGED <<tables, created, answered, contested>>

CreateConsent(r) ==
  /\ At(r, "consent")
  /\ consents' = consents \union {req[r].id}
  /\ Goto(r, "publish")
  /\ UNCHANGED <<users, email, deleted, parentId, consentParent, verified,
                 connection, created, answered, contested>>

(* A Google identity that has a connection keeps it (DO NOTHING), be it    *)
(* that of an account deleted since.                                       *)
CreateOAuthConnection(r) ==
  /\ At(r, "connect")
  /\ connection' = [connection EXCEPT ![req[r].email] =
                      IF @ = None THEN req[r].id ELSE @]
  /\ Goto(r, "publish")
  /\ UNCHANGED <<users, email, deleted, parentId, consents, consentParent,
                 verified, created, answered, contested>>

PublishCreated(r) ==
  /\ At(r, "publish")
  /\ created' = created \union {req[r].id}
  /\ Goto(r, "reply")
  /\ UNCHANGED <<tables, answered, contested>>

Reply(r) ==
  /\ At(r, "reply")
  /\ answered' = answered \union {req[r].id}
  /\ Return(r)
  /\ UNCHANGED <<tables, created, contested>>

-----------------------------------------------------------------------------
(* submitConsent: the child's row is read, deleted or not, and must        *)
(* require a consent; a parent is checked against the consent row and, if  *)
(* it names nobody, linked in both tables; an administrator (None) is      *)
(* neither checked nor linked.                                             *)
SubmitConsent(r, c, p) ==
  /\ At(r, "idle")
  /\ c \in users
  /\ Keep(r, Slot(IF p = None THEN "verify" ELSE "check", c, None, p))
  /\ UNCHANGED <<tables, created, answered, contested>>

Claiming(q) == req[q].pc \in {"linkUser", "linkConsent", "verify"} /\ req[q].parent # None

CheckDesignated(r) ==
  LET c == req[r].id  p == req[r].parent IN
  /\ At(r, "check")
  /\ IF DesignatedOther(c, p) THEN Return(r)
     ELSE IF c \in consents /\ consentParent[c] = p THEN Goto(r, "verify")
     ELSE Goto(r, "linkUser")
  /\ contested' = IF /\ ~ DesignatedOther(c, p)
                     /\ \E q \in Requests :
                          Claiming(q) /\ req[q].id = c /\ req[q].parent # p
                  THEN contested \union {c} ELSE contested
  /\ UNCHANGED <<tables, created, answered>>

LinkUser(r) ==
  /\ At(r, "linkUser")
  /\ parentId' = [parentId EXCEPT ![req[r].id] = req[r].parent]
  /\ Goto(r, "linkConsent")
  /\ UNCHANGED <<users, email, deleted, consents, consentParent, verified,
                 connection, created, answered, contested>>

LinkConsent(r) ==
  /\ At(r, "linkConsent")
  /\ consentParent' = [consentParent EXCEPT ![req[r].id] =
                         IF req[r].id \in consents THEN req[r].parent ELSE @]
  /\ Goto(r, "verify")
  /\ UNCHANGED <<users, email, deleted, parentId, consents, verified,
                 connection, created, answered, contested>>

(* updateConsentStatus throws when there is no row: the parent is answered *)
(* 500 although linkParentToChild has linked the account.                  *)
UpdateConsentStatus(r) ==
  LET c == req[r].id IN
  /\ At(r, "verify")
  /\ verified' = verified \union ({c} \intersect consents)
  /\ consentParent' = [consentParent EXCEPT ![c] =
                         IF c \in consents /\ req[r].parent # None
                         THEN req[r].parent ELSE @]
  /\ Return(r)
  /\ UNCHANGED <<users, email, deleted, parentId, consents, connection,
                 created, answered, contested>>

-----------------------------------------------------------------------------
(* updateProfile: updateUser reads the row and writes parent_id and        *)
(* deleted_at back with the new name; the index refuses an account that    *)
(* would be active again under an address taken in the meantime.           *)
ProfileRead(r, i) ==
  /\ At(r, "idle")
  /\ i \in users
  /\ Keep(r, Slot(IF Active(i) THEN "writeActive" ELSE "writeDeleted",
                  i, None, parentId[i]))
  /\ UNCHANGED <<tables, created, answered, contested>>

ProfileWrite(r) ==
  LET i == req[r].id IN
  /\ \/ At(r, "writeDeleted") /\ deleted' = deleted \union {i}
     \/ /\ At(r, "writeActive")
        /\ ~ EmailTaken(i, email[i])
        /\ deleted' = deleted \ {i}
  /\ parentId' = [parentId EXCEPT ![i] = req[r].parent]
  /\ contested' = IF parentId[i] # req[r].parent THEN contested \union {i}
                  ELSE contested
  /\ Return(r)
  /\ UNCHANGED <<users, email, consents, consentParent, verified, connection,
                 created, answered>>

ProfileWriteRefused(r) ==
  /\ At(r, "writeActive")
  /\ EmailTaken(req[r].id, email[req[r].id])
  /\ Return(r)
  /\ UNCHANGED <<tables, created, answered, contested>>

(* softDeleteUser, the step of deleteAccount that this module's tables     *)
(* see (the others are those of AuthTokens).                               *)
SoftDelete(i) ==
  /\ i \in users
  /\ deleted' = deleted \union {i}
  /\ UNCHANGED <<users, email, parentId, consents, consentParent, verified,
                 connection, created, answered, req, contested>>

(* The request is lost at an await. *)
Crash(r) ==
  /\ ~ At(r, "idle")
  /\ Return(r)
  /\ UNCHANGED <<tables, created, answered, contested>>

Registration(r) ==
  \/ \E i \in Ids, e \in Emails : Register(r, i, e) \/ GoogleOAuth(r, i, e)
  \/ CreateUser(r) \/ CreateUserRefused(r)
  \/ CreateConsent(r) \/ CreateOAuthConnection(r)
  \/ PublishCreated(r) \/ Reply(r)

Consent(r) ==
  \/ \E c \in Children, p \in Parents \union {None} : SubmitConsent(r, c, p)
  \/ CheckDesignated(r) \/ LinkUser(r) \/ LinkConsent(r) \/ UpdateConsentStatus(r)

Profile(r) ==
  \/ \E i \in Ids : ProfileRead(r, i)
  \/ ProfileWrite(r) \/ ProfileWriteRefused(r)

Next ==
  \/ \E r \in Requests : Registration(r) \/ Consent(r) \/ Profile(r) \/ Crash(r)
  \/ \E i \in Ids : SoftDelete(i)

Spec == Init /\ [][Next]_vars

-----------------------------------------------------------------------------
(* No address has two active accounts: two registrations that both found   *)
(* none (:89), and a profile update that would restore a deleted account   *)
(* whose address was registered again, end at the index.                   *)
UniqueActiveEmail ==
  \A i, j \in users \ deleted : email[i] = email[j] => i = j

(* Whatever registration breaks off, what is announced is complete: the    *)
(* parent of a child in user.created finds a row to consent to, and a      *)
(* registration answered 201 was announced (:112-139).                     *)
AnnouncedHasConsent ==
  /\ created \intersect Children \subseteq consents
  /\ answered \subseteq created

(* The two places that say who the parent of a child is agree: unless two  *)
(* parents overlapped between the check (:383) and the link (:388), or a   *)
(* profile update wrote an older parent back, the parent shown the consent *)
(* row is at every moment the one whose tokens list the child, whatever is *)
(* lost between the two statements of linkParentToChild.                   *)
ParentTablesAgree ==
  \A c \in consents \ (contested \union deleted), p \in Parents :
    MaySeeConsent(p, c) => c \in listChildrenForParent(p)

(* A child linked in both tables, with no other claim and no earlier       *)
(* profile update under way, stays with that parent: later submissions of  *)
(* other parents, administrators or the same one change nothing.           *)
LinkedTo(c, p) ==
  /\ c \in consents
  /\ parentId[c] = p
  /\ consentParent[c] = p
  /\ \A r \in Requests :
       req[r].id = c /\ (Claiming(r) \/ req[r].pc \in {"writeActive", "writeDeleted"})
         => req[r].parent = p
LinkIsFinal ==
  [][\A c \in Children, p \in Parents : LinkedTo(c, p) => LinkedTo(c, p)']_vars

=============================================================================
