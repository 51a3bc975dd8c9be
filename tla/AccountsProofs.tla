--------------------------- MODULE AccountsProofs ---------------------------
(***************************************************************************)
(* Theorems about Accounts for any accounts, addresses, parents and number *)
(* of requests in flight.                                                  *)
(*                                                                         *)
(* The inductive invariant has three parts besides the types: what a slot  *)
(* knows about the rows its request has written (SlotInv), the uniqueness  *)
(* that the index keeps, and how far the claims under way on a child have  *)
(* come in the two tables that name its parent (AgreeInv).                 *)
(***************************************************************************)
EXTENDS Accounts, TLAPS

Claims == {"linkUser", "linkConsent", "verify"}
Writes == {"writeActive", "writeDeleted"}

SlotOK(s, us, cs, cr) ==
  /\ s \in Request
  /\ s.pc # "idle" => s.id \in Ids
  /\ s.pc \in {"insert", "insertGoogle", "connect"} => s.email \in Emails
  /\ s.pc \in {"insertGoogle", "connect"} => s.id \notin Children
  /\ s.pc \notin {"idle", "insert", "insertGoogle"} => s.id \in us
  /\ s.pc \in Claims \union {"consent", "check"} => s.id \in Children
  /\ s.pc \in {"check", "linkUser", "linkConsent"} => s.parent # None
  /\ s.pc \in {"publish", "reply"} /\ s.id \in Children => s.id \in cs
  /\ s.pc = "reply" => s.id \in cr
  /\ s.pc \in Writes /\ s.id \notin Children => s.parent = None

SlotInv == \A r \in Requests : SlotOK(req[r], users, consents, created)

(* What a claim s on a child says of the child's rows. *)
ClaimOK(s, row, user) ==
  /\ row \in {None, s.parent}
  /\ s.pc # "linkUser" => user = s.parent

Claimed(s, c) == s.pc \in Claims /\ s.parent # None /\ s.id = c

AgreeInv ==
  /\ \A i \in Ids \ Children : parentId[i] = None
  /\ \A i \in Ids \ consents : consentParent[i] = None
  /\ \A c \in Children \ contested :
       /\ consentParent[c] # None => parentId[c] = consentParent[c]
       /\ \A r \in Requests : Claimed(req[r], c) => ClaimOK(req[r], consentParent[c], parentId[c])
       /\ \A q, r \in Requests :
            Claimed(req[q], c) /\ Claimed(req[r], c) => req[q].parent = req[r].parent

TableTypes ==
  /\ users \subseteq Ids
  /\ email \in [Ids -> Emails \union {None}]
  /\ deleted \subseteq users
  /\ parentId \in [Ids -> Parents \union {None}]
  /\ consents \subseteq users \intersect Children
  /\ consentParent \in [Ids -> Parents \union {None}]
  /\ verified \subseteq consents
  /\ connection \in [Emails -> users \union {None}]
  /\ contested \subseteq Children

Announced ==
  /\ created \subseteq users
  /\ answered \subseteq created
  /\ created \intersect Children \subseteq consents

IInv ==
  /\ TableTypes
  /\ req \in [Requests -> Request]
  /\ SlotInv
  /\ Announced
  /\ UniqueActiveEmail
  /\ AgreeInv

-----------------------------------------------------------------------------
LEMMA InitIInv == Init => IInv
<1> SUFFICES ASSUME Init PROVE IInv
  OBVIOUS
<1> USE AccountsAssumption
<1>1. Idle \in Request /\ Idle.pc = "idle"
  BY DEF Idle, Slot, Request, PC
<1>2. SlotInv
  BY <1>1 DEF Init, SlotInv, SlotOK, Claims, Writes
<1>3. AgreeInv
  BY <1>1 DEF Init, AgreeInv, Claimed, ClaimOK, Claims
<1>4. TableTypes /\ Announced /\ UniqueActiveEmail /\ req \in [Requests -> Request]
  BY <1>1 DEF Init, TableTypes, Announced, UniqueActiveEmail
<1> QED BY <1>2, <1>3, <1>4 DEF IInv

LEMMA IInvImplies == IInv => TypeOK /\ AnnouncedHasConsent /\ ParentTablesAgree
<1> SUFFICES ASSUME IInv PROVE TypeOK /\ AnnouncedHasConsent /\ ParentTablesAgree
  OBVIOUS
<1>1. TypeOK
  BY DEF IInv, TypeOK, TableTypes, Announced
<1>2. AnnouncedHasConsent
  BY DEF IInv, Announced, AnnouncedHasConsent
<1>3. ASSUME NEW c \in consents \ (contested \union deleted), NEW p \in Parents,
             MaySeeConsent(p, c)
      PROVE  c \in listChildrenForParent(p)
  <2>1. c \in Children \ contested /\ c \in users \ deleted
    BY DEF IInv, TableTypes
  <2>2. consentParent[c] = p /\ p # None
    BY <1>3, AccountsAssumption DEF MaySeeConsent
  <2>3. parentId[c] = p
    BY <2>1, <2>2 DEF IInv, AgreeInv
  <2> QED BY <2>1, <2>3 DEF listChildrenForParent, Active
<1> QED BY <1>1, <1>2, <1>3 DEF ParentTablesAgree

(* Slots keep what they know while rows are only added.                    *)
LEMMA Grow ==
  ASSUME NEW s, NEW us, NEW cs, NEW cr, SlotOK(s, us, cs, cr),
         NEW us2, NEW cs2, NEW cr2, us \subseteq us2, cs \subseteq cs2, cr \subseteq cr2
  PROVE  SlotOK(s, us2, cs2, cr2)
BY DEF SlotOK

LEMMA Kept ==
  ASSUME IInv, NEW r \in Requests, NEW s, Keep(r, s), SlotOK(s, users', consents', created'),
         users \subseteq users', consents \subseteq consents', created \subseteq created'
  PROVE  /\ req' \in [Requests -> Request]
         /\ req'[r] = s
         /\ \A q \in Requests : q # r => req'[q] = req[q]
         /\ SlotInv'
<1>1. s \in Request /\ req \in [Requests -> Request]
  BY DEF IInv, SlotOK
<1>2. /\ req' \in [Requests -> Request]
      /\ req'[r] = s
      /\ \A q \in Requests : q # r => req'[q] = req[q]
  BY <1>1 DEF Keep
<1>3. ASSUME NEW q \in Requests PROVE SlotOK(req'[q], users', consents', created')
  <2>1. CASE q = r
    BY <2>1, <1>2
  <2>2. CASE q # r
    <3>1. SlotOK(req[q], users, consents, created)
      BY DEF IInv, SlotInv
    <3> QED BY <2>2, <3>1, <1>2, Grow
  <2> QED BY <2>1, <2>2
<1> QED BY <1>2, <1>3 DEF SlotInv

(* A slot that is no claim, in a step that leaves the parents alone.       *)
LEMMA AgreeKept ==
  ASSUME IInv, NEW r \in Requests, NEW s,
         req' \in [Requests -> Request], req'[r] = s,
         \A q \in Requests : q # r => req'[q] = req[q],
         \A c \in Children \ contested' :
           Claimed(s, c) =>
             /\ ClaimOK(s, consentParent[c], parentId[c])
             /\ \A q \in Requests : Claimed(req[q], c) => req[q].parent = s.parent,
         consents \subseteq consents', contested \subseteq contested',
         UNCHANGED <<parentId, consentParent>>
  PROVE  AgreeInv'
<1>1. /\ \A i \in Ids \ Children : parentId'[i] = None
      /\ \A i \in Ids \ consents' : consentParent'[i] = None
  BY DEF IInv, AgreeInv
<1>2. ASSUME NEW c \in Children \ contested'
      PROVE  /\ consentParent'[c] # None => parentId'[c] = consentParent'[c]
             /\ \A q \in Requests :
                  Claimed(req'[q], c) => ClaimOK(req'[q], consentParent'[c], parentId'[c])
             /\ \A p, q \in Requests :
                  Claimed(req'[p], c) /\ Claimed(req'[q], c) => req'[p].parent = req'[q].parent
  <2>1. c \in Children \ contested
    OBVIOUS
  <2>2. consentParent'[c] # None => parentId'[c] = consentParent'[c]
    BY <2>1 DEF IInv, AgreeInv
  <2>3. ASSUME NEW q \in Requests, Claimed(req'[q], c)
        PROVE  ClaimOK(req'[q], consentParent'[c], parentId'[c])
    <3>1. CASE q = r
      BY <2>3, <3>1
    <3>2. CASE q # r
      BY <2>1, <2>3, <3>2 DEF IInv, AgreeInv
    <3> QED BY <3>1, <3>2
  <2>4. ASSUME NEW p \in Requests, NEW q \in Requests,
               Claimed(req'[p], c), Claimed(req'[q], c)
        PROVE  req'[p].parent = req'[q].parent
    <3>1. CASE p = r /\ q # r
      BY <2>4, <3>1
    <3>2. CASE p # r /\ q = r
      BY <2>4, <3>2
    <3>3. CASE p # r /\ q # r
      BY <2>1, <2>4, <3>3 DEF IInv, AgreeInv
    <3> QED BY <3>1, <3>2, <3>3
  <2> QED BY <2>2, <2>3, <2>4
<1> QED BY <1>1, <1>2 DEF AgreeInv

-----------------------------------------------------------------------------
(* The slots a request can be given. *)
LEMMA SlotTypes ==
  ASSUME IInv, NEW r \in Requests
  PROVE  /\ \A p \in PC : Slot(p, req[r].id, req[r].email, req[r].parent) \in Request
         /\ \A i \in Ids, e \in Emails \union {None}, p \in PC, m \in Parents \union {None} :
              Slot(p, i, e, m) \in Request
         /\ \A us, cs, cr : SlotOK(Idle, us, cs, cr)
BY DEF IInv, Request, Slot, Idle, SlotOK, PC, Claims, Writes

LEMMA FieldsOf ==
  ASSUME NEW p, NEW i, NEW e, NEW m
  PROVE  /\ Slot(p, i, e, m).pc = p
         /\ Slot(p, i, e, m).id = i
         /\ Slot(p, i, e, m).email = e
         /\ Slot(p, i, e, m).parent = m
BY DEF Slot

(* A request that starts, goes on or ends without touching a parent.       *)
LEMMA QuietStep ==
  ASSUME IInv, NEW r \in Requests, NEW s, Keep(r, s),
         SlotOK(s, users', consents', created'), s.pc \notin Claims \/ s.parent = None,
         users \subseteq users', consents \subseteq consents', created \subseteq created',
         UNCHANGED <<parentId, consentParent, contested>>
  PROVE  req' \in [Requests -> Request] /\ SlotInv' /\ AgreeInv'
<1>1. /\ req' \in [Requests -> Request] /\ req'[r] = s /\ SlotInv'
      /\ \A q \in Requests : q # r => req'[q] = req[q]
  BY Kept
<1>2. \A c \in Children : ~ Claimed(s, c)
  BY DEF Claimed
<1> QED BY <1>1, <1>2, AgreeKept

(* A step of a slot that leaves every table as it is.                      *)
LEMMA TablesKept ==
  ASSUME IInv, UNCHANGED <<tables, created, answered, contested>>
  PROVE  TableTypes' /\ Announced' /\ UniqueActiveEmail'
BY DEF IInv, tables, TableTypes, Announced, UniqueActiveEmail

LEMMA ReturnStep ==
  ASSUME IInv, NEW r \in Requests, Return(r),
         UNCHANGED <<tables, created, answered, contested>>
  PROVE  IInv'
<1>1. SlotOK(Idle, users', consents', created') /\ Idle.pc \notin Claims
  BY SlotTypes DEF Idle, Slot, Claims
<1> QED BY <1>1, QuietStep, TablesKept DEF Return, IInv, tables

-----------------------------------------------------------------------------
LEMMA RegistrationStep ==
  ASSUME IInv, NEW r \in Requests, Registration(r)
  PROVE  IInv'
<1> USE AccountsAssumption
<1>s. SlotOK(req[r], users, consents, created)
  BY DEF IInv, SlotInv
<1>1. ASSUME NEW i \in Ids, NEW e \in Emails, Register(r, i, e) PROVE IInv'
  <2> DEFINE s == Slot("insert", i, e, None)
  <2>1. s \in Request
    BY SlotTypes DEF PC
  <2>2. SlotOK(s, users', consents', created') /\ s.pc \notin Claims
    BY <2>1, FieldsOf DEF SlotOK, Claims, Writes
  <2>3. Keep(r, s) /\ UNCHANGED <<tables, created, answered, contested>>
    BY <1>1 DEF Register
  <2> HIDE DEF s
  <2> QED BY <2>2, <2>3, QuietStep, TablesKept DEF IInv, tables
<1>2. ASSUME NEW i \in Ids, NEW e \in Emails, GoogleOAuth(r, i, e) PROVE IInv'
  <2> DEFINE s == Slot("insertGoogle", i, e, None)
  <2>1. s \in Request
    BY SlotTypes DEF PC
  <2>2. SlotOK(s, users', consents', created') /\ s.pc \notin Claims
    BY <1>2, <2>1, FieldsOf DEF SlotOK, Claims, Writes, GoogleOAuth
  <2>3. Keep(r, s) /\ UNCHANGED <<tables, created, answered, contested>>
    BY <1>2 DEF GoogleOAuth
  <2> HIDE DEF s
  <2> QED BY <2>2, <2>3, QuietStep, TablesKept DEF IInv, tables
<1>3. CASE CreateUser(r)
  <2> DEFINE id == req[r].id
             p == AfterInsert(id, At(r, "insertGoogle"))
             s == Slot(p, id, req[r].email, req[r].parent)
  <2>1. /\ id \in Ids /\ req[r].email \in Emails
        /\ p \in {"connect", "consent", "publish"}
        /\ p = "connect" => id \notin Children
        /\ p = "consent" => id \in Children
        /\ p = "publish" => id \notin Children
    BY <1>3, <1>s DEF CreateUser, At, SlotOK, AfterInsert
  <2>2. s \in Request
    BY <2>1, SlotTypes DEF PC
  <2>3. /\ Keep(r, s)
        /\ users' = users \union {id}
        /\ email' = [email EXCEPT ![id] = req[r].email]
        /\ ~ EmailTaken(id, req[r].email)
        /\ UNCHANGED <<deleted, parentId, consents, consentParent, verified,
                       connection, created, answered, contested>>
    BY <1>3 DEF CreateUser, Goto
  <2>4. SlotOK(s, users', consents', created') /\ s.pc \notin Claims
    BY <2>1, <2>2, <2>3, FieldsOf DEF SlotOK, Claims, Writes
  <2> HIDE DEF s, p
  <2>5. req' \in [Requests -> Request] /\ SlotInv' /\ AgreeInv'
    BY <2>3, <2>4, QuietStep
  <2>6. TableTypes' /\ Announced'
    BY <2>1, <2>3 DEF IInv, TableTypes, Announced
  <2>7. UniqueActiveEmail'
    <3>1. email' \in [Ids -> Emails \union {None}] /\ email'[id] = req[r].email
      BY <2>1, <2>3 DEF IInv, TableTypes
    <3>2. \A j \in (users \ deleted) \ {id} : email'[j] = email[j] /\ email[j] # req[r].email
      BY <2>3 DEF IInv, TableTypes, EmailTaken, findUserByEmail
    <3> QED BY <2>3, <3>1, <3>2 DEF IInv, UniqueActiveEmail
  <2> QED BY <2>5, <2>6, <2>7 DEF IInv
<1>4. CASE CreateUserRefused(r)
  BY <1>4, ReturnStep DEF CreateUserRefused
<1>5. CASE CreateConsent(r)
  <2> DEFINE id == req[r].id
             s == Slot("publish", id, req[r].email, req[r].parent)
  <2>1. id \in Ids /\ id \in users /\ id \in Children
    BY <1>5, <1>s DEF CreateConsent, At, SlotOK
  <2>2. s \in Request
    BY SlotTypes DEF PC
  <2>3. /\ Keep(r, s)
        /\ consents' = consents \union {id}
        /\ UNCHANGED <<users, email, deleted, parentId, consentParent, verified,
                       connection, created, answered, contested>>
    BY <1>5 DEF CreateConsent, Goto
  <2>4. SlotOK(s, users', consents', created') /\ s.pc \notin Claims
    BY <2>1, <2>2, <2>3, FieldsOf DEF SlotOK, Claims, Writes
  <2> HIDE DEF s
  <2>5. req' \in [Requests -> Request] /\ SlotInv' /\ AgreeInv'
    BY <2>3, <2>4, QuietStep
  <2>6. TableTypes' /\ Announced' /\ UniqueActiveEmail'
    BY <2>1, <2>3 DEF IInv, TableTypes, Announced, UniqueActiveEmail
  <2> QED BY <2>5, <2>6 DEF IInv
<1>6. CASE CreateOAuthConnection(r)
  <2> DEFINE id == req[r].id
             s == Slot("publish", id, req[r].email, req[r].parent)
  <2>1. id \in Ids /\ id \in users /\ id \notin Children /\ req[r].email \in Emails
    BY <1>6, <1>s DEF CreateOAuthConnection, At, SlotOK
  <2>2. s \in Request
    BY SlotTypes DEF PC
  <2>3. /\ Keep(r, s)
        /\ connection' = [connection EXCEPT ![req[r].email] = IF @ = None THEN id ELSE @]
        /\ UNCHANGED <<users, email, deleted, parentId, consents, consentParent,
                       verified, created, answered, contested>>
    BY <1>6 DEF CreateOAuthConnection, Goto
  <2>4. SlotOK(s, users', consents', created') /\ s.pc \notin Claims
    BY <2>1, <2>2, <2>3, FieldsOf DEF SlotOK, Claims, Writes
  <2> HIDE DEF s
  <2>5. req' \in [Requests -> Request] /\ SlotInv' /\ AgreeInv'
    BY <2>3, <2>4, QuietStep
  <2>6. TableTypes' /\ Announced' /\ UniqueActiveEmail'
    BY <2>1, <2>3 DEF IInv, TableTypes, Announced, UniqueActiveEmail
  <2> QED BY <2>5, <2>6 DEF IInv
<1>7. CASE PublishCreated(r)
  <2> DEFINE id == req[r].id
             s == Slot("reply", id, req[r].email, req[r].parent)
  <2>1. id \in Ids /\ id \in users /\ (id \in Children => id \in consents)
    BY <1>7, <1>s DEF PublishCreated, At, SlotOK
  <2>2. s \in Request
    BY SlotTypes DEF PC
  <2>3. Keep(r, s) /\ created' = created \union {id} /\ UNCHANGED <<tables, answered, contested>>
    BY <1>7 DEF PublishCreated, Goto
  <2>4. SlotOK(s, users', consents', created') /\ s.pc \notin Claims
    BY <2>1, <2>2, <2>3, FieldsOf DEF SlotOK, Claims, Writes, tables
  <2> HIDE DEF s
  <2>5. req' \in [Requests -> Request] /\ SlotInv' /\ AgreeInv'
    BY <2>3, <2>4, QuietStep DEF tables
  <2>6. TableTypes' /\ Announced' /\ UniqueActiveEmail'
    BY <2>1, <2>3 DEF IInv, TableTypes, Announced, UniqueActiveEmail, tables
  <2> QED BY <2>5, <2>6 DEF IInv
<1>8. CASE Reply(r)
  <2>1. req[r].id \in created
    BY <1>8, <1>s DEF Reply, At, SlotOK
  <2>2. SlotOK(Idle, users', consents', created') /\ Idle.pc \notin Claims
    BY SlotTypes DEF Idle, Slot, Claims
  <2>3. req' \in [Requests -> Request] /\ SlotInv' /\ AgreeInv'
    BY <1>8, <2>2, QuietStep DEF Reply, Return, tables
  <2>4. TableTypes' /\ Announced' /\ UniqueActiveEmail'
    BY <1>8, <2>1 DEF Reply, IInv, TableTypes, Announced, UniqueActiveEmail, tables
  <2> QED BY <2>3, <2>4 DEF IInv
<1> QED BY <1>1, <1>2, <1>3, <1>4, <1>5, <1>6, <1>7, <1>8 DEF Registration

(* What is known of a child's row before a claim on it is begun or ended.  *)
LEMMA ClaimFacts ==
  ASSUME IInv, NEW r \in Requests, req[r].pc \in Claims, req[r].parent # None,
         req[r].id \notin contested
  PROVE  /\ ClaimOK(req[r], consentParent[req[r].id], parentId[req[r].id])
         /\ consentParent[req[r].id] # None
              => parentId[req[r].id] = consentParent[req[r].id]
         /\ \A q \in Requests :
              Claimed(req[q], req[r].id) => req[q].parent = req[r].parent
<1>1. req[r].id \in Children
  BY DEF IInv, SlotInv, SlotOK
<1> QED BY <1>1 DEF IInv, AgreeInv, Claimed

(* A claim goes on or ends, writing its parent in either table.            *)
LEMMA ClaimStep ==
  ASSUME IInv, NEW r \in Requests, NEW s,
         req[r].pc \in Claims, req[r].parent # None,
         req'[r] = s, \A q \in Requests : q # r => req'[q] = req[q],
         s.pc \notin Claims \/ (s.id = req[r].id /\ s.parent = req[r].parent),
         \A i \in Ids \ {req[r].id} :
           parentId'[i] = parentId[i] /\ consentParent'[i] = consentParent[i],
         UNCHANGED <<consents, contested>>,
         req[r].id \notin consents => consentParent'[req[r].id] = None,
         req[r].id \notin contested =>
           /\ consentParent'[req[r].id] \in {None, req[r].parent}
           /\ consentParent'[req[r].id] # None => parentId'[req[r].id] = req[r].parent
           /\ parentId'[req[r].id] \in {parentId[req[r].id], req[r].parent}
           /\ s.pc \in Claims \ {"linkUser"} => parentId'[req[r].id] = req[r].parent
  PROVE  AgreeInv'
<1> DEFINE c == req[r].id
           p == req[r].parent
<1>1. c \in Children /\ Children \subseteq Ids /\ Claimed(req[r], c)
  BY AccountsAssumption DEF IInv, SlotInv, SlotOK, Claimed
<1>2. /\ \A i \in Ids \ Children : parentId'[i] = None
      /\ \A i \in Ids \ consents' : consentParent'[i] = None
  BY <1>1 DEF IInv, AgreeInv
<1>3. ASSUME NEW d \in Children \ contested'
      PROVE  /\ consentParent'[d] # None => parentId'[d] = consentParent'[d]
             /\ \A q \in Requests :
                  Claimed(req'[q], d) => ClaimOK(req'[q], consentParent'[d], parentId'[d])
             /\ \A o, q \in Requests :
                  Claimed(req'[o], d) /\ Claimed(req'[q], d) => req'[o].parent = req'[q].parent
  <2>1. d \in Children \ contested
    OBVIOUS
  <2>2. CASE d # c
    <3>1. parentId'[d] = parentId[d] /\ consentParent'[d] = consentParent[d]
      BY <1>1, <2>2
    <3>2. \A q \in Requests : Claimed(req'[q], d) => q # r
      BY <2>2 DEF Claimed
    <3> QED BY <2>1, <3>1, <3>2 DEF IInv, AgreeInv
  <2>3. CASE d = c
    <3>1. \A q \in Requests : Claimed(req[q], c) =>
            req[q].parent = p /\ ClaimOK(req[q], consentParent[c], parentId[c])
      BY <1>1, <2>1, <2>3 DEF IInv, AgreeInv
    <3>2. \A q \in Requests : Claimed(req'[q], c) => req'[q].parent = p
      BY <3>1 DEF Claimed
    <3>3. ASSUME NEW q \in Requests, Claimed(req'[q], c)
          PROVE  ClaimOK(req'[q], consentParent'[c], parentId'[c])
      <4>1. CASE q = r
        BY <2>1, <2>3, <3>3, <4>1 DEF ClaimOK, Claimed
      <4>2. CASE q # r
        BY <2>1, <2>3, <3>1, <3>3, <4>2 DEF ClaimOK, Claimed
      <4> QED BY <4>1, <4>2
    <3>4. consentParent'[c] # None => parentId'[c] = consentParent'[c]
      BY <2>1, <2>3
    <3> QED BY <2>3, <3>2, <3>3, <3>4
  <2> QED BY <2>2, <2>3
<1> QED BY <1>2, <1>3 DEF AgreeInv

LEMMA ConsentStep ==
  ASSUME IInv, NEW r \in Requests, Consent(r)
  PROVE  IInv'
<1> USE AccountsAssumption
<1>s. SlotOK(req[r], users, consents, created) /\ req[r] \in Request
  BY DEF IInv, SlotInv
<1>1. ASSUME NEW c \in Children, NEW p \in Parents \union {None}, SubmitConsent(r, c, p)
      PROVE  IInv'
  <2> DEFINE pc == IF p = None THEN "verify" ELSE "check"
             s == Slot(pc, c, None, p)
  <2>1. s \in Request
    BY SlotTypes DEF PC
  <2>2. SlotOK(s, users', consents', created') /\ (s.pc \notin Claims \/ s.parent = None)
    BY <1>1, <2>1, FieldsOf DEF SlotOK, Claims, Writes, SubmitConsent, tables
  <2>3. Keep(r, s) /\ UNCHANGED <<tables, created, answered, contested>>
    BY <1>1 DEF SubmitConsent
  <2> HIDE DEF s
  <2> QED BY <2>2, <2>3, QuietStep, TablesKept DEF IInv, tables
<1>2. CASE CheckDesignated(r)
  <2> DEFINE c == req[r].id
             p == req[r].parent
  <2>1. c \in users \intersect Children /\ p \in Parents
    BY <1>2, <1>s DEF CheckDesignated, At, SlotOK, IInv, TableTypes, Request
  <2>2. /\ UNCHANGED <<tables, created, answered>>
        /\ contested' = IF /\ ~ DesignatedOther(c, p)
                           /\ \E q \in Requests :
                                Claiming(q) /\ req[q].id = c /\ req[q].parent # p
                        THEN contested \union {c} ELSE contested
    BY <1>2 DEF CheckDesignated
  <2>3. TableTypes' /\ Announced' /\ UniqueActiveEmail'
    BY <2>1, <2>2 DEF IInv, tables, TableTypes, Announced, UniqueActiveEmail
  <2>4. CASE DesignatedOther(c, p)
    <3>1. Return(r) /\ UNCHANGED contested
      BY <1>2, <2>2, <2>4 DEF CheckDesignated
    <3> QED BY <2>2, <3>1, ReturnStep
  <2>5. CASE ~ DesignatedOther(c, p)
    <3> DEFINE pc == IF c \in consents /\ consentParent[c] = p THEN "verify" ELSE "linkUser"
               s == Slot(pc, c, req[r].email, p)
    <3>1. s \in Request
      BY SlotTypes DEF PC
    <3>2. Keep(r, s)
      BY <1>2, <2>5 DEF CheckDesignated, Goto
    <3>3. SlotOK(s, users', consents', created')
      BY <2>1, <2>2, <3>1, FieldsOf DEF SlotOK, Claims, Writes, tables
    <3>4. consentParent[c] \in {None, p}
      BY <2>5, <2>1 DEF DesignatedOther, IInv, AgreeInv
    <3>5. ASSUME c \notin contested'
          PROVE  /\ ClaimOK(s, consentParent[c], parentId[c])
                 /\ \A q \in Requests : Claimed(req[q], c) => req[q].parent = p
      <4>1. consentParent[c] # None => parentId[c] = consentParent[c]
        BY <2>1, <2>2, <3>5 DEF IInv, AgreeInv
      <4>2. ClaimOK(s, consentParent[c], parentId[c])
        BY <3>4, <4>1, <2>1, FieldsOf DEF ClaimOK
      <4>3. \A q \in Requests : Claimed(req[q], c) => req[q].parent = p
        BY <2>2, <2>5, <3>5 DEF Claiming, Claimed, Claims
      <4> QED BY <4>2, <4>3
    <3>6. s.id = c /\ s.parent = p
      BY FieldsOf
    <3> HIDE DEF s
    <3>7. /\ req' \in [Requests -> Request] /\ req'[r] = s /\ SlotInv'
          /\ \A q \in Requests : q # r => req'[q] = req[q]
      BY <2>2, <3>2, <3>3, Kept DEF tables
    <3>8. \A d \in Children \ contested' :
            Claimed(s, d) =>
              /\ ClaimOK(s, consentParent[d], parentId[d])
              /\ \A q \in Requests : Claimed(req[q], d) => req[q].parent = s.parent
      BY <3>5, <3>6 DEF Claimed
    <3>9. AgreeInv'
      BY <2>2, <3>7, <3>8, AgreeKept DEF tables
    <3> QED BY <2>3, <3>7, <3>9 DEF IInv
  <2> QED BY <2>4, <2>5
<1>3. CASE LinkUser(r)
  <2> DEFINE c == req[r].id
             p == req[r].parent
             s == Slot("linkConsent", c, req[r].email, p)
  <2>1. c \in users \intersect Children /\ p \in Parents /\ req[r].pc = "linkUser"
    BY <1>3, <1>s DEF LinkUser, At, SlotOK, IInv, TableTypes, Request, Claims
  <2>2. s \in Request
    BY SlotTypes DEF PC
  <2>3. /\ Keep(r, s)
        /\ parentId' = [parentId EXCEPT ![c] = p]
        /\ UNCHANGED <<users, email, deleted, consents, consentParent, verified,
                       connection, created, answered, contested>>
    BY <1>3 DEF LinkUser, Goto
  <2>4. SlotOK(s, users', consents', created')
    BY <2>1, <2>2, <2>3, FieldsOf DEF SlotOK, Claims, Writes
  <2>5. s.pc = "linkConsent" /\ s.id = c /\ s.parent = p
    BY FieldsOf
  <2> HIDE DEF s
  <2>6. /\ req' \in [Requests -> Request] /\ req'[r] = s /\ SlotInv'
        /\ \A q \in Requests : q # r => req'[q] = req[q]
    BY <2>3, <2>4, Kept
  <2>7. TableTypes' /\ Announced' /\ UniqueActiveEmail'
    BY <2>1, <2>3 DEF IInv, TableTypes, Announced, UniqueActiveEmail
  <2>8. /\ parentId'[c] = p
        /\ \A i \in Ids \ {c} : parentId'[i] = parentId[i]
    BY <2>1, <2>3 DEF IInv, TableTypes
  <2>9. c \notin contested => consentParent[c] \in {None, p}
    BY <2>1, ClaimFacts DEF Claims, ClaimOK
  <2>10. c \notin consents => consentParent[c] = None
    BY <2>1 DEF IInv, AgreeInv
  <2>11. AgreeInv'
    BY <2>1, <2>3, <2>5, <2>6, <2>8, <2>9, <2>10, ClaimStep DEF Claims
  <2> QED BY <2>6, <2>7, <2>11 DEF IInv
<1>4. CASE LinkConsent(r)
  <2> DEFINE c == req[r].id
             p == req[r].parent
             s == Slot("verify", c, req[r].email, p)
  <2>1. c \in users \intersect Children /\ p \in Parents /\ req[r].pc = "linkConsent"
    BY <1>4, <1>s DEF LinkConsent, At, SlotOK, IInv, TableTypes, Request, Claims
  <2>2. s \in Request
    BY SlotTypes DEF PC
  <2>3. /\ Keep(r, s)
        /\ consentParent' = [consentParent EXCEPT ![c] = IF c \in consents THEN p ELSE @]
        /\ UNCHANGED <<users, email, deleted, parentId, consents, verified,
                       connection, created, answered, contested>>
    BY <1>4 DEF LinkConsent, Goto
  <2>4. SlotOK(s, users', consents', created')
    BY <2>1, <2>2, <2>3, FieldsOf DEF SlotOK, Claims, Writes
  <2>5. s.pc = "verify" /\ s.id = c /\ s.parent = p
    BY FieldsOf
  <2> HIDE DEF s
  <2>6. /\ req' \in [Requests -> Request] /\ req'[r] = s /\ SlotInv'
        /\ \A q \in Requests : q # r => req'[q] = req[q]
    BY <2>3, <2>4, Kept
  <2>7. TableTypes' /\ Announced' /\ UniqueActiveEmail'
    BY <2>1, <2>3 DEF IInv, TableTypes, Announced, UniqueActiveEmail
  <2>8. /\ consentParent'[c] = IF c \in consents THEN p ELSE consentParent[c]
        /\ \A i \in Ids \ {c} : consentParent'[i] = consentParent[i]
    BY <2>1, <2>3 DEF IInv, TableTypes
  <2>9. c \notin contested => consentParent[c] \in {None, p} /\ parentId[c] = p
    BY <2>1, ClaimFacts DEF Claims, ClaimOK
  <2>10. c \notin consents => consentParent[c] = None
    BY <2>1 DEF IInv, AgreeInv
  <2>11. AgreeInv'
    BY <2>1, <2>3, <2>5, <2>6, <2>8, <2>9, <2>10, ClaimStep DEF Claims
  <2> QED BY <2>6, <2>7, <2>11 DEF IInv
<1>5. CASE UpdateConsentStatus(r)
  <2> DEFINE c == req[r].id
             p == req[r].parent
  <2>1. c \in users \intersect Children /\ p \in Parents \union {None} /\ req[r].pc = "verify"
    BY <1>5, <1>s DEF UpdateConsentStatus, At, SlotOK, IInv, TableTypes, Request, Claims
  <2>2. SlotOK(Idle, users', consents', created') /\ Idle.pc \notin Claims
    BY SlotTypes DEF Idle, Slot, Claims
  <2>3. /\ Keep(r, Idle)
        /\ verified' = verified \union ({c} \intersect consents)
        /\ consentParent' = [consentParent EXCEPT ![c] =
                               IF c \in consents /\ p # None THEN p ELSE @]
        /\ UNCHANGED <<users, email, deleted, parentId, consents, connection,
                       created, answered, contested>>
    BY <1>5 DEF UpdateConsentStatus, Return
  <2>4. /\ req' \in [Requests -> Request] /\ req'[r] = Idle /\ SlotInv'
        /\ \A q \in Requests : q # r => req'[q] = req[q]
    BY <2>2, <2>3, Kept
  <2>5. TableTypes' /\ Announced' /\ UniqueActiveEmail'
    BY <2>1, <2>3 DEF IInv, TableTypes, Announced, UniqueActiveEmail
  <2>6. CASE p = None
    <3>1. consentParent' = consentParent
      BY <2>1, <2>3, <2>6 DEF IInv, TableTypes
    <3> QED BY <2>2, <2>3, <2>5, <3>1, <2>6, QuietStep DEF IInv
  <2>7. CASE p # None
    <3>1. /\ consentParent'[c] = IF c \in consents THEN p ELSE consentParent[c]
          /\ \A i \in Ids \ {c} : consentParent'[i] = consentParent[i]
      BY <2>1, <2>3, <2>7 DEF IInv, TableTypes
    <3>2. c \notin contested => consentParent[c] \in {None, p} /\ parentId[c] = p
      BY <2>1, <2>7, ClaimFacts DEF Claims, ClaimOK
    <3>3. c \notin consents => consentParent[c] = None
      BY <2>1 DEF IInv, AgreeInv
    <3>4. AgreeInv'
      BY <2>1, <2>2, <2>3, <2>4, <2>7, <3>1, <3>2, <3>3, ClaimStep DEF Claims
    <3> QED BY <2>4, <2>5, <3>4 DEF IInv
  <2> QED BY <2>6, <2>7
<1> QED BY <1>1, <1>2, <1>3, <1>4, <1>5 DEF Consent

-----------------------------------------------------------------------------
LEMMA ProfileStep ==
  ASSUME IInv, NEW r \in Requests, Profile(r)
  PROVE  IInv'
<1> USE AccountsAssumption
<1>s. SlotOK(req[r], users, consents, created) /\ req[r] \in Request
  BY DEF IInv, SlotInv
<1>1. ASSUME NEW i \in Ids, ProfileRead(r, i) PROVE IInv'
  <2> DEFINE pc == IF Active(i) THEN "writeActive" ELSE "writeDeleted"
             s == Slot(pc, i, None, parentId[i])
  <2>1. parentId[i] \in Parents \union {None} /\ (i \notin Children => parentId[i] = None)
    BY DEF IInv, TableTypes, AgreeInv
  <2>2. s \in Request
    BY <2>1, SlotTypes DEF PC
  <2>3. SlotOK(s, users', consents', created') /\ s.pc \notin Claims
    BY <1>1, <2>1, <2>2, FieldsOf DEF SlotOK, Claims, Writes, ProfileRead, tables
  <2>4. Keep(r, s) /\ UNCHANGED <<tables, created, answered, contested>>
    BY <1>1 DEF ProfileRead
  <2> HIDE DEF s
  <2> QED BY <2>3, <2>4, QuietStep, TablesKept DEF IInv, tables
<1>2. CASE ProfileWrite(r)
  <2> DEFINE i == req[r].id
             p == req[r].parent
  <2>1. /\ i \in users /\ i \in Ids /\ p \in Parents \union {None}
        /\ i \notin Children => p = None /\ parentId[i] = None
    BY <1>2, <1>s DEF ProfileWrite, At, SlotOK, IInv, TableTypes, AgreeInv, Request, Writes
  <2>2. SlotOK(Idle, users', consents', created') /\ Idle.pc \notin Claims
    BY SlotTypes DEF Idle, Slot, Claims
  <2>3. /\ Keep(r, Idle)
        /\ deleted' = deleted \union {i} \/ (deleted' = deleted \ {i} /\ ~ EmailTaken(i, email[i]))
        /\ parentId' = [parentId EXCEPT ![i] = p]
        /\ contested' = IF parentId[i] # p THEN contested \union {i} ELSE contested
        /\ UNCHANGED <<users, email, consents, consentParent, verified, connection,
                       created, answered>>
    BY <1>2 DEF ProfileWrite, Return
  <2>4. /\ req' \in [Requests -> Request] /\ req'[r] = Idle /\ SlotInv'
        /\ \A q \in Requests : q # r => req'[q] = req[q]
    BY <2>2, <2>3, Kept
  <2>5. TableTypes'
    BY <2>1, <2>3 DEF IInv, TableTypes
  <2>6. Announced'
    BY <2>3 DEF IInv, Announced
  <2>7. UniqueActiveEmail'
    <3>1. \A j \in (users \ deleted) \ {i} : ~ EmailTaken(i, email[i]) => email[j] # email[i]
      BY DEF EmailTaken, findUserByEmail, IInv, TableTypes
    <3> QED BY <2>3, <3>1 DEF IInv, UniqueActiveEmail
  <2>8. AgreeInv'
    <3>1. \A d \in Ids : d \notin contested' \/ d \notin Children => parentId'[d] = parentId[d]
      BY <2>1, <2>3 DEF IInv, TableTypes
    <3>2. \A d, q : q \in Requests /\ Claimed(req'[q], d) => q # r
      BY <2>2, <2>4 DEF Claimed
    <3>3. contested \subseteq contested'
      BY <2>3
    <3> QED BY <2>3, <2>4, <3>1, <3>2, <3>3 DEF IInv, AgreeInv
  <2> QED BY <2>4, <2>5, <2>6, <2>7, <2>8 DEF IInv
<1>3. CASE ProfileWriteRefused(r)
  BY <1>3, ReturnStep DEF ProfileWriteRefused
<1> QED BY <1>1, <1>2, <1>3 DEF Profile

LEMMA DeletionStep ==
  ASSUME IInv, NEW i \in Ids, SoftDelete(i)
  PROVE  IInv'
BY DEF IInv, SoftDelete, TableTypes, SlotInv, Announced, UniqueActiveEmail, AgreeInv

LEMMA NextIInv == IInv /\ [Next]_vars => IInv'
<1> SUFFICES ASSUME IInv, [Next]_vars PROVE IInv'
  OBVIOUS
<1>1. CASE UNCHANGED vars
  BY <1>1 DEF vars, tables, IInv, TableTypes, SlotInv, Announced, UniqueActiveEmail, AgreeInv
<1>2. ASSUME NEW r \in Requests, Crash(r) PROVE IInv'
  BY <1>2, ReturnStep DEF Crash
<1> QED BY <1>1, <1>2, RegistrationStep, ConsentStep, ProfileStep, DeletionStep DEF Next

-----------------------------------------------------------------------------
(* A slot that writes no other parent for c. *)
Keeps(s, c, p) ==
  s.id = c /\ ((s.pc \in Claims /\ s.parent # None) \/ s.pc \in Writes) => s.parent = p

LEMMA LinkKept ==
  ASSUME IInv, NEW c \in Children, NEW p \in Parents, LinkedTo(c, p),
         NEW r \in Requests, NEW s, Keep(r, s), Keeps(s, c, p),
         consents \subseteq consents', parentId'[c] = p, consentParent'[c] = p
  PROVE  LinkedTo(c, p)'
<1>1. /\ req'[r] = s
      /\ \A q \in Requests : q # r => req'[q] = req[q]
  BY DEF IInv, Keep
<1>2. ASSUME NEW q \in Requests, req'[q].id = c,
             Claiming(q)' \/ req'[q].pc \in {"writeActive", "writeDeleted"}
      PROVE  req'[q].parent = p
  BY <1>1, <1>2 DEF LinkedTo, Keeps, Claiming, Claims, Writes
<1> QED BY <1>2 DEF LinkedTo

LEMMA LinkStep ==
  ASSUME IInv, [Next]_vars, NEW c \in Children, NEW p \in Parents, LinkedTo(c, p)
  PROVE  LinkedTo(c, p)'
<1> USE AccountsAssumption
<1>0. /\ c \in consents /\ parentId[c] = p /\ consentParent[c] = p /\ p # None
      /\ \A q \in Requests : Keeps(req[q], c, p)
  BY DEF LinkedTo, Keeps, Claiming, Claims, Writes
<1>1. ASSUME NEW r \in Requests, Return(r), UNCHANGED <<consents, parentId, consentParent>>
      PROVE  LinkedTo(c, p)'
  <2>1. Keeps(Idle, c, p)
    BY DEF Keeps, Idle, Slot, Claims, Writes
  <2> QED BY <1>0, <1>1, <2>1, LinkKept DEF Return
<1>2. ASSUME NEW r \in Requests, NEW pc \in PC \ (Claims \union Writes), Goto(r, pc),
             consents \subseteq consents', UNCHANGED <<parentId, consentParent>>
      PROVE  LinkedTo(c, p)'
  <2> DEFINE s == Slot(pc, req[r].id, req[r].email, req[r].parent)
  <2>1. Keeps(s, c, p) /\ Keep(r, s)
    BY <1>2, FieldsOf DEF Keeps, Goto
  <2> HIDE DEF s
  <2> QED BY <1>0, <1>2, <2>1, LinkKept
<1>3. ASSUME NEW r \in Requests, NEW pc \in PC, NEW i, NEW e, NEW m,
             Keep(r, Slot(pc, i, e, m)),
             pc \notin Claims \union Writes \/ (pc \in Claims /\ m = None)
               \/ (pc \in Writes /\ m = parentId[i]),
             UNCHANGED <<consents, parentId, consentParent>>
      PROVE  LinkedTo(c, p)'
  <2> DEFINE s == Slot(pc, i, e, m)
  <2>1. Keeps(s, c, p)
    BY <1>0, <1>3, FieldsOf DEF Keeps, Claims, Writes
  <2> HIDE DEF s
  <2> QED BY <1>0, <1>3, <2>1, LinkKept DEF s
<1>4. ASSUME NEW r \in Requests, Registration(r) PROVE LinkedTo(c, p)'
  <2>1. CASE \E i \in Ids, e \in Emails : Register(r, i, e) \/ GoogleOAuth(r, i, e)
    BY <1>3, <2>1 DEF Register, GoogleOAuth, tables, PC, Claims, Writes
  <2>2. CASE CreateUser(r)
    BY <1>2, <2>2 DEF CreateUser, AfterInsert, PC, Claims, Writes
  <2>3. CASE CreateUserRefused(r) \/ Reply(r)
    BY <1>1, <2>3 DEF CreateUserRefused, Reply, tables
  <2>4. CASE CreateConsent(r)
    BY <1>2, <2>4 DEF CreateConsent, PC, Claims, Writes
  <2>5. CASE CreateOAuthConnection(r)
    BY <1>2, <2>5 DEF CreateOAuthConnection, PC, Claims, Writes
  <2>6. CASE PublishCreated(r)
    BY <1>2, <2>6 DEF PublishCreated, tables, PC, Claims, Writes
  <2> QED BY <1>4, <2>1, <2>2, <2>3, <2>4, <2>5, <2>6 DEF Registration
<1>5. ASSUME NEW r \in Requests, Consent(r) PROVE LinkedTo(c, p)'
  <2> DEFINE d == req[r].id
             q == req[r].parent
  <2>0. /\ d \in Ids \/ At(r, "idle")
        /\ Keeps(req[r], c, p)
        /\ parentId \in [Ids -> Parents \union {None}]
        /\ consentParent \in [Ids -> Parents \union {None}]
    BY <1>0 DEF IInv, SlotInv, SlotOK, TableTypes, At
  <2>1. CASE \E d2 \in Children, m \in Parents \union {None} : SubmitConsent(r, d2, m)
    BY <1>3, <2>1 DEF SubmitConsent, tables, PC, Claims, Writes
  <2>2. CASE CheckDesignated(r)
    <3>1. UNCHANGED <<consents, parentId, consentParent>>
      BY <2>2 DEF CheckDesignated, tables
    <3>2. CASE DesignatedOther(d, q)
      BY <1>1, <2>2, <3>1, <3>2 DEF CheckDesignated
    <3>3. CASE ~ DesignatedOther(d, q)
      <4> DEFINE pc == IF d \in consents /\ consentParent[d] = q THEN "verify" ELSE "linkUser"
                 s == Slot(pc, d, req[r].email, q)
      <4>1. Keep(r, s)
        BY <2>2, <3>3 DEF CheckDesignated, Goto
      <4>2. d = c => q = p
        BY <1>0, <3>3 DEF DesignatedOther
      <4>3. Keeps(s, c, p)
        BY <4>2, FieldsOf DEF Keeps
      <4> HIDE DEF s
      <4> QED BY <1>0, <3>1, <4>1, <4>3, LinkKept
    <3> QED BY <3>2, <3>3
  <2>3. CASE LinkUser(r)
    <3> DEFINE s == Slot("linkConsent", d, req[r].email, q)
    <3>1. /\ Keep(r, s) /\ req[r].pc = "linkUser" /\ d \in Ids /\ q # None
          /\ parentId' = [parentId EXCEPT ![d] = q]
          /\ UNCHANGED <<consents, consentParent>>
      BY <2>3 DEF LinkUser, Goto, At, IInv, SlotInv, SlotOK
    <3>2. d = c => q = p
      BY <1>0, <3>1 DEF Keeps, Claims
    <3>3. Keeps(s, c, p)
      BY <3>2, FieldsOf DEF Keeps
    <3>4. parentId'[c] = p
      BY <1>0, <2>0, <3>1, <3>2
    <3> HIDE DEF s
    <3> QED BY <1>0, <3>1, <3>3, <3>4, LinkKept
  <2>4. CASE LinkConsent(r)
    <3> DEFINE s == Slot("verify", d, req[r].email, q)
    <3>1. /\ Keep(r, s) /\ req[r].pc = "linkConsent" /\ d \in Ids /\ q # None
          /\ consentParent' = [consentParent EXCEPT ![d] = IF d \in consents THEN q ELSE @]
          /\ UNCHANGED <<consents, parentId>>
      BY <2>4 DEF LinkConsent, Goto, At, IInv, SlotInv, SlotOK
    <3>2. d = c => q = p
      BY <1>0, <3>1 DEF Keeps, Claims
    <3>3. Keeps(s, c, p)
      BY <3>2, FieldsOf DEF Keeps
    <3>4. consentParent'[c] = p
      BY <1>0, <2>0, <3>1, <3>2
    <3> HIDE DEF s
    <3> QED BY <1>0, <3>1, <3>3, <3>4, LinkKept
  <2>5. CASE UpdateConsentStatus(r)
    <3>1. /\ Keep(r, Idle) /\ req[r].pc = "verify"
          /\ consentParent' = [consentParent EXCEPT ![d] =
                                  IF d \in consents /\ q # None THEN q ELSE @]
          /\ UNCHANGED <<consents, parentId>>
      BY <2>5 DEF UpdateConsentStatus, Return, At
    <3>2. d = c /\ q # None => q = p
      BY <1>0, <3>1 DEF Keeps, Claims
    <3>3. Keeps(Idle, c, p)
      BY DEF Keeps, Idle, Slot, Claims, Writes
    <3>4. consentParent'[c] = p
      BY <1>0, <2>0, <3>1, <3>2
    <3> QED BY <1>0, <3>1, <3>3, <3>4, LinkKept
  <2> QED BY <1>5, <2>1, <2>2, <2>3, <2>4, <2>5 DEF Consent
<1>6. ASSUME NEW r \in Requests, Profile(r) PROVE LinkedTo(c, p)'
  <2>1. CASE \E i \in Ids : ProfileRead(r, i)
    BY <1>3, <2>1 DEF ProfileRead, tables, PC, Claims, Writes
  <2>2. CASE ProfileWrite(r)
    <3> DEFINE i == req[r].id
    <3>1. /\ Keep(r, Idle) /\ req[r].pc \in Writes /\ i \in Ids
          /\ parentId' = [parentId EXCEPT ![i] = req[r].parent]
          /\ UNCHANGED <<consents, consentParent>>
      BY <2>2 DEF ProfileWrite, Return, At, Writes, IInv, SlotInv, SlotOK
    <3>2. i = c => req[r].parent = p
      BY <1>0, <3>1 DEF Keeps
    <3>3. Keeps(Idle, c, p)
      BY DEF Keeps, Idle, Slot, Claims, Writes
    <3>4. parentId'[c] = p
      BY <1>0, <3>1, <3>2 DEF IInv, TableTypes
    <3> QED BY <1>0, <3>1, <3>3, <3>4, LinkKept
  <2>3. CASE ProfileWriteRefused(r)
    BY <1>1, <2>3 DEF ProfileWriteRefused, tables
  <2> QED BY <1>6, <2>1, <2>2, <2>3 DEF Profile
<1>7. ASSUME NEW r \in Requests, Crash(r) PROVE LinkedTo(c, p)'
  BY <1>1, <1>7 DEF Crash, tables
<1>8. ASSUME NEW i \in Ids, SoftDelete(i) PROVE LinkedTo(c, p)'
  BY <1>8 DEF SoftDelete, LinkedTo, Claiming
<1>9. CASE UNCHANGED vars
  BY <1>9 DEF vars, tables, LinkedTo, Claiming
<1> QED BY <1>4, <1>5, <1>6, <1>7, <1>8, <1>9 DEF Next

-----------------------------------------------------------------------------
(* The inductive invariant holds in every behaviour.                       *)
THEOREM Inductive == Spec => []IInv
BY InitIInv, NextIInv, PTL DEF Spec

(* The type invariant holds in every behaviour.                            *)
THEOREM TypeCorrect == Spec => []TypeOK
BY Inductive, IInvImplies, PTL

(* No interleaving of registrations and profile updates gives an address   *)
(* two active accounts (auth-service.ts:89, V1__initial_schema.sql:81).    *)
THEOREM OneAccountPerAddress == Spec => []UniqueActiveEmail
<1>1. IInv => UniqueActiveEmail
  BY DEF IInv
<1> QED BY <1>1, Inductive, PTL

(* What registration announced or answered is complete, wherever it broke  *)
(* off (auth-service.ts:112-139).                                          *)
THEOREM AnnouncedIsComplete == Spec => []AnnouncedHasConsent
BY Inductive, IInvImplies, PTL

(* The tables that name a child's parent agree unless two parents claimed  *)
(* the child at once or a stale row was written back (auth-service.ts:383).*)
THEOREM ParentsAgree == Spec => []ParentTablesAgree
BY Inductive, IInvImplies, PTL

(* A link that is made in both tables is never changed                     *)
(* (auth-service.ts:380-397).                                              *)
THEOREM LinkStays == Spec => LinkIsFinal
<1>1. IInv /\ [Next]_vars =>
        [\A c \in Children, p \in Parents : LinkedTo(c, p) => LinkedTo(c, p)']_vars
  BY LinkStep
<1> QED BY <1>1, Inductive, PTL DEF Spec, LinkIsFinal

=============================================================================
