# LitPlay in TLA+

LitPlay is a reading game for children: a React Native app with an embedded
Unity scene, and a handful of services behind a gateway.  This directory holds
TLA+ models of the parts of it where several actors meet (requests on one
database row, two flushes of one queue, an app and a scene on two sides of a
lossy channel, a publisher and a consumer of one log, a token and the rows it
was made from), the TLC configurations that check them, and TLAPS proofs of
their invariants.  `PROJECT.json` lists the runs, the theorems, the source lines
of every definition, the hazards the properties are for and, for each property,
a plausible slip in the code that makes TLC find it violated.

Paths below are relative to `src/`.

- [1. The system](#1-the-system)
- [2. The modules](#2-the-modules)
- [3. What the runs show](#3-what-the-runs-show)
- [4. Where the code and its documents disagree](#4-where-the-code-and-its-documents-disagree)
- [5. What is proved](#5-what-is-proved)
- [6. What is left out](#6-what-is-left-out)
- [7. Plan](#7-plan)

To check everything by hand, in this directory: `tlc -config <cfg> <module>`
with the pairs of section 3, and `tlapm <module>` for the proof modules of section
5.

## 1. The system

| component | state | operations | hard parts | what makes it correct |
|---|---|---|---|---|
| auth-service, sessions (`services/auth-service`) | users, refresh tokens with families, reset links (PostgreSQL) | login, googleOAuth, refreshSession, logout, password reset, deleteAccount, updateProfile | every handler is a sequence of independent statements: two refreshes of one token, a deletion during a login, a crash inside a reset | a family has one live token unless one was rotated twice; what escapes the answer to a reused token or a reset was under way; a deleted or signed-out account gets no session; no password session of a child before consent |
| auth-service, accounts | users, parental consents, OAuth connections | register, googleOAuth of a new account, submitConsent | two registrations of one address, two parents of one child, a crash between a user, its consent and its event, the parent kept in two tables | one active account per address; what is announced is complete; both tables name one parent; a settled link stays |
| access to student data (`packages/server-kit`, routes) | the claims in an access token | issueTokens, requireAuth, canAccessStudent, the dashboard's own check | claims are copied once and live 15 minutes; links, deletions and memberships change meanwhile | nobody sees a student long after the scope ended, nobody waits long for a new one |
| offline queue of the app (`mobile/src/offline`) | SQLite table `sync_queue`, or an MMKV list when SQLite does not open | enqueue, purgeExpired, flushQueue | `flushQueue` has no guard against itself; requests whose answer is lost; a kill between answer and deletion; partial failures in a batch | no item is lost; every item settles |
| progress-service (`services/progress-service`) | sessions, gate attempts, one fluency record per student; events | createSession, updateSession, recordGateAttempt, batchSync, recomputeFluency | read-modify-write over several queries, duplicates from the offline queue, crashes between a row and its event | what is answered is stored; events follow rows; a repeated attempt is silent |
| Unity bridge (`mobile/src/unity`, `mobile/unity/.../Bridge`) | pending acknowledgements, retry timers, message copies | sendToUnity, handleMessageFromUnity, Dispatch | lost and late acknowledgements, copies that arrive twice, a timer against an answer | a resolved call was executed, every call settles, executions are bounded |
| reading gate (`GateController.cs`, `mobile/src/hooks/use-asr.ts`) | current gate, prompts, results | TriggerGate, handleGateTriggered, validate, OnAsrResult | results that come twice or for another gate | a gate is cleared by reading |
| session store of the app (`mobile/src/stores/app-store.ts`, `services/api.ts`) | access token in memory, refresh token in MMKV, background timer | onAppBackground, onAppForeground, refreshTokens | a timer that is overwritten without being cleared, refreshes that overlap, an answer that is lost after the token was rotated | the app is signed out, and its token dead, only when it should be |
| classroom-service | classrooms, members, join codes, goals | createClassroom, generateJoinCode, joinClassroom, removeMember, deleteClassroom, setGoal, getClassroomProgress | check and insert apart, a code compared in the route and looked up in the service, a crash before the event | a student joins the room asked for unless its code is replaced meanwhile, one event per stay, a deleted room admits nobody (the code knows no capacity) |
| event bus and content-service (`server-kit/src/eventbus.ts`, `assignContent`) | rows of assignments, one cached Kafka connection | publish after the row | a connection shared while it is being made, and failing | every request is answered |
| notification-service | notifications; a Kafka consumer and its offsets | handleEvent, send, quiet hours | redelivered messages, sent before saved, a group without committed offset | nothing lost behind the commits, every duplicate has a cause on one of the two sides |
| asr-service | none | validate: route, transcribe, score, classify | a provider that fails or is slow | every reading that can be is transcribed |
| analytics-service | write buffers, ClickHouse; a Kafka consumer | handleEvent, flush | auto-commit against a failing store | no event lost while the process lives |
| rate limiter of server-kit | windows in memory or Redis | onRequest | INCR and PEXPIRE apart, the failover to memory | a limit holds per window |

How they interact.  The app holds a token pair of auth-service and shows it to
every service; the auth plugin of server-kit checks the access token and, from
its claims, whose data it opens.  The scene asks the app for a reading over the
bridge; the app asks asr-service, or the device, and sends the result back;
attempts and sessions go to progress-service at once or, when the app is
offline, through the queue and the batch-sync route.  auth-service,
content-service, classroom-service and progress-service publish events on Kafka;
analytics-service and notification-service consume them.

## 2. The modules

| module | what it is |
|---|---|
| `TokenForest` | abstract: refresh tokens are a forest in which only dead tokens have children and nothing revives |
| `AuthTokens` | sessions, resets and deletion of auth-service; implements `TokenForest` |
| `Accounts` | registration, consent and the link between parent and child |
| `Access` | claims in access tokens, the checks made from them, and the dashboard, against the rows as they change |
| `Outbox` | abstract: an item is held until it is delivered or too old |
| `SyncQueue` | the offline queue of the app and what its server stores; implements `Outbox` |
| `ProgressSync` | progress-service |
| `AtLeastOnce` | abstract: an acknowledged call |
| `UnityBridge` | `sendToUnity`, its timers and the Unity side; implements `AtLeastOnce` |
| `ReadingGate` | the gate, the app's gate handler and `useASR` composed with `UnityBridge` (EXTENDS: every step of the gate is a step of the bridge or leaves it alone) |
| `MobileSession` | lifecycle, timer and refreshes of the app, composed with the steps of `refreshSession` |
| `Classroom` | classroom-service |
| `EventDelivery` | a row, its event on the shared Kafka connection, the consumer and its offsets, and the notifications |
| `AsrRouting` | one reading on its way through `validate` of the app and of asr-service |
| `MC*` | the values TLC gives to the constants (`EventDelivery` and `AsrRouting` are run as they are) |
| `*Proofs` | theorems and proofs |

**One step per await.**  In `AuthTokens`, `Accounts`, `Classroom`, `Access` and
`ProgressSync` a request is a slot of `req`: the step it will take next and what
the handler keeps in its local variables.  Each `await` on a repository call
ends a step, so that the statements of overlapping requests interleave the way
the database sees them; statements between two awaits belong to one step.
`Crash` (`Break` in `Access`) empties a slot at any await, for a process that
stops and for a repository call that rejects alike.  `SyncQueue` does the same
for flushes of the queue, with `Crash` for all of them since they live in one
app.  The JavaScript of the bridge has no await inside its callbacks, so each
callback is one action of `UnityBridge`.  Requests that fail before they change
anything are not actions.

**AuthTokens.**  `issued`, `revoked` and `row` are the table `refresh_tokens`;
`row[t].family` is `token_family`, while `pred`, `since` and `via` are history
(the token it replaced, the password version and the way its session was
opened).  A family is named by its first token.  Passwords are version numbers.
`refreshSession` is `RefreshFind` (the row and its checks), `RefreshReuse` or
`RefreshRotate` and `RefreshOwner`, then `IssueTokens`; `login` is `LoginFind`,
`LoginConsent`, `IssueTokens`; `confirmPasswordReset` has five steps.  Four more
variables are history: `burnt` are the families for which reuse was answered,
`halfway` the accounts with a reset that broke off between the new password and
the revocation, and `lateReq` and `lateTok` say of a request, and of a token, the
sweeps (the answer to a reuse, the revocation of a reset) that ran while that
request, or one the token stems from, was already under way.

**Accounts.**  `register` is `Register`, `CreateUser`, for a child
`CreateConsent`, then `PublishCreated` and `Reply`; the new-account branch of
`googleOAuth` inserts the connection instead.  `submitConsent` is
`SubmitConsent`, `CheckDesignated`, the two statements of `linkParentToChild`
(`LinkUser`, `LinkConsent`) and `UpdateConsentStatus`.  `users.parent_id` and
`parental_consents.parent_id` are two variables, since the code keeps the parent
twice.  The partial unique index on the address is `EmailTaken`.

**Access.**  Time passes in ticks, and a token counts the ticks it has left.
`IssueTokens` is the query whose answer becomes `childIds`, `SignAccessToken`
the signature; the four reading routes check the claims and answer later;
`Dashboard`, `ListMembers` and `GetStudentsFluency` are the three awaits of the
teacher's dashboard.  The rows change by one action per statement that changes
them.  `watched` is a pair chosen at the start, the only one whose scope is
timed: as it is any pair, what holds of it holds of all.

**SyncQueue.**  `row` is the table, `stored` what the server holds, `net` the
sessions of requests the app gave up on and the server may still process.  A
flush goes through list, send, wait, and settles the batch after an answer
(`settle`), a 4xx (`park`) or anything else (`retry`), one row per step.  The
constant `Fallback` chooses the MMKV list, whose `listSyncItems('pending')`
hands out dead items too.  Whatever the server does with one session before the
answer is one step (`ServerStores`, `ServerFails`).

**ProgressSync.**  `status` and `words` are the rows of `sessions`; `fluency` is
the record of one student, as the set of sessions (with their words) and
attempts it was computed from rather than as averages.  `recorded` and
`completed` count the events.

**UnityBridge / ReadingGate.**  A message is one call of `sendToUnity`; its
copies on the way are counted.  `Transport` is what happens by itself: timers,
acknowledgements, losses.  A run of `handleGateTriggered` is named after the
message it will send.  Two actions stand for callers that are not in the
repository and are marked so: who calls `TriggerGate` (the scene sequencer is a
stub) and what lets the child read again after a retry prompt.

**MobileSession.**  A refresh is a call whose request and answer travel; the
server's find, revoke and issue are steps of their own, as in `AuthTokens`.
`strays` are timers that are still running but that `backgroundTimer` no longer
names; `mishap` is history.

**Classroom.**  A room is `rooms` from its insert, `answered` once its teacher
knows its id, `deleted` when `deleted_at` is set.  A join is six steps: the
room's code, the comparison, the lookup by code, the duplicate check, the
insert, the event.  `balance` counts inserts less events of a pair.  A new
code may be any code, one that was given up included; the index refuses one that
another room has.  `outdated` is history: the joins between the two reads of
the code whose room was given another one.

**EventDelivery.**  `pub[e]` is the request that saves a row and publishes its
event, `bus` the cached `producerPromise`, `lost[e]` how often the broker took an
event and the answer never came.  `log` holds the messages of all topics in the
order the broker took them; `position` and `committed` have a value per topic,
the number of the last message of the topic that was handled, or passed over,
and committed.  A topic without an offset is started at its end whatever the
others committed.  `task` is the message in the consumer's hands, `mailed` how
often each message made each notification leave.  The two events of the run share one
publishing process, so that both may wait for one connection.

**AsrRouting.**  `queue` and `asked` are the providers still to try and tried;
a transcript is its score.

## 3. What the runs show

| run | module, cfg | shows |
|---|---|---|
| auth_overlap | `MCAuthTokens`, `AuthOverlap` | two overlapping requests over four tokens: a family has two live tokens only when one token was rotated twice, a dead family stays dead, password sessions of a child follow consent, a signed-out account returns only by a login, a deleted account gets no token, `TokenForest` is implemented |
| auth_resets | `MCAuthTokens`, `AuthResets` | two overlapping requests, password resets and crashes included, over three tokens and a link: what lives on in a family whose reuse was answered was under way at that moment, and so was every live session of an old password when a reset revoked, unless a reset broke off half-way |
| accounts | `MCAccounts`, `Accounts` | a child, another account, two parents, two overlapping requests: one active account per address, complete announcements, the two tables agree on the parent, settled links stay |
| access | `MCAccess`, `Access` | a parent, two children and a teacher: no answer shows a student whose scope ended longer ago than a token and two requests last (one request for the dashboard), and every valid token opens a child that has been in scope for longer than that |
| sync_overlap | `MCSyncQueue`, `SyncQueueOverlap` | two overlapping flushes of the MMKV list, one outage or kill: `Outbox` is implemented, so no item leaves the queue that was neither delivered nor too old |
| sync_serial | `MCSyncQueue`, `SyncQueueSerial` | SQLite, three items in batches of two, one outage or kill: a flush that was started ends with every item it listed settled unless a request broke off or the app was killed, and lets go of no item it has not settled |
| progress_overlap | `MCProgressSync`, `ProgressOverlap` | a PATCH, an attempt and a batch overlapping: answers are durable, events follow rows, fluency counts real work, a settled attempt is silent |
| bridge_gate | `MCReadingGate`, `ReadingGateRuns` | two readings of a scene of two gates: timers match promises, gates need a PASS that was sent, every promise settles, `AtLeastOnce` is implemented |
| classroom | `MCClassroom`, `Classroom` | two rooms, three codes, two overlapping requests: students land in the room asked for unless its code was replaced between the two reads of it, one event per stay, deleted rooms stay closed |
| delivery | `EventDelivery`, `EventDelivery` | a registration and an assignment over a failing connection to a consumer that breaks off twice: nothing is lost behind the commits, a notification leaves at most once for each time the broker took its event and once more per break, every request is answered, every message handled in the end |
| mobile_session | `MCMobileSession`, `MobileSession` | lifecycle events in any order against a lossy network: the stored token dies only after a lost answer, a broken handler or overlapping refreshes, and no timer signs out an app in the foreground |
| asr_failover | `AsrRouting`, `AsrFailover` | violates the documented failover: section 4 |

**What overlap breaks, and what it does not.**  Single use, reuse detection,
forced re-login and single-use reset links are what the documents promise
without condition, and the code breaks each of them when requests overlap or
break off (section 4).  No run leaves those behaviours out.  The properties say
instead what remains true in all of them, and thereby what exactly is broken:
`OneLiveUnlessForked` that only the double rotation of one token makes two live
tokens; `BurntUnlessOvertaken` that a family whose reuse was answered keeps only
tokens of rotations that were under way at that moment; `OldSessionsExplained`
that a session of an old password stems from a login or refresh the reset
overtook, or that a reset is between the new password and the revocation, or
broke off there.  Of a reset link nothing remains that is worth a property: the
check and the mark are three awaits apart and nothing in between looks again.
`Accounts`, `Classroom` and `MobileSession` say the same in one property each:
the exceptions (`contested`, `uneven`, `outdated`, `mishap`) are histories of
exactly the overlap or the loss that the promise does not survive, and the
property shows that there is no other.

The runs of `AuthTokens` and `Classroom` have a `VIEW` each: it drops the
histories and the fields of a row that no property of the run and no guard
reads, so that states that differ in nothing else are explored once.

**Bounds.**  Two requests are enough for every race found in these handlers:
each is a check by one request and a write by another in between; a third
request adds no new pair of statements, and the theorems of section 5 hold for
any number.  Four tokens give a family a root, a fork and a child of one branch,
or two sessions of one account; three are a session, its replacement and one more
after a sweep.  One reset link is enough, since two confirmations may hold it at
once and a crash may leave it unmarked; `MaxPassword` stops resets from starting
once the password was changed that often (a reset under way may pass it by as
many as there are slots).  Two accounts and two addresses let an address be taken, freed by a
deletion and taken again while its old owner is restored; two parents are the
two claims of one child.  Two rooms and three codes let a code be given up and
drawn for the other room while a join that compared it is under way.  Two items
and two flushes give every race over one row and over two; three items in batches
of two give a full and a short batch.  `MaxOutages` bounds broken requests and kills together.  Two sessions, one of
each kind, and one attempt of each make each operation meet each other one on
one row and on different rows.  Two gates and two readings give a copy that
arrives after its gate was cleared; the bridge has its real
`BRIDGE_MAX_RETRIES`.  A retry count of 1 and of 0 gives both prompts.  Five
tokens and two calls let a rotation, a second one and an overlapping one meet in
one family; `MaxTimers` is two because a third stray timer fires like the
second.  In `EventDelivery` the producer resends only while the log is shorter
than `MaxLog`, and `MaxAborts` lets the consumer break off once with a message in
its hands and once more while it handles the message again.

In `Access` one slot for a token and one for a request suffice, because a token
does not depend on other tokens and a read comes after the signature of its
token; the chain query, late signature, full life, late answer is in the
instance, and TLC finds each bound exact: with one tick less, each property
fails.  `TTL` is one tick, which makes a tick the 15 minutes of a token and the
assumption that a request takes less than a tick a mild one; the code has no
timeout of its own.  With a longer
`TTL` (two was tried) nothing changes but the size.

Symmetry is used on requests, flushes, parents, addresses, rooms, tokens and the
like only where the cfg names it, and not with liveness.

**Fairness.**  `SyncQueue!FairSpec`: weak fairness of the steps of a flush that
was started (`Progress`), because its code runs on and `fetch` answers or
rejects; that a flush is started is not assumed, and a broken request is no part
of `Progress`.  Nothing in the repository calls `flushQueue`: the comment at
`mobile/src/offline/sync-queue.ts:77` says it is called on reconnect, and a 5xx
without a disconnect would not lead to another call even then.  So
`EveryFlushSettles` is about one flush, and that every item settles in the end
is claimed of no run.
`ReadingGate!FairGateSpec`: weak fairness of the timers alone, because `setTimeout`
fires; nothing is assumed of Unity, of acknowledgements or of the child, so
`EverySendSettles` holds even if Unity never answers.  `EventDelivery!Fairness`:
a connection attempt ends one way or the other, a send is answered (not
necessarily with success), and the consumer's handler runs on and is started
again after a stop; commits, resends, restarts and failures are free.

**Deadlock** is checked everywhere but where the system really stops: in the
gate's run, since a lost `GATE_TRIGGERED` is never sent again and a validation
that throws leaves the child at the gate; in the classroom run, when creations
that broke off have used up the rooms; and in the delivery run, when everything
is published and handled.

## 4. Where the code and its documents disagree

- **asr_failover** ends in TLC's counterexample: the branch of
  `route_and_transcribe` that handles a slow Whisper reads an
  attribute that `Settings` does not have, so the request ends in an error and
  Azure, which the header of the file names as the next provider, is not asked.
  The comparison comes after every transcript of Whisper, so a quick one ends in
  the same error; a Whisper that is unavailable does hand over to Azure.

These were met while modelling, follow from the same models, and have no run of
their own.

- *Rotation is not single use.*  `refreshSession` reads `revoked_at` in one query
  and revokes in a later, unconditional one: two overlapping refreshes of one
  token are both answered with a live token (`litplaymasterdoc.md:1006` says
  "single-use (rotated on every use)").  What still holds is
  `OneLiveUnlessForked`.
- *Reuse does not always end the family.*  "On suspicious refresh token reuse,
  entire token family is revoked" (`litplaymasterdoc.md:1007`): a rotation that
  is between its read and its insert when the family is revoked inserts a live
  token afterwards.  What still holds is `BurntUnlessOvertaken`.
- *A deletion may be undone.*  `updateUser` writes the whole row it read a query
  earlier, `deleted_at` and `parent_id` included: a profile update that overlaps
  a deletion restores the account, although `user.deleted` was published
  (`litplaymasterdoc.md:1038`).  What still holds is `GoneIssuesNothing`,
  `UniqueActiveEmail` and `LinkIsFinal`.
- *Consent is not asked of Google sessions.*  `googleOAuth` gives an existing
  account tokens without looking at its consent, unlike `login`.
- *A reset does not sign out everywhere.*  `auth-service.ts:297` says "force
  re-login everywhere": a login or refresh that checked the old password or
  token before the reset revoked inserts its token afterwards, and a reset that
  stops between the new password and the revocation revokes nothing.  What still
  holds is `OldSessionsExplained`.
- *Reset links are not single use.*  `auth-service.ts:273` says "single-use": two
  confirmations that hold one link both succeed, and one that stops after the
  new password and before the mark leaves the link to be used again.
- *Two parents.*  Two parents who submit consent for an unlinked child both
  succeed, and may stay the parent in one table each.  A crash between a child
  and its pending consent leaves a child whose consent can be submitted, which
  links the parent, but never verified.
- *Dashboards outlive accounts.*  The members of a room are not told of a
  deleted account: a dashboard goes on showing its fluency, and its teacher's
  scope in `Access` ends only with the membership or the room.
- *Re-sent batches.*  The upsert of a re-sent batch overwrites a session that was
  changed since, although a comment (`progress-service.ts:206`) calls it a no-op.
  A fluency record computed from an older read may overwrite a newer one; a crash
  between an attempt and its event loses the event for good, since the repeated
  request returns early; two overlapping requests with one attempt id both
  publish.  `slice(-5)` of a list in descending order averages the oldest five
  sessions.
- *Offline queue.*  A dead row is made pending again by an overlapping flush
  that breaks off; on the MMKV list dead items are sent in every flush; nothing
  calls `flushQueue` (`sync-queue.ts:77` says "Called by the sync service on
  reconnect") nor `backoffDelay`.
- *Bridge and gate.*  The first timeout of `sendToUnity` forgets the pending
  acknowledgement and no retry puts it back: an acknowledgement of a retry is
  ignored, and the promise rejects although Unity handled the message.  Each copy
  of a PASS clears a gate, whatever gate it was about; and the app always sends
  attempt number 1, so the retries of FR-005 never run out for a gate that has
  any.
- *App sessions.*  A refresh whose answer is lost, or that overlaps another one,
  strands the app with a dead token; a second background event without a
  foreground one leaves a timer running that signs the app out in the foreground.
- *Classrooms.*  The route compares the code with the room's and the service
  looks the code up again: when the room is given a new code in between and
  another room draws the old one, the student joins that other room.  What still
  holds is `AdmittedWhereAsked`.  A crash in `createClassroom` leaves a room nobody can use; one
  before `member.joined` makes the repeated join a duplicate without an event.
- *Delivery.*  A connection that was refused is refused for good: the rejected
  `producerPromise` stays cached (`eventbus.ts:44`), so every later publish of
  the process fails until it restarts.  A topic without a committed offset is
  started at its end, so what was published before is never announced.  A
  message the producer appended twice, or the consumer was handed again, mails
  its notification again, and a dispatch that failed is saved as failed and not
  tried again.

## 5. What is proved

For every value of the constants (any number of accounts, tokens, requests,
items, flushes, sessions, attempts, messages, gates, rooms, events), under the
assumption named in each module, which only give the constants their types and
keep the null values apart.

| proofs | theorem | property |
|---|---|---|
| `AuthTokensProofs` | TypeCorrect, RotationRevokes, ConsentFirst, ForkIsTheOnlyBreach, DeadFamily, OnlyLoginSignsIn, DeletedAccountIsBarren, ImplementsTokenForest, ReuseSparesOnlyTheOvertaken, ResetSparesOnlyTheOvertaken | `TypeOK`, `PredecessorRevoked`, `PasswordSessionNeedsConsent`, `OneLiveUnlessForked`, `DeadFamilyStaysDead`, `SignedOutUntilLogin`, `GoneIssuesNothing`, `ForestSpec`, `BurntUnlessOvertaken`, `OldSessionsExplained` |
| `AccountsProofs` | TypeCorrect, OneAccountPerAddress, AnnouncedIsComplete, ParentsAgree, LinkStays | `TypeOK`, `UniqueActiveEmail`, `AnnouncedHasConsent`, `ParentTablesAgree`, `LinkIsFinal` |
| `ClassroomProofs` | TypeCorrect, JoinsWhereAsked, EventPerStay, ClosedForGood | `TypeOK`, `AdmittedWhereAsked`, `EventsMatchStays`, `ClosedRoomIsClosed` |
| `EventDeliveryProofs` | TypeCorrect, NothingBehindTheCommit, MailsAreAccountedFor, WaitersAreServed | `TypeOK`, `CommittedIsHandled`, `DuplicatesHaveACause`, - |
| `AccessProofs` | TypeCorrect, SightIsBounded, SightArrives | `TypeOK`, `SightFollowsScope`, `SightReachesScope` |
| `SyncQueueProofs` | NoItemIsLost, ImplementsOutbox, NoItemIsSkipped | `NothingLost`, `OutboxSpec`, `ListedIsSettled` |
| `ProgressSyncProofs` | TypeCorrect, AnswersAreDurable, EventsFollowRows, FluencyCountsRealWork, StoredAttemptsAreSilent | `TypeOK`, `AckedIsStored`, `EventsAreTrue`, `FluencyIsReal`, `RecordedOnce` |
| `MobileProofs`, session | TypeCorrect, Stranding, ForegroundSurvives | `TypeOK`, `StrandedOnlyByMishap`, `SessionSurvives` |
| `MobileProofs`, bridge and gate | GateTypeCorrect, NoStrayTimers, ResolvedIsTrue, HandledPerAttempt, TimeoutsRunOut, ImplementsRpc, GatesClearedByReading | `GateTypeOK`, `TimersMatchCalls`, `ResolvedWasHandled`, `RedeliveryIsBounded`, -, `RpcSpec`, `ClearedWasRead` |

The type invariants of `AuthTokens`, `ProgressSync`, `MobileSession` and the
gate, and `PredecessorRevoked`, `NothingLost`, `ResolvedWasHandled` and
`RedeliveryIsBounded`, are proved and no longer part of a run.

The arguments:

- *AuthTokens.*  The invariants are about rows, but what a step writes depends
  on what its request read some steps ago.  `IInv` therefore says of each slot
  what is still true of the row it read: a request about to rotate holds a
  token that was issued, one about to issue holds a token that is already
  revoked, one that passed the consent check holds an account whose consent was
  verified.  All of these are stable, because no code un-issues a token,
  un-revokes one or withdraws a consent.  That a fork is the only breach
  follows because a token is born with a revoked predecessor.  The refinement
  maps `born`, `dead` and `parent` to `issued`, `revoked` and `row[t].pred`.
- *AuthTokens, reuse and resets.*  `ReuseInv`: in a burnt family every live
  token and every rotation still under way was overtaken by the answer to the
  reuse.  A later rotation cannot join them unseen, because it finds its token
  live and hence overtaken, and a request inherits that of the token it found.
  `ResetInv` says the same of tokens and requests that are behind their
  account's password, with two more excuses: a reset that has set the password
  and not yet revoked (`Resetting`), and one that broke off there (`halfway`).
  Its hard step is the revocation, which ends the excuse of its own reset: the
  tokens are revoked and every request that may still issue is marked in the same
  step.
- *Accounts.*  Uniqueness is what the index refuses, at each of the three
  statements that can make an account active.  `SlotInv` says which rows of its
  request a slot has written.  `AgreeInv` follows the claims on a child: unless
  it is contested there is one, and the two tables differ only while that one is
  between its two statements.
- *Classroom.*  `CodeInv`: no two rooms have one code, and a join whose room
  kept its code since the comparison (`OnCourse`) is looking for the room it
  asked for, whatever became of codes that were given up before.
  `StayInv`: while one join of a pair is under way, its step says how rows and
  events of the pair stand.
- *EventDelivery.*  `IInv` says of the message in the consumer's hands that it
  is the next of its topic, which of its notifications are settled and which have
  left since the consumer last broke off; a commit covers only messages that are
  settled.  `OncePerBreak` bounds what one message mails and `CopyInv` counts the
  messages of an event by what the producer did; `DuplicatesHaveACause` compares
  a `Cardinality` with their product, since the mails of an event are a subset
  of its copies times the breaks.  The log is finite because requests and resends
  are.
- *MobileSession.*  While there was no mishap at most one refresh is under way,
  and its step says which single token of the family is alive: the stored one
  before the revoke, none until the issue, the new one until it is stored.
- *Access.*  Whoever holds a list of students (a request, a token) holds what
  was true at some moment.  `IInv` bounds the age of that moment along the
  chain: in a request the tick it has seen, in a token the ticks it has lived
  and the request that signed it, in a read from claims both and its own.
  `NotLost` says it for a scope that ended, `NotMissed` for one that began.
- *SyncQueue.*  `IInv` says of a flush that the items it has seen served are
  stored, that those it is about to purge are expired, and that every row
  belongs to an item that was queued.  A deletion then only removes what is
  stored or expired.  It needs nothing of other flushes, which is why any
  number may overlap.  `HandsInv` adds that nothing of a batch is in hand between
  two slices, and nothing at all between two flushes, so that a slice cannot
  overwrite items that were not settled (`ListedIsSettled`).
- *ProgressSync.*  `IInv` says that a session being worked on has a row, that
  the attempts of a batch are stored or still to do, and that a sum that was
  read counts only completed sessions and stored attempts.  Rows are never
  removed, and `DoneBefore` ties rows to the history of completions.
- *UnityBridge.*  The properties are inductive with one more fact: a message
  is sent exactly when its promise exists (`NoTrace`).  `MobileProofs` shows that
  each step of the gate is a step of the bridge or leaves it alone, so
  `GateSpec => BridgeSpec` carries the bridge's theorems to the gate; the gate's
  types need that only a finished run sends (`Started`).
- *ReadingGate.*  `ClearedWasRead` compares the gates cleared with the set of
  numbered copies of passed results, a `Cardinality` instead of a sum over
  messages, so that handling one more copy adds one element to a finite set and
  no induction is needed.  `CountInv` is the same with the copies handled, of
  which there are never more than were sent.

`MobileProofs` holds the session, the bridge and the gate, as the names of their
definitions are kept apart for that: the gate's specification is `GateSpec`, the
session's `Spec`.

Every safety invariant and action property of the passing runs is the subject of
a theorem.  Only model-checked are the liveness properties (`EveryFlushSettles`,
`EverySendSettles`, `PublishSettles`, `PublishedIsHandled`), since `ENABLED` and
with it weak fairness are out of the prover's reach.  What they need beside
fairness is proved where it is about states and steps: `TimersSettle` (an open
promise has a timer that runs, and each firing uses up one of finitely many),
`NobodyIsForgotten` and `RequestsMoveOn` (a request waits only for a connection
that is being made, and never goes back) and `ListedIsSettled`.  `FailsOver` of
`AsrRouting` is violated and has no theorem.

## 6. What is left out

- *auth-service*: the branch of `refreshSession` for a token that verifies but
  has no row, which no run of this code reaches since rows are never deleted;
  expiry of refresh tokens and links, which only refuses requests; the
  verification of a Google token, which decides only whether a request starts.
- *access*: administrators, who see everything; the routes that write (they make
  the same check); the signature; a deleted teacher, who is any deleted account.
- *offline queue*: the spacing of retries; the `retryCount` of an item, which is
  counted and never compared; a SQLite statement that fails while a batch is
  settled (the `catch` then writes the whole batch back as pending).
- *progress-service*: averages and trends, `purgeStudentData`, which nothing
  calls.
- *bridge and gate*: the encoding of messages; messages whose handlers only
  log; calibration and `BRIDGE_READY`; a native `validate` of whisper.cpp, which
  is not in the repository (its answer is one of the results); audio.
- *classroom-service*: renaming a room; `getGoal`.
- *content-service*: content items and gates, which are single statements on one
  row; the removal of an assignment.
- *notification-service*: the weekly digest, which nothing schedules; the
  expired-token cache of FCM; the texts.
- *asr-service*: transcription and the alignment behind a score.  The type
  invariant of `AsrRouting` is stated and has no run.
- *analytics-service and the rate limiter*: section 7.  Contracts, schemas of
  ORMs, translations, infrastructure and migrations keep no state that runs.

## 7. Plan

1. `AnalyticsSink`: the write buffer and the auto-committing consumer against a
   failing store; abstract: what a flush answered is in the store.
2. `RateLimit`: the memory and the Redis window, with the failover between them.
3. A composition of `SyncQueue` and `ProgressSync`, so that an item of the queue
   is a session with attempts, and what `Outbox` calls delivered is a row.
4. A passing run of `AsrRouting`: one answer per reading, and the thresholds of
   `scoring.py` against the copy of them in `use-asr.ts`.

Passing runs are kept few: when a module of the plan arrives, a run whose
properties are meanwhile proved for all instances gives way to one that asks
a new question.
