---------------------------- MODULE EventDelivery ---------------------------
(***************************************************************************)
(* From a row to a notification: a service that saves a row and publishes  *)
(* its event through KafkaEventBus (packages/server-kit/src/eventbus.ts),  *)
(* as assignContent of content-service does, and notification-service      *)
(* (server.ts, notification-service.ts), which consumes the events one by  *)
(* one and sends what each calls for.                                      *)
(*                                                                         *)
(* The consumer subscribes to three topics, each with a position and a     *)
(* committed offset of its own.  The messages of all topics are numbered   *)
(* from 1 in the order the broker took them, and a position or an offset   *)
(* is the number of a message: up to it, those of the topic were handled   *)
(* or passed over.  The consumer takes one message at a time, those of one *)
(* topic in order, and kafkajs commits what was handled now and then.  A   *)
(* failed dispatch is caught and saved with the status 'failed', which no  *)
(* code reads again: only a query of the service's database can fail the   *)
(* handler.                                                                *)
(***************************************************************************)
EXTENDS Naturals, Sequences, FiniteSets

CONSTANTS Events,       \* the rows to be saved, each with one event
          Children,     \* user.created of a child: two mails
          Pushes,       \* assignment.created: at most one push
  Deletions,    \* user.deleted: one mail; all others are user.created of adults
          MaxLog,       \* bound: the producer resends only below this length
          MaxAborts,    \* bound on crashes and failed queries of the consumer
          Nothing

ASSUME EventDeliveryAssumption ==
  /\ IsFiniteSet(Events)
  /\ Children \subseteq Events /\ Pushes \subseteq Events \ Children
  /\ Deletions \subseteq Events \ (Children \union Pushes)
  /\ MaxLog \in Nat /\ MaxAborts \in Nat
  /\ Nothing \notin Nat

VARIABLES
  pub,        \* the request that saves and publishes each event
  bus,        \* producerPromise of the publishing process
  lost,       \* history: how often the broker took an event and was not heard
  log,        \* the messages of the topics
  alive,      \* the consumer is connected to its group
  position,   \* for each topic, the messages it has handled or passed over
  fresh,      \* for each topic, it handled no message since it joined
  committed,  \* for each topic, the group's offset, Nothing before the first
  task,       \* the message in its hands
  mailed,     \* history: how often each notification left the service
  decided,    \* notification_log, and the pushes dropped: <<message, template>>
  skipped,    \* history: messages the group never read
  aborts      \* history: crashes and failed queries

producer == <<pub, bus, lost>>
group == <<alive, position, fresh, committed>>
history == <<mailed, decided, skipped, aborts>>
vars == <<producer, log, group, task, history>>

Templates ==
  {"welcome", "consent_request", "assignment_notification", "deletion_confirmation"}
MaxOffset == MaxLog + Cardinality(Events)
Offsets == 1 .. MaxOffset

TopicOf(e) ==
  CASE e \in Pushes -> "assignment.created"
    [] e \in Deletions -> "user.deleted"
    [] OTHER -> "user.created"
Topics == {TopicOf(e) : e \in Events}

(* onUserCreated, onUserDeleted, onAssignmentCreated.                      *)
Due(e) ==
  CASE e \in Children -> <<"welcome", "consent_request">>
    [] e \in Pushes -> <<"assignment_notification">>
    [] e \in Deletions -> <<"deletion_confirmation">>
    [] OTHER -> <<"welcome">>

(* The message in hand, and the notifications it still calls for.          *)
Task(pc, at, todo) == [pc |-> pc, at |-> at, todo |-> todo]
NoTask == Task("idle", 0, <<>>)

TypeOK ==
  /\ pub \in [Events -> {"none", "saved", "waiting", "sending", "done", "failed"}]
  /\ bus \in {"none", "connecting", "up", "broken"}
  /\ log \in Seq(Events) /\ Len(log) <= MaxOffset
  /\ alive \in BOOLEAN
  /\ lost \in [Events -> Nat]
  /\ position \in [Topics -> 0 .. Len(log)] /\ fresh \in [Topics -> BOOLEAN]
  /\ committed \in [Topics -> 0 .. Len(log) \union {Nothing}]
  /\ task \in [pc : {"idle", "decide", "dispatch", "save"}, at : 0 .. Len(log),
                todo : Seq(Templates)]
  /\ task # NoTask => alive /\ position[TopicOf(log[task.at])] < task.at
  /\ mailed \in [Offsets \X Templates -> Nat]
  /\ decided \subseteq (1 .. Len(log)) \X Templates
  /\ skipped \subseteq 1 .. Len(log)
  /\ aborts \in 0 .. MaxAborts

Init ==
  /\ pub = [e \in Events |-> "none"]
  /\ bus = "none"
  /\ lost = [e \in Events |-> 0]
  /\ log = <<>>
  /\ alive = FALSE
  /\ position = [t \in Topics |-> 0] /\ fresh = [t \in Topics |-> TRUE]
  /\ committed = [t \in Topics |-> Nothing]
  /\ task = NoTask
  /\ mailed = [m \in Offsets \X Templates |-> 0]
  /\ decided = {}
  /\ skipped = {}
  /\ aborts = 0

Move(e, p) == pub' = [pub EXCEPT ![e] = p]

-----------------------------------------------------------------------------
(* Plausible slips of the code, used only to show that the properties      *)
(* notice them: a rejection that is not passed on, a dispatch tried again, *)
(* an offset taken too late or committed too early.                        *)
WaitersForgotten(p) == p
DispatchTwice(n) == n + 2
FromTheEnd(c, n) == n
CommitInHand ==
  /\ alive /\ task # NoTask
  /\ committed' = [committed EXCEPT ![TopicOf(log[task.at])] = task.at]
  /\ UNCHANGED <<producer, log, alive, position, fresh, task, history>>
CrashKeepsTask ==
  /\ alive /\ aborts < MaxAborts
  /\ aborts' = aborts + 1
  /\ alive' = FALSE
  /\ UNCHANGED <<producer, log, position, fresh, committed, task, mailed,
                 decided, skipped>>

-----------------------------------------------------------------------------
(* assignContent: the row is saved, then its event published; a row that   *)
(* deleteAssignment removes later does not take its event back.            *)
Save(e) ==
  /\ pub[e] = "none"
  /\ Move(e, "saved")
  /\ UNCHANGED <<bus, lost, log, group, task, history>>

(* getProducer: the first call connects, all the others await the same     *)
(* promise, whatever became of it.                                         *)
GetProducer(e) ==
  /\ pub[e] = "saved"
  /\ bus' = IF bus = "none" THEN "connecting" ELSE bus
  /\ Move(e, CASE bus = "up" -> "sending" [] bus = "broken" -> "failed"
               [] OTHER -> "waiting")
  /\ UNCHANGED <<lost, log, group, task, history>>

Rejected(p) == IF p = "waiting" THEN "failed" ELSE p
Resolved(p) == IF p = "waiting" THEN "sending" ELSE p

Connected ==
  /\ bus = "connecting"
  /\ bus' = "up"
  /\ pub' = [e \in Events |-> Resolved(pub[e])]
  /\ UNCHANGED <<lost, log, group, task, history>>

ConnectFails ==
  /\ bus = "connecting"
  /\ bus' = "broken"
  /\ pub' = [e \in Events |-> Rejected(pub[e])]
  /\ UNCHANGED <<lost, log, group, task, history>>

(* The broker has the message when send is answered; it may have it, even  *)
(* twice, when the answer is lost and the producer tries again or gives up.*)
Send(e) ==
  /\ pub[e] = "sending"
  /\ \/ log' = Append(log, e) /\ Move(e, "done") /\ UNCHANGED lost
     \/ /\ log' = Append(log, e) /\ Len(log) < MaxLog /\ UNCHANGED pub
        /\ lost' = [lost EXCEPT ![e] = @ + 1]
     \/ UNCHANGED <<log, lost>> /\ Move(e, "failed")
  /\ UNCHANGED <<bus, group, task, history>>

(* The publishing process stops and starts again. *)
RestartPublisher ==
  /\ bus # "none"
  /\ bus' = "none"
  /\ pub' = [e \in Events |-> IF pub[e] \in {"saved", "waiting", "sending"}
                              THEN "failed" ELSE pub[e]]
  /\ UNCHANGED <<lost, log, group, task, history>>

-----------------------------------------------------------------------------
(* The consumer joins its group: it starts each topic at the committed     *)
(* offset or, there being none (fromBeginning: false), at the topic's end. *)
StartAt(c, n) == IF c = Nothing THEN n ELSE c

Handled(o) == \A i \in 1 .. Len(Due(log[o])) : <<o, Due(log[o])[i]>> \in decided

Join ==
  /\ ~ alive
  /\ alive' = TRUE
  /\ position' = [t \in Topics |-> StartAt(committed[t], Len(log))]
  /\ fresh' = [t \in Topics |-> TRUE]
  /\ skipped' = skipped \union
       {o \in 1 .. Len(log) : committed[TopicOf(log[o])] = Nothing /\ ~ Handled(o)}
  /\ UNCHANGED <<producer, log, committed, task, mailed, decided, aborts>>

(* eachMessage, handleEvent: the next message of a topic, and what it calls *)
(* for.                                                                    *)
Ask(o, todo) ==
  IF todo = <<>> THEN NoTask
  ELSE Task(IF Head(todo) = "assignment_notification" THEN "decide" ELSE "dispatch",
            o, todo)
Proceed(o, todo) ==
  /\ task' = Ask(o, todo)
  /\ IF todo = <<>>
     THEN /\ position' = [position EXCEPT ![TopicOf(log[o])] = o]
          /\ fresh' = [fresh EXCEPT ![TopicOf(log[o])] = FALSE]
     ELSE UNCHANGED <<position, fresh>>

IsNext(o) ==
  /\ position[TopicOf(log[o])] < o
  /\ \A x \in 1 .. o - 1 :
       TopicOf(log[x]) = TopicOf(log[o]) => x <= position[TopicOf(log[o])]

HandleEvent ==
  /\ alive /\ task = NoTask
  /\ \E o \in 1 .. Len(log) : IsNext(o) /\ Proceed(o, Due(log[o]))
  /\ UNCHANGED <<producer, log, alive, committed, mailed, decided, skipped, aborts>>

InHand == <<task.at, Head(task.todo)>>
Done == Proceed(task.at, Tail(task.todo))

(* onAssignmentCreated: for a classroom, without a device, or between 20h  *)
(* and 7h, the push is dropped.                                            *)
ReadPreference ==
  /\ task.pc = "decide"
  /\ \/ /\ task' = Task("dispatch", task.at, task.todo)
        /\ UNCHANGED <<position, fresh, decided>>
     \/ /\ decided' = decided \union {InHand}
        /\ Done
  /\ UNCHANGED <<producer, log, alive, committed, mailed, skipped, aborts>>

(* send: the dispatch, caught when it fails, with or without its effect;   *)
(* mail is one request to SendGrid, a push one to each device, of which    *)
(* some may fail (and there may be none by now).                           *)
Times(n) == n + 1
PushInHand == Head(task.todo) = "assignment_notification"

Dispatched ==
  /\ task' = Task("save", task.at, task.todo)
  /\ \/ mailed' = [mailed EXCEPT ![InHand] = Times(@)]
     \/ UNCHANGED mailed
  /\ UNCHANGED <<producer, log, group, decided, skipped, aborts>>

DispatchMail == task.pc = "dispatch" /\ ~ PushInHand /\ Dispatched
DispatchPush == task.pc = "dispatch" /\ PushInHand /\ Dispatched

(* The row of notification_log that says what became of it.                *)
SaveRecord ==
  /\ task.pc = "save"
  /\ decided' = decided \union {InHand}
  /\ Done
  /\ UNCHANGED <<producer, log, alive, committed, mailed, skipped, aborts>>

(* The preference, the devices or the insert: the handler throws, and      *)
(* kafkajs hands the message over again.                                   *)
QueryFails ==
  /\ task.pc \in {"decide", "save"} \/ (task.pc = "dispatch" /\ PushInHand)
  /\ aborts < MaxAborts
  /\ aborts' = aborts + 1
  /\ task' = NoTask
  /\ UNCHANGED <<producer, log, group, mailed, decided, skipped>>

(* autoCommit, one request for all topics of which a message was handled   *)
(* since the consumer joined.                                              *)
Commit ==
  /\ alive
  /\ committed' = [t \in Topics |-> IF fresh[t] THEN committed[t] ELSE position[t]]
  /\ committed' # committed
  /\ UNCHANGED <<producer, log, alive, position, fresh, task, history>>

CrashConsumer ==
  /\ alive /\ aborts < MaxAborts
  /\ aborts' = aborts + 1
  /\ alive' = FALSE
  /\ task' = NoTask
  /\ UNCHANGED <<producer, log, position, fresh, committed, mailed,
                 decided, skipped>>

Publisher(e) == Save(e) \/ GetProducer(e) \/ Send(e)
Connection == Connected \/ ConnectFails
Consumer ==
  Join \/ HandleEvent \/ ReadPreference \/ DispatchMail \/ DispatchPush \/ SaveRecord
Next ==
  \/ \E e \in Events : Publisher(e)
  \/ Connection \/ RestartPublisher
  \/ Consumer \/ QueryFails \/ Commit \/ CrashConsumer

(* A connection attempt ends, a send is answered, a handler runs on, and a *)
(* process that stopped is started again.                                  *)
Fairness ==
  /\ \A e \in Events : WF_vars(GetProducer(e)) /\ WF_vars(Send(e) /\ pub'[e] # pub[e])
  /\ WF_vars(Connection)
  /\ WF_vars(Consumer)

Spec == Init /\ [][Next]_vars /\ Fairness

-----------------------------------------------------------------------------
(* Nothing is lost behind the committed offsets: every notification that a *)
(* committed message calls for has its row (or was dropped by the quiet    *)
(* hours), except for messages that a consumer without an offset for their *)
(* topic never read (server.ts:23, and send :421-451).                     *)
CommittedIsHandled ==
  \A t \in Topics : committed[t] # Nothing =>
    \A o \in 1 .. committed[t] : TopicOf(log[o]) = t => o \in skipped \/ Handled(o)

(* All the times a notification of an event left the service.              *)
Copies(e) == {o \in 1 .. Len(log) : log[o] = e}
Mails(e, m) == UNION {{o} \X (1 .. mailed[<<o, m>>]) : o \in Copies(e)}
Taken(e) == lost[e] + (IF pub[e] = "done" THEN 1 ELSE 0)

(* Every notification that leaves twice has a cause on one of the two      *)
(* sides: it leaves at most once for each time the broker took its event,  *)
(* whether the producer heard of it or not (eventbus.ts:58), and once more *)
(* for each of those messages at each crash or failed query of the         *)
(* consumer, which dispatches first and records second                     *)
(* (notification-service.ts:421-450).  An event that was never taken mails *)
(* nobody.                                                                 *)
DuplicatesHaveACause ==
  \A e \in Events, m \in Templates :
    Cardinality(Mails(e, m)) <= Taken(e) * (1 + aborts)

(* Every request that saved a row is answered, even when all of them wait  *)
(* for one connection that fails (eventbus.ts:42-52).                      *)
PublishSettles ==
  \A e \in Events : pub[e] = "saved" ~> pub[e] \in {"done", "failed"}

(* Every message in the log is handled or was skipped in the end, as long  *)
(* as the consumer breaks off finitely often.                              *)
PublishedIsHandled ==
  \A o \in Offsets : o <= Len(log) ~> o \in skipped \/ (o <= Len(log) /\ Handled(o))

=============================================================================
