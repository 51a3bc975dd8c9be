------------------------ MODULE EventDeliveryProofs ------------------------
(***************************************************************************)
(* Theorems about EventDelivery for any number of events, crashes and      *)
(* resent messages.  IInv adds to the properties what the consumer knows   *)
(* of the message in its hands: which of its notifications are settled,    *)
(* and which have not left since the last time it broke off.               *)
(***************************************************************************)
EXTENDS EventDelivery, FiniteSetTheorems, TLAPS

Published == {e \in Events : pub[e] = "done"}

PubStates == {"none", "saved", "waiting", "sending", "done", "failed"}
BusStates == {"none", "connecting", "up", "broken"}

(* The types but for the task; the log is bounded by the resends and the   *)
(* requests that were answered.                                            *)
Types ==
  /\ pub \in [Events -> PubStates] /\ bus \in BusStates
  /\ lost \in [Events -> Nat]
  /\ log \in Seq(Events) /\ Len(log) <= MaxLog + Cardinality(Published)
  /\ alive \in BOOLEAN
  /\ position \in [Topics -> 0 .. Len(log)] /\ fresh \in [Topics -> BOOLEAN]
  /\ committed \in [Topics -> 0 .. Len(log) \union {Nothing}]
  /\ mailed \in [Offsets \X Templates -> Nat]
  /\ decided \subseteq (1 .. Len(log)) \X Templates
  /\ skipped \subseteq 1 .. Len(log)
  /\ aborts \in 0 .. MaxAborts

(* What is left of a message's notifications, all of them or the last.     *)
Rest(o, todo) ==
  \/ todo = Due(log[o])
  \/ todo = <<"consent_request">> /\ log[o] \in Children /\ <<o, "welcome">> \in decided

TaskInv ==
  \/ task = NoTask
  \/ /\ alive
     /\ \E p \in {"decide", "dispatch", "save"}, o \in 1 .. Len(log),
           todo \in Seq(Templates) :
          task = Task(p, o, todo) /\ IsNext(o) /\ Rest(o, todo)

(* What its topic's position has passed is settled.                        *)
Settled(o) == o \in skipped \/ Handled(o)
ReadInv == \A o \in 1 .. Len(log) : o <= position[TopicOf(log[o])] => Settled(o)

(* The notification has not left since the consumer last broke off.        *)
Open(o, m) ==
  \/ ~ alive
  \/ o > Len(log)
  \/ o <= Len(log) /\ position[TopicOf(log[o])] < o /\ o # task.at
  \/ o = task.at /\ task.pc # "save" /\ m = Head(task.todo)
  \/ o = task.at /\ Len(task.todo) = 2 /\ m = task.todo[2]
MailInv ==
  \A o \in Offsets, m \in Templates : Open(o, m) => mailed[<<o, m>>] <= aborts

(* One message mails a notification once, and once more for each break.    *)
OncePerBreak == \A m \in Offsets \X Templates : mailed[m] <= 1 + aborts

(* The messages of an event are those the producer was answered or not.    *)
CopyInv == \A e \in Events : Cardinality(Copies(e)) = Taken(e)

IInv == Types /\ TaskInv /\ ReadInv /\ CommittedIsHandled /\ MailInv
          /\ OncePerBreak /\ CopyInv

-----------------------------------------------------------------------------
(* What an event calls for is one of four lists.                           *)
LEMMA DueIs ==
  ASSUME NEW e \in Events
  PROVE  \/ e \in Children /\ Due(e) = <<"welcome", "consent_request">>
         \/ e \notin Children /\ \E m \in Templates : Due(e) = <<m>>
BY EventDeliveryAssumption DEF Due, Templates

LEMMA TopicIs == \A e \in Events : TopicOf(e) \in Topics
BY DEF Topics

LEMMA Lists ==
  /\ \A t \in Templates : /\ <<t>> \in Seq(Templates) /\ Len(<<t>>) = 1 /\ <<t>> # <<>>
                          /\ Head(<<t>>) = t /\ Tail(<<t>>) = <<>> /\ <<t>>[1] = t
  /\ LET both == <<"welcome", "consent_request">>
     IN  /\ both \in Seq(Templates) /\ Len(both) = 2 /\ both # <<>>
         /\ Head(both) = "welcome" /\ Tail(both) = <<"consent_request">>
         /\ both[1] = "welcome" /\ both[2] = "consent_request"
         /\ \A t \in Templates : both # <<t>>
BY DEF Templates

LEMMA Bounds ==
  ASSUME Types
  PROVE  /\ MaxOffset \in Nat /\ Len(log) \in Nat /\ Len(log) <= MaxOffset
         /\ IsFiniteSet(Published)
<1>1. IsFiniteSet(Events) /\ Published \subseteq Events
  BY EventDeliveryAssumption DEF Published
<1>2. /\ Cardinality(Events) \in Nat /\ Cardinality(Published) \in Nat
      /\ Cardinality(Published) <= Cardinality(Events) /\ IsFiniteSet(Published)
  BY <1>1, FS_Subset, FS_CardinalityType
<1> QED BY <1>2, EventDeliveryAssumption DEF Types, MaxOffset

LEMMA CopiesFinite ==
  ASSUME IInv, NEW e PROVE IsFiniteSet(Copies(e))
<1>1. Len(log) \in Nat
  BY Bounds DEF IInv
<1>2. IsFiniteSet(1 .. Len(log))
  BY <1>1, FS_Interval
<1>3. Copies(e) \subseteq 1 .. Len(log)
  BY DEF Copies
<1> QED BY <1>2, <1>3, FS_Subset

LEMMA InLog ==
  ASSUME IInv, NEW o \in 1 .. Len(log)
  PROVE  o \in Offsets /\ o \in Nat /\ log[o] \in Events /\ TopicOf(log[o]) \in Topics
<1>1. o \in Nat /\ o >= 1 /\ o <= MaxOffset /\ MaxOffset \in Nat
  BY Bounds DEF IInv
<1>2. log[o] \in Events
  BY DEF IInv, Types
<1> QED BY <1>1, <1>2, TopicIs DEF Offsets

LEMMA NoTaskIs == NoTask.at = 0 /\ NoTask.pc = "idle" /\ NoTask.todo = <<>>
BY DEF NoTask, Task

LEMMA InitIInv == Init => IInv
<1> SUFFICES ASSUME Init PROVE IInv
  OBVIOUS
<1>1. Published = {} /\ \A e \in Events : Copies(e) = {} /\ Taken(e) = 0
  BY DEF Init, Published, Copies, Taken
<1>2. Cardinality({}) = 0
  BY FS_EmptySet
<1>3. log \in Seq(Events) /\ Len(log) = 0 /\ aborts = 0 /\ aborts \in 0 .. MaxAborts
  BY EventDeliveryAssumption DEF Init
<1>4. Types
  <2>1. /\ position \in [Topics -> 0 .. Len(log)] /\ fresh \in [Topics -> BOOLEAN]
        /\ committed \in [Topics -> 0 .. Len(log) \union {Nothing}]
    BY <1>3 DEF Init
  <2>2. /\ pub \in [Events -> PubStates] /\ bus \in BusStates /\ lost \in [Events -> Nat]
        /\ alive \in BOOLEAN /\ mailed \in [Offsets \X Templates -> Nat]
    BY DEF Init, PubStates, BusStates
  <2>3. decided \subseteq (1 .. Len(log)) \X Templates /\ skipped \subseteq 1 .. Len(log)
    BY DEF Init
  <2>4. Len(log) <= MaxLog + Cardinality(Published)
    BY <1>1, <1>2, <1>3, EventDeliveryAssumption
  <2> QED BY <2>1, <2>2, <2>3, <2>4, <1>3 DEF Types
<1>5. CopyInv
  BY <1>1, <1>2 DEF CopyInv
<1>6. TaskInv /\ ReadInv /\ CommittedIsHandled
  BY <1>3 DEF Init, TaskInv, ReadInv, CommittedIsHandled
<1>7. MailInv /\ OncePerBreak
  BY <1>3 DEF Init, MailInv, OncePerBreak
<1> QED BY <1>4, <1>5, <1>6, <1>7 DEF IInv

-----------------------------------------------------------------------------
(* Steps of the publisher that leave the log alone.                        *)
LEMMA PublisherStep ==
  ASSUME IInv, UNCHANGED <<lost, log, group, task, history>>,
         pub' \in [Events -> PubStates], bus' \in BusStates,
         \A e \in Events : pub'[e] = "done" <=> pub[e] = "done"
  PROVE  IInv'
<1>1. Published' = Published
  BY DEF Published
<1>2. Types'
  BY <1>1 DEF IInv, Types, group, history, Offsets, MaxOffset
<1>3. UNCHANGED <<lost, log, alive, position, committed, task, mailed, decided, skipped, aborts>>
  BY DEF group, history
<1>4. TaskInv' /\ ReadInv' /\ CommittedIsHandled'
  BY <1>3 DEF IInv, TaskInv, IsNext, Rest, ReadInv, Settled, Handled, CommittedIsHandled
<1>5. MailInv' /\ OncePerBreak'
  BY <1>3 DEF IInv, MailInv, Open, OncePerBreak, Offsets, MaxOffset
<1>6. CopyInv'
  BY <1>3 DEF IInv, CopyInv, Copies, Taken
<1> QED BY <1>2, <1>4, <1>5, <1>6 DEF IInv

(* A longer log leaves what is in it where it was; the event has one more  *)
(* copy.                                                                   *)
LEMMA AppendStep ==
  ASSUME IInv, NEW e \in Events, log' = Append(log, e),
         UNCHANGED <<bus, group, task, history>>,
         pub' \in [Events -> PubStates], lost' \in [Events -> Nat],
         Taken(e)' = Taken(e) + 1,
         \A x \in Events \ {e} : Taken(x)' = Taken(x),
         Len(log) + 1 <= MaxLog + Cardinality(Published')
  PROVE  IInv'
<1>1. /\ log' \in Seq(Events) /\ Len(log') = Len(log) + 1 /\ Len(log) \in Nat
      /\ \A o \in 1 .. Len(log) : log'[o] = log[o]
      /\ log'[Len(log) + 1] = e
  BY DEF IInv, Types
<1>2. UNCHANGED <<bus, alive, position, fresh, committed, task, mailed, decided, skipped,
                  aborts>>
  BY DEF group, history
<1>3. Types'
  <2>1. 0 .. Len(log) \subseteq 0 .. Len(log') /\ 1 .. Len(log) \subseteq 1 .. Len(log')
    BY <1>1
  <2>2. position' \in [Topics -> 0 .. Len(log')]
        /\ committed' \in [Topics -> 0 .. Len(log') \union {Nothing}]
    BY <1>2, <2>1 DEF IInv, Types
  <2>3. decided' \subseteq (1 .. Len(log')) \X Templates /\ skipped' \subseteq 1 .. Len(log')
    BY <1>2, <2>1 DEF IInv, Types
  <2> QED BY <1>1, <1>2, <2>2, <2>3 DEF IInv, Types, Offsets, MaxOffset
<1>4. ASSUME NEW o \in 1 .. Len(log), Settled(o) PROVE Settled(o)'
  <2>1. log'[o] = log[o]
    BY <1>1
  <2> QED BY <1>2, <1>4, <2>1 DEF Settled, Handled
<1>5. \A t \in Topics : /\ position[t] \in Nat /\ position[t] <= Len(log)
                        /\ committed[t] # Nothing => committed[t] \in 0 .. Len(log)
  BY DEF IInv, Types
<1>6. TaskInv'
  <2>1. CASE task = NoTask
    BY <1>2, <2>1 DEF TaskInv
  <2>2. CASE task # NoTask
    <3>1. PICK p \in {"decide", "dispatch", "save"}, o \in 1 .. Len(log),
               todo \in Seq(Templates) :
            alive /\ task = Task(p, o, todo) /\ IsNext(o) /\ Rest(o, todo)
      BY <2>2 DEF IInv, TaskInv
    <3>2. o \in 1 .. Len(log') /\ o \in Nat /\ \A x \in 1 .. o : log'[x] = log[x]
      BY <1>1
    <3>3. IsNext(o)'
      BY <1>2, <3>1, <3>2 DEF IsNext
    <3>4. Rest(o, todo)'
      BY <1>2, <3>1, <3>2 DEF Rest
    <3> QED BY <1>2, <3>1, <3>2, <3>3, <3>4 DEF TaskInv
  <2> QED BY <2>1, <2>2
<1>7. ReadInv'
  <2> SUFFICES ASSUME NEW o \in 1 .. Len(log'), o <= position[TopicOf(log'[o])]
               PROVE  Settled(o)'
    BY <1>2 DEF ReadInv
  <2>1. TopicOf(log'[o]) \in Topics
    BY <1>1, TopicIs
  <2>2. o \in 1 .. Len(log)
    BY <1>1, <1>5, <2>1
  <2>3. Settled(o)
    BY <1>1, <2>2 DEF IInv, ReadInv
  <2> QED BY <1>4, <2>2, <2>3
<1>8. CommittedIsHandled'
  <2> SUFFICES ASSUME NEW t \in Topics, committed[t] # Nothing,
                      NEW o \in 1 .. committed[t], TopicOf(log'[o]) = t
               PROVE  Settled(o)'
    BY <1>2 DEF CommittedIsHandled, Settled
  <2>1. o \in 1 .. Len(log)
    BY <1>1, <1>5
  <2>2. Settled(o)
    BY <1>1, <2>1 DEF IInv, CommittedIsHandled, Settled
  <2> QED BY <1>4, <2>1, <2>2
<1>9. ASSUME NEW x \in Offsets, NEW m \in Templates, Open(x, m)' PROVE Open(x, m)
  <2>1. x \in Nat
    BY Bounds DEF IInv, Offsets
  <2>2. CASE x > Len(log)
    BY <2>2 DEF Open
  <2>3. CASE x <= Len(log)
    <3>1. x \in 1 .. Len(log) /\ log'[x] = log[x]
      BY <1>1, <2>1, <2>3 DEF Offsets
    <3> QED BY <1>1, <1>2, <1>9, <2>1, <2>3, <3>1 DEF Open
  <2> QED BY <1>1, <2>1, <2>2, <2>3
<1>10. MailInv' /\ OncePerBreak'
  BY <1>2, <1>9 DEF IInv, MailInv, OncePerBreak, Offsets, MaxOffset
<1>11. CopyInv'
  <2>1. Copies(e)' = Copies(e) \union {Len(log) + 1} /\ Len(log) + 1 \notin Copies(e)
    BY <1>1 DEF Copies
  <2>2. IsFiniteSet(Copies(e))
    BY CopiesFinite
  <2>3. Cardinality(Copies(e)') = Cardinality(Copies(e)) + 1
    BY <2>1, <2>2, FS_AddElement
  <2>4. \A x \in Events \ {e} : Copies(x)' = Copies(x)
    BY <1>1 DEF Copies
  <2> QED BY <2>3, <2>4 DEF IInv, CopyInv
<1> QED BY <1>3, <1>6, <1>7, <1>8, <1>10, <1>11 DEF IInv

(* The consumer's steps write neither the log nor a request.               *)
LEMMA LogStays ==
  ASSUME IInv, UNCHANGED <<producer, log>>
  PROVE  CopyInv' /\ Published' = Published
BY DEF IInv, CopyInv, Copies, Taken, Published, producer

-----------------------------------------------------------------------------
Both == <<"welcome", "consent_request">>

(* The message in hand: both mails of a child, or one last notification.   *)
LEMMA Shape ==
  ASSUME IInv, task # NoTask
  PROVE  /\ alive /\ task.at \in 1 .. Len(log) /\ task.at \in Offsets
         /\ log[task.at] \in Events /\ TopicOf(log[task.at]) \in Topics
         /\ IsNext(task.at)
         /\ task.pc \in {"decide", "dispatch", "save"} /\ task.todo \in Seq(Templates)
         /\ task = Task(task.pc, task.at, task.todo)
         /\ Rest(task.at, task.todo)
         /\ \/ task.todo = Both /\ Due(log[task.at]) = Both
            \/ \E m \in Templates :
                 /\ task.todo = <<m>>
                 /\ \/ Due(log[task.at]) = <<m>>
                    \/ /\ Due(log[task.at]) = Both /\ m = "consent_request"
                       /\ <<task.at, "welcome">> \in decided
<1>1. /\ alive
      /\ \E p \in {"decide", "dispatch", "save"}, x \in 1 .. Len(log),
            todo \in Seq(Templates) :
           task = Task(p, x, todo) /\ IsNext(x) /\ Rest(x, todo)
  BY DEF IInv, TaskInv
<1>2. PICK o \in 1 .. Len(log) : task.at = o /\ IsNext(o) /\ Rest(o, task.todo)
      /\ task.pc \in {"decide", "dispatch", "save"} /\ task.todo \in Seq(Templates)
      /\ task = Task(task.pc, o, task.todo)
  BY <1>1 DEF Task
<1>3. log[o] \in Events /\ TopicOf(log[o]) \in Topics /\ o \in Offsets
  BY InLog
<1>4. "consent_request" \in Templates
  BY DEF Templates
<1>5. \/ task.todo = Both /\ Due(log[o]) = Both
      \/ \E m \in Templates : task.todo = <<m>> /\ Due(log[o]) = <<m>>
      \/ /\ task.todo = <<"consent_request">> /\ Due(log[o]) = Both
         /\ <<o, "welcome">> \in decided
  BY <1>2, <1>3, DueIs DEF Rest, Both
<1> QED BY <1>1, <1>2, <1>3, <1>4, <1>5

(* The notification in hand is settled; the next one, or the next message. *)
LEMMA DoneStep ==
  ASSUME IInv, task # NoTask, decided' = decided \union {InHand}, Done,
         UNCHANGED <<producer, log, alive, committed, mailed, skipped, aborts>>
  PROVE  IInv'
<1>1. PICK o \in 1 .. Len(log) :
        /\ o = task.at /\ log[o] \in Events /\ TopicOf(log[o]) \in Topics /\ IsNext(o)
        /\ alive
  BY Shape
<1>2. UNCHANGED <<pub, bus, lost, log, alive, committed, mailed, skipped, aborts>>
  BY DEF producer
<1>3. Head(task.todo) \in Templates /\ InHand = <<o, Head(task.todo)>>
  BY <1>1, Shape, Lists DEF InHand, Both, Templates
<1>4. decided \subseteq decided' /\ decided' \subseteq (1 .. Len(log)) \X Templates
  BY <1>1, <1>3 DEF IInv, Types
<1>5. \A x : Settled(x) => Settled(x)'
  BY <1>2, <1>4 DEF Settled, Handled
<1>6. CommittedIsHandled' /\ OncePerBreak'
  BY <1>2, <1>5 DEF IInv, CommittedIsHandled, Settled, OncePerBreak, Offsets, MaxOffset
<1>7. CopyInv' /\ Published' = Published
  BY LogStays
<1>8. Len(log) \in Nat /\ o \in Nat /\ \A x \in 1 .. Len(log) : TopicOf(log[x]) \in Topics
  BY Bounds, InLog DEF IInv
<1>9. ASSUME task.todo = Both, Due(log[o]) = Both PROVE IInv'
  <2>1. Tail(task.todo) = <<"consent_request">> /\ Head(task.todo) = "welcome"
        /\ Len(task.todo) = 2 /\ task.todo[2] = "consent_request"
    BY <1>9, Lists DEF Both
  <2>2. <<"consent_request">> # <<>> /\ <<"consent_request">> \in Seq(Templates)
        /\ Head(<<"consent_request">>) = "consent_request" /\ Len(<<"consent_request">>) = 1
    BY Lists DEF Templates
  <2>3. task' = Task("dispatch", o, <<"consent_request">>) /\ UNCHANGED <<position, fresh>>
    BY <1>1, <2>1, <2>2 DEF Done, Proceed, Ask
  <2>4. log[o] \in Children /\ <<o, "welcome">> \in decided'
    BY <1>1, <1>3, <1>9, <2>1, DueIs, Lists DEF Both
  <2>5. Types'
    BY <1>2, <1>4, <1>7, <2>3 DEF IInv, Types, Offsets, MaxOffset
  <2>6. Rest(o, <<"consent_request">>)' /\ IsNext(o)'
    BY <1>1, <1>2, <2>3, <2>4 DEF Rest, IsNext
  <2>7. TaskInv'
    <3>1. \E p \in {"decide", "dispatch", "save"}, todo \in Seq(Templates) :
            task' = Task(p, o, todo) /\ Rest(o, todo)'
      BY <2>2, <2>3, <2>6
    <3>2. o \in 1 .. Len(log') /\ alive'
      BY <1>1, <1>2
    <3> QED BY <2>6, <3>1, <3>2 DEF TaskInv
  <2>8. ReadInv'
    BY <1>2, <1>5, <2>3 DEF IInv, ReadInv
  <2>9. ASSUME NEW x \in Offsets, NEW m \in Templates, Open(x, m)' PROVE Open(x, m)
    <3>1. task'.at = task.at /\ task'.pc = "dispatch" /\ task'.todo = <<"consent_request">>
      BY <1>1, <2>3 DEF Task
    <3> QED BY <1>1, <1>2, <2>1, <2>2, <2>3, <2>9, <3>1 DEF Open
  <2>10. MailInv'
    BY <1>2, <2>9 DEF IInv, MailInv, Offsets, MaxOffset
  <2> QED BY <2>5, <2>7, <2>8, <2>10, <1>6, <1>7 DEF IInv
<1>10. ASSUME NEW m \in Templates, task.todo = <<m>>,
              \/ Due(log[o]) = <<m>>
              \/ Due(log[o]) = Both /\ m = "consent_request" /\ <<o, "welcome">> \in decided
       PROVE IInv'
  <2> DEFINE t == TopicOf(log[o])
  <2>1. Tail(task.todo) = <<>> /\ Head(task.todo) = m
    BY <1>10, Lists
  <2>2. /\ task' = NoTask
        /\ position' = [position EXCEPT ![t] = o] /\ fresh' = [fresh EXCEPT ![t] = FALSE]
    BY <1>1, <2>1 DEF Done, Proceed, Ask
  <2>3. <<o, m>> \in decided'
    BY <1>3, <2>1
  <2>4. Handled(o)'
    <3>1. CASE Due(log[o]) = <<m>>
      BY <3>1, <1>2, <2>3, Lists DEF Handled
    <3>2. CASE Due(log[o]) = Both /\ m = "consent_request" /\ <<o, "welcome">> \in decided
      <4>1. <<o, "welcome">> \in decided' /\ <<o, "consent_request">> \in decided'
        BY <3>2, <1>4, <2>3
      <4>2. \A i \in 1 .. Len(Due(log[o])) : i = 1 \/ i = 2
        BY <3>2, Lists DEF Both
      <4>3. Due(log[o])[1] = "welcome" /\ Due(log[o])[2] = "consent_request"
        BY <3>2, Lists DEF Both
      <4> QED BY <4>1, <4>2, <4>3, <1>2 DEF Handled
    <3> QED BY <1>10, <3>1, <3>2
  <2>5. /\ position \in [Topics -> 0 .. Len(log)] /\ fresh \in [Topics -> BOOLEAN]
        /\ o \in 0 .. Len(log)
    BY <1>8 DEF IInv, Types
  <2>6. position' \in [Topics -> 0 .. Len(log)] /\ fresh' \in [Topics -> BOOLEAN]
    BY <2>2, <2>5
  <2>7. Types'
    BY <1>2, <1>4, <1>7, <2>6 DEF IInv, Types, Offsets, MaxOffset
  <2>8. TaskInv'
    BY <2>2 DEF TaskInv, NoTask, Task
  <2>9. /\ position'[t] = o /\ position[t] \in Nat /\ position[t] < o
        /\ \A u \in Topics \ {t} : position'[u] = position[u]
        /\ \A x \in 1 .. o - 1 : TopicOf(log[x]) = t => x <= position[t]
    BY <1>1, <2>2, <2>5 DEF IsNext
  <2>10. ReadInv'
    <3> SUFFICES ASSUME NEW x \in 1 .. Len(log), x <= position'[TopicOf(log[x])]
                 PROVE  Settled(x)'
      BY <1>2 DEF ReadInv
    <3>1. CASE x = o
      BY <3>1, <2>4 DEF Settled
    <3>2. CASE x # o
      <4>1. x <= position[TopicOf(log[x])]
        <5>1. CASE TopicOf(log[x]) = t
          BY <1>8, <2>9, <3>2, <5>1
        <5>2. CASE TopicOf(log[x]) # t
          BY <1>8, <2>9, <5>2
        <5> QED BY <5>1, <5>2
      <4> QED BY <4>1, <1>5 DEF IInv, ReadInv
    <3> QED BY <3>1, <3>2
  <2>11. ASSUME NEW x \in Offsets, NEW u \in Templates, Open(x, u)' PROVE Open(x, u)
    <3>1. x \in Nat /\ x >= 1
      BY Bounds DEF IInv, Offsets
    <3>2. Len(<<>>) = 0 /\ task'.at = 0 /\ task'.todo = <<>>
      BY <2>2, NoTaskIs
    <3>3. x > Len(log) \/ (x <= Len(log) /\ position'[TopicOf(log[x])] < x)
      BY <1>1, <1>2, <2>11, <3>1, <3>2 DEF Open
    <3>4. CASE x > Len(log)
      BY <3>4 DEF Open
    <3>5. CASE x <= Len(log) /\ position'[TopicOf(log[x])] < x
      <4>1. x \in 1 .. Len(log) /\ TopicOf(log[x]) \in Topics
        BY <1>8, <3>1, <3>5
      <4>2. position[TopicOf(log[x])] < x /\ x # o
        <5>1. CASE TopicOf(log[x]) = t
          BY <1>8, <2>9, <3>1, <3>5, <5>1
        <5>2. CASE TopicOf(log[x]) # t
          BY <2>9, <3>5, <4>1, <5>2
        <5> QED BY <5>1, <5>2
      <4> QED BY <1>1, <3>5, <4>2 DEF Open
    <3> QED BY <3>3, <3>4, <3>5
  <2>12. MailInv'
    BY <1>2, <2>11 DEF IInv, MailInv, Offsets, MaxOffset
  <2> QED BY <2>7, <2>8, <2>10, <2>12, <1>6, <1>7 DEF IInv
<1> QED BY <1>1, <1>9, <1>10, Shape

-----------------------------------------------------------------------------
(* The consumer takes the next message of a topic.                         *)
LEMMA HandleStep == ASSUME IInv, HandleEvent PROVE IInv'
<1>1. PICK o \in 1 .. Len(log) : IsNext(o) /\ Proceed(o, Due(log[o]))
  BY DEF HandleEvent
<1>2. /\ alive /\ task = NoTask /\ log[o] \in Events
      /\ UNCHANGED <<pub, bus, lost, log, alive, committed, mailed, decided, skipped, aborts>>
  BY DEF HandleEvent, producer, IInv, Types
<1>3. PICK d \in Seq(Templates) : d = Due(log[o]) /\ d # <<>>
  BY <1>2, DueIs, Lists
<1>4. PICK p \in {"decide", "dispatch", "save"} : task' = Task(p, o, d)
  BY <1>1, <1>3 DEF Proceed, Ask
<1>5. UNCHANGED <<position, fresh>>
  BY <1>1, <1>3 DEF Proceed
<1>6. CopyInv' /\ Published' = Published
  BY LogStays DEF HandleEvent
<1>7. Types'
  BY <1>2, <1>5, <1>6 DEF IInv, Types, Offsets, MaxOffset
<1>8. TaskInv'
  <2>1. Rest(o, d)' /\ IsNext(o)'
    BY <1>1, <1>2, <1>3, <1>5 DEF Rest, IsNext
  <2> QED BY <2>1, <1>2, <1>4 DEF TaskInv
<1>9. ReadInv' /\ CommittedIsHandled'
  BY <1>2, <1>5 DEF IInv, ReadInv, CommittedIsHandled, Settled, Handled
<1>10. ASSUME NEW x \in Offsets, NEW m \in Templates, Open(x, m)' PROVE Open(x, m)
  <2>1. task'.at = o /\ task.at = 0 /\ x # 0
    BY <1>2, <1>4, NoTaskIs, Bounds DEF Task, IInv, Offsets
  <2>2. o <= Len(log) /\ position[TopicOf(log[o])] < o
    BY <1>1, Bounds DEF IsNext, IInv
  <2> QED BY <1>2, <1>5, <1>10, <2>1, <2>2 DEF Open
<1>11. MailInv' /\ OncePerBreak'
  BY <1>2, <1>10 DEF IInv, MailInv, OncePerBreak, Offsets, MaxOffset
<1> QED BY <1>6, <1>7, <1>8, <1>9, <1>11 DEF IInv

(* The preference lets the push go, or settles it.                         *)
LEMMA PreferenceStep == ASSUME IInv, ReadPreference PROVE IInv'
<1>1. /\ task # NoTask /\ task.pc = "decide"
      /\ UNCHANGED <<producer, log, alive, committed, mailed, skipped, aborts>>
  BY DEF ReadPreference, NoTask, Task
<1>2. CASE decided' = decided \union {InHand} /\ Done
  BY <1>1, <1>2, DoneStep
<1>3. CASE task' = Task("dispatch", task.at, task.todo) /\ UNCHANGED <<position, fresh, decided>>
  <2>1. PICK o \in 1 .. Len(log), todo \in Seq(Templates) :
          o = task.at /\ todo = task.todo /\ Rest(o, todo) /\ IsNext(o) /\ alive
    BY <1>1, Shape
  <2>2. UNCHANGED <<pub, bus, lost, log, alive, committed, mailed, skipped, aborts>>
    BY <1>1 DEF producer
  <2>3. CopyInv' /\ Published' = Published
    BY <1>1, LogStays
  <2>4. Types'
    BY <1>3, <2>2, <2>3 DEF IInv, Types, Offsets, MaxOffset
  <2>5. task'.at = task.at /\ task'.todo = task.todo /\ task'.pc = "dispatch"
    BY <1>3 DEF Task
  <2>6. TaskInv'
    <3>1. Rest(o, todo)' /\ IsNext(o)'
      BY <1>3, <2>1, <2>2 DEF Rest, IsNext
    <3> QED BY <3>1, <1>3, <2>1, <2>2 DEF TaskInv
  <2>7. ReadInv' /\ CommittedIsHandled'
    BY <1>3, <2>2 DEF IInv, ReadInv, CommittedIsHandled, Settled, Handled
  <2>8. ASSUME NEW x \in Offsets, NEW m \in Templates, Open(x, m)' PROVE Open(x, m)
    BY <1>1, <1>3, <2>2, <2>5, <2>8 DEF Open
  <2>9. MailInv' /\ OncePerBreak'
    BY <2>2, <2>8 DEF IInv, MailInv, OncePerBreak, Offsets, MaxOffset
  <2> QED BY <2>3, <2>4, <2>6, <2>7, <2>9 DEF IInv
<1> QED BY <1>2, <1>3 DEF ReadPreference

(* The dispatch: the notification in hand leaves once more, or not.        *)
LEMMA DispatchStep == ASSUME IInv, task.pc = "dispatch", Dispatched PROVE IInv'
<1>1. /\ task # NoTask
      /\ UNCHANGED <<pub, bus, lost, log, alive, position, fresh, committed, decided,
                     skipped, aborts>>
      /\ UNCHANGED <<producer, log>>
  BY NoTaskIs DEF Dispatched, producer, group
<1>2. task' = Task("save", task.at, task.todo)
      /\ task'.pc = "save" /\ task'.at = task.at /\ task'.todo = task.todo
  BY DEF Dispatched, Task
<1>3. PICK o \in 1 .. Len(log), todo \in Seq(Templates) :
        o = task.at /\ todo = task.todo /\ Rest(o, todo) /\ IsNext(o) /\ alive
  BY <1>1, Shape
<1>4. o \in Offsets /\ Head(todo) \in Templates /\ InHand = <<o, Head(todo)>>
      /\ (Len(todo) = 2 => todo[2] # Head(todo))
  BY <1>1, <1>3, Shape, Lists DEF InHand, Both, Templates
<1>5. /\ mailed' \in [Offsets \X Templates -> Nat]
      /\ \A m \in Offsets \X Templates :
           mailed'[m] # mailed[m] => m = InHand /\ mailed'[m] = mailed[m] + 1
  <2>1. mailed \in [Offsets \X Templates -> Nat] /\ InHand \in Offsets \X Templates
    BY <1>4 DEF IInv, Types
  <2>2. mailed' = [mailed EXCEPT ![InHand] = mailed[InHand] + 1] \/ mailed' = mailed
    BY DEF Dispatched, Times
  <2>3. mailed[InHand] \in Nat /\ mailed[InHand] + 1 \in Nat
    BY <2>1
  <2> HIDE DEF InHand
  <2> QED BY <2>1, <2>2, <2>3
<1>6. CopyInv' /\ Published' = Published
  BY <1>1, LogStays
<1>7. Types'
  BY <1>1, <1>5, <1>6 DEF IInv, Types, Offsets, MaxOffset
<1>8. TaskInv'
  <2>1. Rest(o, todo)' /\ IsNext(o)'
    BY <1>1, <1>3 DEF Rest, IsNext
  <2> QED BY <2>1, <1>1, <1>2, <1>3 DEF TaskInv
<1>9. ReadInv' /\ CommittedIsHandled'
  BY <1>1 DEF IInv, ReadInv, CommittedIsHandled, Settled, Handled
<1>10. ASSUME NEW x \in Offsets, NEW m \in Templates, Open(x, m)'
       PROVE  Open(x, m) /\ <<x, m>> # InHand
  <2>1. o <= Len(log)
    BY Bounds DEF IInv
  <2> QED BY <1>1, <1>2, <1>3, <1>4, <1>10, <2>1 DEF Open
<1>11. MailInv'
  BY <1>1, <1>5, <1>10 DEF IInv, MailInv, Offsets, MaxOffset
<1>12. OncePerBreak'
  <2>1. Open(o, Head(todo))
    BY <1>3, <1>4 DEF Open
  <2>2. mailed[InHand] <= aborts /\ aborts \in Nat
    BY <1>4, <2>1 DEF IInv, MailInv, Types
  <2>3. ASSUME NEW m \in Offsets \X Templates PROVE mailed'[m] <= 1 + aborts
    <3>1. mailed[m] \in Nat /\ mailed[m] <= 1 + aborts
      BY DEF IInv, Types, OncePerBreak
    <3> QED BY <3>1, <2>2, <1>5
  <2> QED BY <1>1, <2>3 DEF OncePerBreak, Offsets, MaxOffset
<1> QED BY <1>6, <1>7, <1>8, <1>9, <1>11, <1>12 DEF IInv

(* What breaks off, and a commit.                                          *)
LEMMA BreakStep == ASSUME IInv, QueryFails \/ CrashConsumer PROVE IInv'
<1>1. /\ UNCHANGED <<pub, bus, lost, log, position, fresh, committed, mailed, decided, skipped>>
      /\ task' = NoTask /\ alive' \in BOOLEAN
      /\ aborts < MaxAborts /\ aborts' = aborts + 1
  BY DEF QueryFails, CrashConsumer, producer, group, IInv, Types
<1>2. CopyInv' /\ Published' = Published
  BY <1>1, LogStays DEF producer
<1>3. aborts \in Nat /\ aborts' \in 0 .. MaxAborts
  BY <1>1, EventDeliveryAssumption DEF IInv, Types
<1>4. Types'
  BY <1>1, <1>2, <1>3 DEF IInv, Types, Offsets, MaxOffset
<1>5. TaskInv' /\ ReadInv' /\ CommittedIsHandled'
  BY <1>1 DEF IInv, TaskInv, ReadInv, CommittedIsHandled, Settled, Handled
<1>6. \A m \in Offsets \X Templates : mailed[m] \in Nat /\ mailed[m] <= 1 + aborts
  BY DEF IInv, Types, OncePerBreak
<1>7. MailInv' /\ OncePerBreak'
  BY <1>1, <1>3, <1>6 DEF MailInv, OncePerBreak, Offsets, MaxOffset
<1> QED BY <1>2, <1>4, <1>5, <1>7 DEF IInv

LEMMA CommitStep == ASSUME IInv, Commit PROVE IInv'
<1>1. /\ UNCHANGED <<pub, bus, lost, log, alive, position, fresh, task, mailed, decided,
                     skipped, aborts>>
      /\ committed' = [t \in Topics |-> IF fresh[t] THEN committed[t] ELSE position[t]]
  BY DEF Commit, producer, history
<1>2. CopyInv' /\ Published' = Published
  BY <1>1, LogStays DEF producer
<1>3. \A t \in Topics : committed[t] \in 0 .. Len(log) \union {Nothing}
                        /\ position[t] \in 0 .. Len(log)
  BY DEF IInv, Types
<1>4. Types'
  <2>1. committed' \in [Topics -> 0 .. Len(log) \union {Nothing}]
    BY <1>1, <1>3
  <2> QED BY <1>1, <1>2, <2>1 DEF IInv, Types, Offsets, MaxOffset
<1>5. CommittedIsHandled'
  <2> SUFFICES ASSUME NEW t \in Topics, committed'[t] # Nothing,
                      NEW o \in 1 .. committed'[t], TopicOf(log[o]) = t
               PROVE  Settled(o)
    BY <1>1 DEF CommittedIsHandled, Settled, Handled
  <2>1. CASE fresh[t]
    <3>1. committed'[t] = committed[t]
      BY <1>1, <2>1
    <3> QED BY <3>1 DEF IInv, CommittedIsHandled, Settled
  <2>2. CASE ~ fresh[t]
    <3>1. committed'[t] = position[t]
      BY <1>1, <2>2
    <3>2. o \in 1 .. Len(log) /\ o <= position[t]
      BY <1>3, <3>1, Bounds DEF IInv
    <3> QED BY <3>2 DEF IInv, ReadInv
  <2> QED BY <2>1, <2>2
<1>6. TaskInv' /\ ReadInv'
  BY <1>1 DEF IInv, TaskInv, IsNext, Rest, ReadInv, Settled, Handled
<1>7. MailInv' /\ OncePerBreak'
  BY <1>1 DEF IInv, MailInv, Open, OncePerBreak, Offsets, MaxOffset
<1> QED BY <1>2, <1>4, <1>5, <1>6, <1>7 DEF IInv

(* A consumer that joins starts each topic where the group committed, or   *)
(* skips what is there.                                                    *)
LEMMA JoinStep == ASSUME IInv, Join PROVE IInv'
<1>1. /\ ~ alive /\ alive' = TRUE /\ fresh' = [t \in Topics |-> TRUE]
      /\ position' = [t \in Topics |->
                        IF committed[t] = Nothing THEN Len(log) ELSE committed[t]]
      /\ UNCHANGED <<pub, bus, lost, log, committed, task, mailed, decided, aborts>>
      /\ skipped' = skipped \union
           {o \in 1 .. Len(log) : committed[TopicOf(log[o])] = Nothing /\ ~ Handled(o)}
  BY DEF Join, StartAt, producer
<1>2. Len(log) \in Nat /\ task = NoTask
  BY <1>1, Bounds DEF IInv, TaskInv
<1>3. CopyInv' /\ Published' = Published
  BY <1>1, LogStays DEF producer
<1>4. \A t \in Topics : committed[t] \in 0 .. Len(log) \union {Nothing}
  BY DEF IInv, Types
<1>5. Types'
  <2>1. position' \in [Topics -> 0 .. Len(log)] /\ fresh' \in [Topics -> BOOLEAN]
    BY <1>1, <1>2, <1>4
  <2>2. skipped' \subseteq 1 .. Len(log)
    BY <1>1 DEF IInv, Types
  <2>3. alive' \in BOOLEAN
    BY <1>1
  <2> QED BY <1>1, <1>3, <2>1, <2>2, <2>3 DEF IInv, Types, Offsets, MaxOffset
<1>6. \A x : Settled(x) => Settled(x)'
  BY <1>1 DEF Settled, Handled
<1>7. ReadInv'
  <2> SUFFICES ASSUME NEW o \in 1 .. Len(log), o <= position'[TopicOf(log[o])]
               PROVE  Settled(o)'
    BY <1>1 DEF ReadInv
  <2>1. TopicOf(log[o]) \in Topics
    BY TopicIs DEF IInv, Types
  <2>2. CASE committed[TopicOf(log[o])] = Nothing
    BY <1>1, <2>2 DEF Settled, Handled
  <2>3. CASE committed[TopicOf(log[o])] # Nothing
    <3>1. o \in 1 .. committed[TopicOf(log[o])]
      BY <1>1, <1>2, <1>4, <2>1, <2>3
    <3>2. Settled(o)
      BY <2>1, <2>3, <3>1 DEF IInv, CommittedIsHandled, Settled
    <3> QED BY <1>6, <3>2
  <2> QED BY <2>2, <2>3
<1>8. CommittedIsHandled'
  BY <1>1, <1>6 DEF IInv, CommittedIsHandled, Settled
<1>9. MailInv' /\ OncePerBreak'
  BY <1>1 DEF IInv, MailInv, Open, OncePerBreak, Offsets, MaxOffset
<1>10. TaskInv'
  BY <1>1, <1>2 DEF TaskInv
<1> QED BY <1>3, <1>5, <1>7, <1>8, <1>9, <1>10 DEF IInv

-----------------------------------------------------------------------------
LEMMA StepIInv == IInv /\ [Next]_vars => IInv'
<1> SUFFICES ASSUME IInv, [Next]_vars PROVE IInv'
  OBVIOUS
<1>1. pub \in [Events -> PubStates]
      /\ bus \in BusStates
  BY DEF IInv, Types
<1>2. ASSUME NEW e \in Events, Save(e) PROVE IInv'
  BY <1>1, <1>2, PublisherStep DEF Save, Move, PubStates
<1>3. ASSUME NEW e \in Events, GetProducer(e) PROVE IInv'
  <2>1. CASE bus = "none"
    BY <1>1, <1>3, <2>1, PublisherStep DEF GetProducer, Move, PubStates, BusStates
  <2>2. CASE bus = "up"
    BY <1>1, <1>3, <2>2, PublisherStep DEF GetProducer, Move, PubStates
  <2>3. CASE bus = "broken"
    BY <1>1, <1>3, <2>3, PublisherStep DEF GetProducer, Move, PubStates
  <2>4. CASE bus = "connecting"
    BY <1>1, <1>3, <2>4, PublisherStep DEF GetProducer, Move, PubStates
  <2> QED BY <1>1, <2>1, <2>2, <2>3, <2>4 DEF BusStates
<1>4. ASSUME NEW e \in Events, Send(e) PROVE IInv'
  <2>1. Len(log) \in Nat /\ Len(log) <= MaxLog + Cardinality(Published)
        /\ IsFiniteSet(Published) /\ Cardinality(Published) \in Nat
        /\ lost \in [Events -> Nat]
    BY Bounds, FS_CardinalityType DEF IInv, Types
  <2>2. CASE log' = Append(log, e) /\ Move(e, "done") /\ UNCHANGED lost
    <3>1. Published' = Published \union {e} /\ e \notin Published
      BY <1>1, <1>4, <2>2 DEF Published, Move, Send
    <3>2. Cardinality(Published') = Cardinality(Published) + 1
      BY <2>1, <3>1, FS_AddElement
    <3>3. Len(log) + 1 <= MaxLog + Cardinality(Published')
      BY <2>1, <3>2, EventDeliveryAssumption
    <3>4. pub' \in [Events -> PubStates] /\ lost' \in [Events -> Nat]
          /\ UNCHANGED <<bus, group, task, history>>
      BY <1>1, <1>4, <2>1, <2>2 DEF Send, Move, PubStates
    <3>5. Taken(e)' = Taken(e) + 1 /\ \A x \in Events \ {e} : Taken(x)' = Taken(x)
      BY <1>1, <1>4, <2>1, <2>2 DEF Send, Move, Taken
    <3> QED BY <2>2, <3>3, <3>4, <3>5, AppendStep
  <2>3. CASE /\ log' = Append(log, e) /\ Len(log) < MaxLog /\ UNCHANGED pub
             /\ lost' = [lost EXCEPT ![e] = @ + 1]
    <3>1. Published' = Published
      BY <2>3 DEF Published
    <3>2. Len(log) + 1 <= MaxLog + Cardinality(Published')
      BY <2>1, <2>3, <3>1, EventDeliveryAssumption
    <3>3. pub' \in [Events -> PubStates] /\ lost' \in [Events -> Nat]
          /\ UNCHANGED <<bus, group, task, history>>
      BY <1>1, <1>4, <2>1, <2>3 DEF Send
    <3>4. Taken(e)' = Taken(e) + 1 /\ \A x \in Events \ {e} : Taken(x)' = Taken(x)
      BY <1>1, <1>4, <2>1, <2>3 DEF Send, Taken
    <3> QED BY <2>3, <3>2, <3>3, <3>4, AppendStep
  <2>4. CASE UNCHANGED <<log, lost>> /\ Move(e, "failed")
    BY <1>1, <1>4, <2>4, PublisherStep DEF Send, Move, PubStates
  <2> QED BY <1>4, <2>2, <2>3, <2>4 DEF Send
<1>5. CASE Connected
  <2>1. pub' = [e \in Events |-> IF pub[e] = "waiting" THEN "sending" ELSE pub[e]]
    BY <1>5 DEF Connected, Resolved
  <2> QED BY <1>1, <1>5, <2>1, PublisherStep DEF Connected, PubStates, BusStates
<1>6. CASE ConnectFails
  <2>1. pub' = [e \in Events |-> IF pub[e] = "waiting" THEN "failed" ELSE pub[e]]
    BY <1>6 DEF ConnectFails, Rejected
  <2> QED BY <1>1, <1>6, <2>1, PublisherStep DEF ConnectFails, PubStates, BusStates
<1>7. CASE RestartPublisher
  BY <1>1, <1>7, PublisherStep DEF RestartPublisher, PubStates, BusStates
<1>8. CASE Join
  BY <1>8, JoinStep
<1>9. CASE HandleEvent
  BY <1>9, HandleStep
<1>10. CASE ReadPreference
  BY <1>10, PreferenceStep
<1>11. CASE DispatchMail \/ DispatchPush
  BY <1>11, DispatchStep DEF DispatchMail, DispatchPush
<1>12. CASE SaveRecord
  <2>1. task # NoTask
    BY <1>12 DEF SaveRecord, NoTask, Task
  <2> QED BY <1>12, <2>1, DoneStep DEF SaveRecord
<1>13. CASE QueryFails \/ CrashConsumer
  BY <1>13, BreakStep
<1>14. CASE Commit
  BY <1>14, CommitStep
<1>15. CASE UNCHANGED vars
  BY <1>1, <1>15, PublisherStep DEF vars, producer
<1> QED BY <1>2, <1>3, <1>4, <1>5, <1>6, <1>7, <1>8, <1>9, <1>10, <1>11, <1>12,
           <1>13, <1>14, <1>15 DEF Next, Publisher, Connection, Consumer

THEOREM Inductive == Spec => []IInv
BY InitIInv, StepIInv, PTL DEF Spec

(* The types, and with them that a message in hand is one of the log's and *)
(* that the log is no longer than its resends and answered requests allow. *)
THEOREM TypeCorrect == Spec => []TypeOK
<1>1. IInv => TypeOK
  <2> SUFFICES ASSUME IInv PROVE TypeOK
    OBVIOUS
  <2>1. task = NoTask \/ (alive /\ position[TopicOf(log[task.at])] < task.at)
    BY Shape DEF IsNext
  <2>2. task \in [pc : {"idle", "decide", "dispatch", "save"}, at : 0 .. Len(log),
                  todo : Seq(Templates)]
    <3>1. CASE task = NoTask
      BY <3>1, Bounds DEF NoTask, Task, IInv
    <3>2. CASE task # NoTask
      <4>1. PICK p \in {"decide", "dispatch", "save"}, o \in 1 .. Len(log),
                 todo \in Seq(Templates) : task = [pc |-> p, at |-> o, todo |-> todo]
        BY <3>2 DEF IInv, TaskInv, Task
      <4>2. o \in 0 .. Len(log)
        BY Bounds DEF IInv
      <4> QED BY <4>1, <4>2
    <3> QED BY <3>1, <3>2
  <2> QED BY <2>1, <2>2, Bounds DEF IInv, Types, TypeOK, PubStates, BusStates
<1> QED BY <1>1, Inductive, PTL

(* No committed offset leaves a notification behind that a consumer should *)
(* have sent (server.ts:25, notification-service.ts send).                 *)
THEOREM NothingBehindTheCommit == Spec => []CommittedIsHandled
<1>1. IInv => CommittedIsHandled
  BY DEF IInv
<1> QED BY <1>1, Inductive, PTL

(* A notification leaves at most once for each time the broker took its    *)
(* event, and once more for each of them at each break of the consumer     *)
(* (eventbus.ts:58; notification-service.ts send: dispatched first,        *)
(* recorded second).                                                       *)
THEOREM MailsAreAccountedFor == Spec => []DuplicatesHaveACause
<1>1. IInv => DuplicatesHaveACause
  <2> SUFFICES ASSUME IInv, NEW e \in Events, NEW m \in Templates
               PROVE  Cardinality(Mails(e, m)) <= Taken(e) * (1 + aborts)
    BY DEF DuplicatesHaveACause
  <2> DEFINE All == Copies(e) \X (1 .. 1 + aborts)
  <2>1. Len(log) \in Nat /\ aborts \in Nat /\ 1 + aborts \in Nat
    BY Bounds DEF IInv, Types
  <2>2. IsFiniteSet(Copies(e))
    BY CopiesFinite
  <2>3. IsFiniteSet(1 .. 1 + aborts) /\ Cardinality(1 .. 1 + aborts) = 1 + aborts
    BY <2>1, FS_Interval
  <2>4. /\ IsFiniteSet(All)
        /\ Cardinality(All) = Cardinality(Copies(e)) * (1 + aborts)
    BY <2>2, <2>3, FS_Product
  <2>5. Mails(e, m) \subseteq All
    <3> SUFFICES ASSUME NEW x \in Mails(e, m) PROVE x \in All
      OBVIOUS
    <3>1. PICK o \in Copies(e) : x \in {o} \X (1 .. mailed[<<o, m>>])
      BY DEF Mails
    <3>2. o \in Offsets
      BY InLog DEF Copies
    <3>3. mailed[<<o, m>>] \in Nat /\ mailed[<<o, m>>] <= 1 + aborts
      BY <3>2 DEF IInv, Types, OncePerBreak
    <3> QED BY <2>1, <3>1, <3>3
  <2>6. Cardinality(Mails(e, m)) <= Cardinality(All)
    BY <2>4, <2>5, FS_Subset
  <2>7. Cardinality(Copies(e)) = Taken(e)
    BY DEF IInv, CopyInv
  <2> QED BY <2>4, <2>6, <2>7
<1> QED BY <1>1, Inductive, PTL

-----------------------------------------------------------------------------
(* What PublishSettles rests on beside fairness: a request that awaits the *)
(* producer has a connection attempt to wait for, one that sends has a     *)
(* connection, and requests only move forward.                             *)
NobodyIsForgotten ==
  \A e \in Events : /\ pub[e] = "waiting" => bus = "connecting"
                    /\ pub[e] = "sending" => bus = "up"

Stage(e) == CASE pub[e] = "none" -> 0 [] pub[e] = "saved" -> 1
              [] pub[e] = "waiting" -> 2 [] pub[e] = "sending" -> 3 [] OTHER -> 4
RequestsMoveOn == [][\A e \in Events : pub'[e] = pub[e] \/ Stage(e) < Stage(e)']_vars

LEMMA ServedStep ==
  ASSUME IInv, NobodyIsForgotten, [Next]_vars
  PROVE  /\ NobodyIsForgotten'
         /\ \A e \in Events : pub'[e] = pub[e] \/ Stage(e) < Stage(e)'
<1>1. /\ pub \in [Events -> PubStates]
      /\ bus \in BusStates
  BY DEF IInv, Types
<1> USE <1>1 DEF NobodyIsForgotten, Stage, PubStates, BusStates
<1>2. ASSUME NEW e \in Events, Save(e) \/ Send(e)
      PROVE  /\ NobodyIsForgotten'
             /\ \A x \in Events : pub'[x] = pub[x] \/ Stage(x) < Stage(x)'
  BY <1>2 DEF Save, Send, Move
<1>3. ASSUME NEW e \in Events, GetProducer(e)
      PROVE  /\ NobodyIsForgotten'
             /\ \A x \in Events : pub'[x] = pub[x] \/ Stage(x) < Stage(x)'
  BY <1>3 DEF GetProducer, Move
<1>4. CASE Connection
  BY <1>4 DEF Connection, Connected, ConnectFails, Resolved, Rejected
<1>5. CASE RestartPublisher
  BY <1>5 DEF RestartPublisher
<1>6. CASE UNCHANGED producer
  BY <1>6 DEF producer
<1> QED
  BY <1>2, <1>3, <1>4, <1>5, <1>6
  DEF Next, Publisher, Consumer, Join, HandleEvent, ReadPreference, DispatchMail,
      DispatchPush, Dispatched, SaveRecord, QueryFails, Commit, CrashConsumer, vars

(* No request of getProducer waits for a connection that nobody is making, *)
(* also after one that failed or a restart, and none goes back.            *)
THEOREM WaitersAreServed == Spec => []NobodyIsForgotten /\ RequestsMoveOn
<1>1. Init => NobodyIsForgotten
  BY DEF Init, NobodyIsForgotten
<1>2. IInv /\ NobodyIsForgotten /\ [Next]_vars => NobodyIsForgotten'
  BY ServedStep
<1>3. IInv /\ NobodyIsForgotten /\ [Next]_vars
        => [\A e \in Events : pub'[e] = pub[e] \/ Stage(e) < Stage(e)']_vars
  BY ServedStep
<1> QED
  BY <1>1, <1>2, <1>3, Inductive, PTL DEF Spec, RequestsMoveOn

=============================================================================
