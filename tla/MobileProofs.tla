---------------------------- MODULE MobileProofs ----------------------------
(***************************************************************************)
(* Theorems about the app: its session (MobileSession), the bridge         *)
(* (UnityBridge) and the reading gate above it (ReadingGate), for any      *)
(* tokens, refreshes under way, messages, retries and any scene.           *)
(***************************************************************************)
EXTENDS MobileSession, ReadingGate, FiniteSetTheorems, TLAPS

(***************************************************************************)
(* The session.  While there was no mishap at most one refresh is under    *)
(* way, and its step says which token of the family is the only one alive. *)
(***************************************************************************)

Live == born \ dead

CallInv(c) ==
  /\ c \in awaited
  /\ \A d \in Calls \ {c} : At(d, "none")
  /\ call[c].old = stored
  /\ At(c, "issue") => Live = {}
  /\ At(c, "answered") => Live = {call[c].new} /\ call[c].new \in born
  /\ call[c].pc \in {"sent", "revoke", "refused"} => Live = {stored}

OrderlyInv ==
  ~ mishap => /\ Quiet => Live = {stored}
              /\ \A c \in Calls : ~ At(c, "none") => CallInv(c)

IssuedInv == \A c \in Calls : /\ At(c, "answered") => call[c].new \in born
                              /\ call[c].pc \notin {"none"} => call[c].old \in born

IInv == TypeOK /\ OrderlyInv /\ IssuedInv /\ (screen = "active" => timer = "null")

-----------------------------------------------------------------------------
LEMMA CallTypes ==
  ASSUME NEW p \in PC, NEW o \in Tokens \union {NoToken}, NEW n \in Tokens \union {NoToken}
  PROVE  /\ Call(p, o, n) \in CallType
         /\ Call(p, o, n).pc = p /\ Call(p, o, n).old = o /\ Call(p, o, n).new = n
BY DEF Call, CallType

LEMMA NoCallType == NoCall \in CallType /\ NoCall.pc = "none"
BY DEF NoCall, Call, CallType, PC

LEMMA InitIInv == Init => IInv
<1> SUFFICES ASSUME Init PROVE IInv
  OBVIOUS
<1>1. TypeOK
  <2>1. call \in [Calls -> CallType]
    BY NoCallType DEF Init
  <2>2. 0 \in 0 .. MaxTimers
    BY MobileSessionAssumption
  <2> QED BY <2>1, <2>2, MobileSessionAssumption DEF Init, TypeOK
<1>2. OrderlyInv /\ IssuedInv
  BY NoCallType DEF Init, OrderlyInv, IssuedInv, Live, At, Quiet
<1> QED BY <1>1, <1>2 DEF Init, IInv

LEMMA IInvImplies == IInv => TypeOK /\ StrandedOnlyByMishap
BY DEF IInv, StrandedOnlyByMishap, OrderlyInv, Live

(* The app's own steps leave the calls and the tokens alone.               *)
LEMMA AppStep ==
  ASSUME IInv, UNCHANGED <<stored, call, awaited, server, mishap>>,
         screen' \in {"active", "inactive", "background"},
         timer' \in {"null", "armed", "fired"}, strays' \in 0 .. MaxTimers, auth' \in BOOLEAN,
         screen' = "active" => timer' = "null"
  PROVE  IInv'
BY DEF IInv, TypeOK, OrderlyInv, CallInv, IssuedInv, Live, At, Quiet, server

(* One call moves on; everything the server and the store hold may change. *)
LEMMA CallStep ==
  ASSUME IInv, NEW c \in Calls, NEW s \in CallType, Keep(c, s),
         awaited' \subseteq Calls,
         UNCHANGED <<screen, timer, strays>>, auth' \in BOOLEAN,
         stored' \in born', dead' \subseteq born', born' \subseteq Tokens,
         mishap' \in BOOLEAN, born \subseteq born',
         s.pc = "answered" => s.new \in born', s.pc # "none" => s.old \in born',
         ~ mishap' =>
           /\ ~ mishap
           /\ \A d \in Calls \ {c} : At(d, "none")
           /\ s.pc = "none" => Live' = {stored'}
           /\ s.pc # "none" => /\ c \in awaited' /\ s.old = stored'
                               /\ s.pc = "issue" => Live' = {}
                               /\ s.pc = "answered" => Live' = {s.new}
                               /\ s.pc \in {"sent", "revoke", "refused"} => Live' = {stored'}
  PROVE  IInv'
<1>1. call \in [Calls -> CallType]
  BY DEF IInv, TypeOK
<1>2. /\ call' \in [Calls -> CallType] /\ call'[c] = s
      /\ \A d \in Calls \ {c} : call'[d] = call[d]
  BY <1>1 DEF Keep
<1>3. TypeOK'
  BY <1>2 DEF IInv, TypeOK
<1>4. IssuedInv'
  <2>1. ASSUME NEW d \in Calls
        PROVE  /\ At(d, "answered")' => call'[d].new \in born'
               /\ call'[d].pc \notin {"none"} => call'[d].old \in born'
    <3>1. CASE d = c
      BY <1>2, <3>1 DEF At
    <3>2. CASE d # c
      BY <1>2, <3>2 DEF At, IInv, IssuedInv
    <3> QED BY <3>1, <3>2
  <2> QED BY <2>1 DEF IssuedInv
<1>5. OrderlyInv'
  <2>1. SUFFICES ASSUME ~ mishap'
                 PROVE  /\ Quiet' => Live' = {stored'}
                        /\ \A d \in Calls : ~ At(d, "none")' => CallInv(d)'
    BY DEF OrderlyInv
  <2>2. Quiet' => s.pc = "none"
    BY <1>2 DEF Quiet, At
  <2>3. \A d \in Calls : ~ At(d, "none")' => d = c
    BY <1>2, <2>1 DEF At
  <2>4. s.pc # "none" => CallInv(c)'
    BY <1>2, <2>1 DEF CallInv, At
  <2>5. At(c, "none")' <=> s.pc = "none"
    BY <1>2 DEF At
  <2> QED BY <2>1, <2>2, <2>3, <2>4, <2>5
<1> QED BY <1>3, <1>4, <1>5 DEF IInv

-----------------------------------------------------------------------------
LEMMA LifecycleStep == IInv /\ Lifecycle => IInv'
<1> SUFFICES ASSUME IInv, Lifecycle PROVE IInv'
  OBVIOUS
<1> USE MobileSessionAssumption
<1>t. /\ strays \in 0 .. MaxTimers /\ screen \in {"active", "inactive", "background"}
      /\ timer \in {"null", "armed", "fired"} /\ auth \in BOOLEAN /\ mishap \in BOOLEAN
      /\ screen = "active" => timer = "null"
      /\ stored \in born /\ born \subseteq Tokens /\ dead \subseteq born
      /\ call \in [Calls -> CallType] /\ awaited \subseteq Calls
  BY DEF IInv, TypeOK
<1>1. CASE Background
  <2>1. strays' \in 0 .. MaxTimers
    BY <1>t, <1>1 DEF Background, LeftBehind
  <2> QED BY <1>t, <1>1, <2>1, AppStep DEF Background
<1>2. CASE Inactive
  BY <1>t, <1>2, AppStep DEF Inactive
<1>3. CASE TimerFires
  BY <1>t, <1>3, AppStep DEF TimerFires
<1>4. CASE StrayFires
  <2>1. strays' \in 0 .. MaxTimers
    BY <1>t, <1>4 DEF StrayFires
  <2> QED BY <1>t, <1>4, <2>1, AppStep DEF StrayFires
<1>5. CASE Foreground
  <2>1. /\ screen' = "active" /\ timer' = "null" /\ UNCHANGED <<strays, auth, stored, server>>
    BY <1>5 DEF Foreground, Cleared
  <2>2. CASE UNCHANGED <<call, awaited, mishap>>
    BY <1>t, <2>1, <2>2, AppStep
  <2>3. ASSUME NEW c \in Calls, At(c, "none"),
               Keep(c, Call("sent", stored, NoToken)), awaited' = awaited \union {c},
               mishap' = (mishap \/ ~ Quiet)
        PROVE  IInv'
    <3> DEFINE s == Call("sent", stored, NoToken)
    <3>1. s \in CallType /\ s.pc = "sent" /\ s.old = stored
      BY <1>t, CallTypes DEF PC
    <3> HIDE DEF s
    <3>2. ~ mishap' => Live' = {stored'} /\ \A d \in Calls : At(d, "none")
      BY <2>1, <2>3 DEF IInv, OrderlyInv, Quiet, Live, server
    <3>3. /\ call' \in [Calls -> CallType] /\ call'[c] = s
          /\ \A d \in Calls \ {c} : call'[d] = call[d]
      BY <1>t, <2>3, <3>1 DEF s, Keep
    <3>4. TypeOK'
      BY <1>t, <2>1, <2>3, <3>3 DEF TypeOK, server
    <3>5. IssuedInv'
      BY <1>t, <2>1, <3>1, <3>3 DEF IInv, IssuedInv, At, server
    <3>6. OrderlyInv'
      BY <2>1, <2>3, <3>1, <3>2, <3>3 DEF OrderlyInv, CallInv, Quiet, At
    <3> QED BY <2>1, <3>4, <3>5, <3>6 DEF IInv
  <2> QED BY <1>5, <2>2, <2>3 DEF Foreground
<1>6. CASE Kill
  <2>0. 0 \in 0 .. MaxTimers
    OBVIOUS
  <2>1. TypeOK' /\ IssuedInv'
    <3>1. TypeOK'
      BY <1>t, <1>6, <2>0 DEF Kill, TypeOK, server
    <3>2. IssuedInv'
      BY <1>6 DEF Kill, IInv, IssuedInv, At, server
    <3> QED BY <3>1, <3>2
  <2>2. ~ mishap' => ~ mishap /\ Quiet
    BY <1>6 DEF Kill
  <2>3. OrderlyInv'
    BY <1>6, <2>2 DEF Kill, IInv, OrderlyInv, Quiet, At, Live, server
  <2> QED BY <1>6, <2>1, <2>3 DEF IInv, Kill
<1> QED BY <1>1, <1>2, <1>3, <1>4, <1>5, <1>6 DEF Lifecycle

LEMMA RefreshStep ==
  ASSUME IInv, NEW c \in Calls, Refresh(c)
  PROVE  IInv'
<1> USE MobileSessionAssumption
<1>t. /\ screen \in {"active", "inactive", "background"}
      /\ auth \in BOOLEAN /\ mishap \in BOOLEAN
      /\ stored \in born /\ born \subseteq Tokens /\ dead \subseteq born
      /\ call[c] \in CallType
      /\ call[c].old \in Tokens \union {NoToken} /\ call[c].new \in Tokens \union {NoToken}
      /\ call[c].pc # "none" => call[c].old \in born
      /\ call[c].pc = "answered" => call[c].new \in born
  BY DEF IInv, TypeOK, CallType, IssuedInv, At
<1>o. ~ mishap /\ call[c].pc # "none" =>
        /\ c \in awaited /\ \A d \in Calls \ {c} : At(d, "none")
        /\ call[c].old = stored
        /\ call[c].pc = "issue" => Live = {}
        /\ call[c].pc = "answered" => Live = {call[c].new}
        /\ call[c].pc \in {"sent", "revoke", "refused"} => Live = {stored}
  BY DEF IInv, OrderlyInv, CallInv, At
<1>d. NoCall \in CallType /\ NoCall.pc = "none" /\ awaited \subseteq Calls
  BY NoCallType DEF IInv, TypeOK
<1>1. CASE ServerFind(c)
  <2> DEFINE p == IF call[c].old \in dead THEN "refused" ELSE "revoke"
             s == Call(p, call[c].old, call[c].new)
  <2>1. /\ Keep(c, s) /\ UNCHANGED awaited /\ call[c].pc = "sent"
        /\ UNCHANGED <<app, born, mishap>>
        /\ dead' = IF call[c].old \in dead THEN born ELSE dead
    BY <1>1 DEF ServerFind, Answer, At
  <2>2. s \in CallType /\ s.pc = p /\ s.old = call[c].old
    BY <1>t, CallTypes DEF PC
  <2> HIDE DEF s
  <2>3. ~ mishap => stored \notin dead /\ call[c].old = stored
    BY <1>o, <2>1 DEF Live
  <2> QED BY <1>t, <1>o, <1>d, <2>1, <2>2, <2>3, CallStep DEF app, Live
<1>2. CASE ServerRevoke(c)
  <2> DEFINE s == Call("issue", call[c].old, call[c].new)
  <2>1. /\ Keep(c, s) /\ UNCHANGED awaited /\ call[c].pc = "revoke"
        /\ UNCHANGED <<app, born, mishap>>
        /\ dead' = dead \union {call[c].old}
    BY <1>2 DEF ServerRevoke, Answer, At
  <2>2. s \in CallType /\ s.pc = "issue" /\ s.old = call[c].old
    BY <1>t, CallTypes DEF PC
  <2> HIDE DEF s
  <2>3. ~ mishap => Live' = {}
    BY <1>o, <2>1 DEF Live, app
  <2> QED BY <1>t, <1>o, <1>d, <2>1, <2>2, <2>3, CallStep DEF app
<1>3. ASSUME NEW t \in Tokens, ServerIssue(c, t) PROVE IInv'
  <2> DEFINE s == Call("answered", call[c].old, t)
  <2>1. /\ Keep(c, s) /\ UNCHANGED awaited /\ call[c].pc = "issue" /\ t \notin born
        /\ UNCHANGED <<app, dead, mishap>>
        /\ born' = born \union {t}
    BY <1>3 DEF ServerIssue, At
  <2>2. s \in CallType /\ s.pc = "answered" /\ s.old = call[c].old /\ s.new = t
       
    BY <1>t, CallTypes DEF PC
  <2> HIDE DEF s
  <2>3. ~ mishap => Live' = {t}
    BY <1>o, <1>t, <2>1 DEF Live
  <2> QED BY <1>t, <1>o, <1>d, <2>1, <2>2, <2>3, CallStep DEF app
<1>4. CASE ServerRefuses(c)
  <2> DEFINE s == Call("refused", call[c].old, call[c].new)
  <2>1. /\ Keep(c, s) /\ UNCHANGED awaited /\ call[c].pc \in {"sent", "revoke", "issue"}
        /\ UNCHANGED <<app, server>>
        /\ mishap' = (mishap \/ call[c].pc = "issue")
    BY <1>4 DEF ServerRefuses, Answer, At
  <2>2. s \in CallType /\ s.pc = "refused" /\ s.old = call[c].old
    BY <1>t, CallTypes DEF PC
  <2> HIDE DEF s
  <2> QED BY <1>t, <1>o, <1>d, <2>1, <2>2, CallStep DEF app, server, Live
<1>5. CASE Lose(c)
  <2>1. /\ Keep(c, NoCall) /\ awaited' = awaited \ {c} /\ call[c].pc \in {"sent", "answered", "refused"}
        /\ UNCHANGED <<app, server>>
        /\ mishap' = (mishap \/ call[c].pc = "answered")
    BY <1>5 DEF Lose, Done, At
  <2> QED BY <1>t, <1>o, <1>d, <2>1, CallStep DEF app, server, Live
<1>6. CASE Refused(c)
  <2>1. /\ Keep(c, NoCall) /\ awaited' = awaited \ {c} /\ call[c].pc = "refused" /\ auth' = FALSE
        /\ UNCHANGED <<screen, timer, strays, stored, server, mishap>>
    BY <1>6 DEF Refused, Done, At
  <2> QED BY <1>t, <1>o, <1>d, <2>1, CallStep DEF server, Live
<1>7. CASE Answered(c)
  <2>1. /\ Keep(c, NoCall) /\ awaited' = awaited \ {c} /\ call[c].pc = "answered" /\ auth' = TRUE
        /\ stored' = call[c].new
        /\ UNCHANGED <<screen, timer, strays, server, mishap>>
    BY <1>7 DEF Answered, Done, At, TokenOf
  <2> QED BY <1>t, <1>o, <1>d, <2>1, CallStep DEF server, Live
<1> QED BY <1>1, <1>2, <1>3, <1>4, <1>5, <1>6, <1>7 DEF Refresh

LEMMA NextIInv == IInv /\ [Next]_vars => IInv'
<1>1. ASSUME IInv, UNCHANGED vars PROVE IInv'
  BY <1>1 DEF vars, app, server, IInv, TypeOK, OrderlyInv, CallInv, IssuedInv, Live, At, Quiet
<1> QED BY <1>1, LifecycleStep, RefreshStep DEF Next

-----------------------------------------------------------------------------
(* The type invariant holds in every behaviour.                            *)
THEOREM TypeCorrect == Spec => []TypeOK
BY InitIInv, NextIInv, IInvImplies, PTL DEF Spec

(* Only a lost answer, a handler that broke off or two refreshes at once   *)
(* leave the app with a token the server refuses (app-store.ts:86-97).     *)
THEOREM Stranding == Spec => []StrandedOnlyByMishap
BY InitIInv, NextIInv, IInvImplies, PTL DEF Spec

(* A session in the foreground is ended by nothing but a kill, a timer     *)
(* left behind or a late answer (app-store.ts:77-97).                      *)
THEOREM ForegroundSurvives == Spec => SessionSurvives
<1>1. IInv /\ [Next]_vars =>
        [screen = "active" /\ auth /\ strays = 0 /\ Quiet => auth' \/ Kill]_vars
  <2>1. SUFFICES ASSUME IInv, Next, screen = "active", auth, strays = 0, Quiet
                 PROVE  auth' \/ Kill
    OBVIOUS
  <2>2. timer = "null" /\ \A c \in Calls : call[c].pc = "none"
    BY <2>1 DEF IInv, Quiet, At
  <2>3. CASE Lifecycle
    <3>1. CASE Background \/ Inactive \/ Foreground
      BY <2>1, <3>1 DEF Background, Inactive, Foreground
    <3>2. CASE TimerFires
      BY <2>2, <3>2 DEF TimerFires
    <3>3. CASE StrayFires
      BY <2>1, <3>3 DEF StrayFires
    <3> QED BY <2>3, <3>1, <3>2, <3>3 DEF Lifecycle
  <2>4. ASSUME NEW c \in Calls, Refresh(c) PROVE FALSE
    BY <2>2, <2>4 DEF Refresh, ServerFind, ServerRevoke, ServerRefuses, ServerIssue, Lose,
                      Refused, Answered, At
  <2> QED BY <2>1, <2>3, <2>4 DEF Next
<1> QED BY <1>1, InitIInv, NextIInv, PTL DEF Spec, SessionSurvives

-----------------------------------------------------------------------------
(***************************************************************************)
(* The bridge alone, for any set of messages and any number of retries.    *)
(* Its own invariants are inductive together with one fact about the       *)
(* promise: a message that was never sent left no trace.                   *)
(***************************************************************************)
NoTrace == \A m \in Messages : promise[m] = "none" <=> attempts[m] = 0

BridgeInv ==
  /\ BridgeTypeOK
  /\ TimersMatchCalls
  /\ ResolvedWasHandled
  /\ RedeliveryIsBounded
  /\ NoTrace

LEMMA BridgeInitInv == BridgeInit => BridgeInv
BY BridgeAssumption
   DEF BridgeInit, BridgeInv, BridgeTypeOK, TimersMatchCalls, ResolvedWasHandled,
       RedeliveryIsBounded, NoTrace

LEMMA BridgeStep == BridgeInv /\ [BridgeNext]_bridgeVars => BridgeInv'
<1> SUFFICES ASSUME BridgeInv, [BridgeNext]_bridgeVars PROVE BridgeInv'
  OBVIOUS
<1> USE BridgeAssumption
<1> USE DEF BridgeInv, BridgeTypeOK, TimersMatchCalls, ResolvedWasHandled,
            RedeliveryIsBounded, NoTrace
<1>1. ASSUME NEW m \in Messages, Send(m) PROVE BridgeInv'
  BY <1>1 DEF Send
<1>2. ASSUME NEW m \in Messages, Timeout(m) PROVE BridgeInv'
  <2>1. CASE OutOfRetries(m)
    BY <1>2, <2>1 DEF Timeout, OutOfRetries
  <2>2. CASE ~ OutOfRetries(m)
    BY <1>2, <2>2 DEF Timeout, OutOfRetries
  <2>3. QED BY <2>1, <2>2
<1>3. ASSUME NEW m \in Messages, ReceiveAck(m) PROVE BridgeInv'
  <2>1. CASE m \in pendingAcks
    <3>1. BridgeTypeOK' /\ TimersMatchCalls' /\ NoTrace'
      BY <1>3, <2>1 DEF ReceiveAck
    <3>2. ResolvedWasHandled'
      BY <1>3, <2>1 DEF ReceiveAck
    <3>3. RedeliveryIsBounded'
      BY <1>3, <2>1 DEF ReceiveAck
    <3> QED BY <3>1, <3>2, <3>3
  <2>2. CASE m \notin pendingAcks
    BY <1>3, <2>2 DEF ReceiveAck
  <2>3. QED BY <2>1, <2>2
<1>4. ASSUME NEW m \in Messages, Dispatch(m) PROVE BridgeInv'
  BY <1>4 DEF Dispatch
<1>5. ASSUME NEW m \in Messages, LoseMessage(m) PROVE BridgeInv'
  BY <1>5 DEF LoseMessage
<1>6. ASSUME NEW m \in Messages, LoseAck(m) PROVE BridgeInv'
  BY <1>6 DEF LoseAck
<1>7. CASE UNCHANGED bridgeVars
  BY <1>7 DEF bridgeVars
<1>8. QED
  BY <1>1, <1>2, <1>3, <1>4, <1>5, <1>6, <1>7 DEF BridgeNext, Transport

LEMMA BridgeInvariant == BridgeSpec => []BridgeInv
BY BridgeInitInv, BridgeStep, PTL DEF BridgeSpec

(* The bridge is an at-least-once call, whatever is lost or late.          *)
LEMMA BridgeIsRpc == BridgeSpec => RpcSpec
<1>1. BridgeInit => Rpc!Init
  BY DEF BridgeInit, Rpc!Init
<1>2. BridgeInv /\ BridgeInv' /\ [BridgeNext]_bridgeVars => [Rpc!Next]_(Rpc!vars)
  <2> SUFFICES ASSUME BridgeInv, BridgeInv', [BridgeNext]_bridgeVars
               PROVE  [Rpc!Next]_(Rpc!vars)
    OBVIOUS
  <2> USE DEF BridgeInv, BridgeTypeOK, Rpc!Next, Rpc!vars
  <2>1. ASSUME NEW m \in Messages, Send(m) PROVE Rpc!Invoke(m)
    BY <2>1 DEF Send, Rpc!Invoke
  <2>2. ASSUME NEW m \in Messages, Timeout(m)
        PROVE  Rpc!GiveUp(m) \/ UNCHANGED Rpc!vars
    BY <2>2 DEF Timeout, TimersMatchCalls, Rpc!GiveUp
  <2>3. ASSUME NEW m \in Messages, ReceiveAck(m)
        PROVE  Rpc!Succeed(m) \/ UNCHANGED Rpc!vars
    <3>1. handled[m] > 0
      BY <2>3 DEF ReceiveAck, RedeliveryIsBounded
    <3>2. m \in pendingAcks => promise[m] = "open"
      BY DEF TimersMatchCalls
    <3>3. QED BY <2>3, <3>1, <3>2 DEF ReceiveAck, Rpc!Succeed
  <2>4. ASSUME NEW m \in Messages, Dispatch(m) PROVE Rpc!Execute(m)
    <3>1. attempts[m] > 0 /\ handled[m] < BRIDGE_MAX_RETRIES + 1
      BY <2>4, BridgeAssumption DEF Dispatch, RedeliveryIsBounded
    <3>2. promise[m] # "none"
      BY <3>1 DEF NoTrace
    <3>3. QED BY <2>4, <3>1, <3>2 DEF Dispatch, Rpc!Execute
  <2>5. ASSUME NEW m \in Messages, LoseMessage(m) \/ LoseAck(m)
        PROVE  UNCHANGED Rpc!vars
    BY <2>5 DEF LoseMessage, LoseAck
  <2>6. CASE UNCHANGED bridgeVars
    BY <2>6 DEF bridgeVars
  <2>7. QED
    BY <2>1, <2>2, <2>3, <2>4, <2>5, <2>6 DEF BridgeNext, Transport
<1>3. QED
  BY <1>1, <1>2, BridgeInvariant, PTL DEF BridgeSpec, RpcSpec, Rpc!Spec

-----------------------------------------------------------------------------
(***************************************************************************)
(* The gate on top of the bridge.                                          *)
(***************************************************************************)
LEMMA GateStarts == GateInit => BridgeInit
BY DEF GateInit

(* Every step of the gate is a step of the bridge or leaves it alone.      *)
LEMMA GateStep == [GateNext]_gateVars => [BridgeNext]_bridgeVars
<1> SUFFICES ASSUME [GateNext]_gateVars PROVE [BridgeNext]_bridgeVars
  OBVIOUS
<1>1. ASSUME NEW g \in Gates, TriggerGate(g) \/ LoseTrigger(g)
      PROVE  UNCHANGED bridgeVars
  BY <1>1 DEF TriggerGate, LoseTrigger
<1>2. ASSUME NEW m \in Messages,
             (\E g \in Gates : HandleGateTriggered(m, g)) \/ ReadAgain(m)
               \/ ValidationFails(m)
      PROVE  UNCHANGED bridgeVars
  BY <1>2 DEF HandleGateTriggered, ReadAgain, ValidationFails
<1>3. ASSUME NEW m \in Messages, HandleAsrResult(m) PROVE Dispatch(m)
  BY <1>3 DEF HandleAsrResult
<1>4. ASSUME NEW m \in Messages, Channel(m) PROVE Transport(m)
  BY <1>4 DEF Channel
<1>5. ASSUME NEW m \in Messages, NEW r \in Results, Validate(m, r) PROVE Send(m)
  BY <1>5 DEF Validate, Validated
<1>6. CASE UNCHANGED gateVars
  BY <1>6 DEF gateVars
<1>7. QED
  BY <1>1, <1>2, <1>3, <1>4, <1>5, <1>6 DEF GateNext, BridgeNext

LEMMA GateUsesBridge == GateSpec => BridgeSpec
BY GateStarts, GateStep, PTL DEF GateSpec, BridgeSpec

(* A timer of sendToUnity runs exactly while its promise is open.          *)
THEOREM NoStrayTimers == GateSpec => []TimersMatchCalls
BY GateUsesBridge, BridgeInvariant, PTL DEF BridgeInv

(* sendToUnity resolves only what BridgeManager.Dispatch handled.          *)
THEOREM ResolvedIsTrue == GateSpec => []ResolvedWasHandled
BY GateUsesBridge, BridgeInvariant, PTL DEF BridgeInv

(* Unity handles an ASR_RESULT at most once per attempt of sendToUnity.    *)
THEOREM HandledPerAttempt == GateSpec => []RedeliveryIsBounded
BY GateUsesBridge, BridgeInvariant, PTL DEF BridgeInv

(* The result of a reading is delivered by an at-least-once call.          *)
THEOREM ImplementsRpc == GateSpec => RpcSpec
BY GateUsesBridge, BridgeIsRpc

(* How often its timer may still fire before a call is settled.            *)
FiringsLeft(m) ==
  IF promise[m] = "open" THEN BRIDGE_MAX_RETRIES + 2 - attempts[m] ELSE 0

(* What EverySendSettles rests on beside the fairness of timers: an open   *)
(* promise of sendToUnity has a timer that runs and at least one firing    *)
(* left, each firing uses one up and no other step gives one back.         *)
TimersSettle ==
  [][\A m \in Messages :
       promise[m] = "open" =>
         /\ m \in ackTimer /\ FiringsLeft(m) \in 1 .. BRIDGE_MAX_RETRIES + 1
         /\ Timeout(m) => FiringsLeft(m)' < FiringsLeft(m)
         /\ FiringsLeft(m)' <= FiringsLeft(m)]_bridgeVars

LEMMA FiringsStep ==
  ASSUME BridgeInv, BridgeNext, NEW m \in Messages, promise[m] = "open"
  PROVE  /\ m \in ackTimer /\ FiringsLeft(m) \in 1 .. BRIDGE_MAX_RETRIES + 1
         /\ Timeout(m) => FiringsLeft(m)' < FiringsLeft(m)
         /\ FiringsLeft(m)' <= FiringsLeft(m)
<1>1. /\ BRIDGE_MAX_RETRIES \in Nat /\ attempts[m] \in 1 .. BRIDGE_MAX_RETRIES + 1
      /\ m \in ackTimer
      /\ attempts \in [Messages -> 0 .. BRIDGE_MAX_RETRIES + 1]
      /\ promise \in [Messages -> {"none", "open", "resolved", "rejected"}]
  BY BridgeAssumption DEF BridgeInv, BridgeTypeOK, TimersMatchCalls, NoTrace
<1>2. FiringsLeft(m) = BRIDGE_MAX_RETRIES + 2 - attempts[m]
  BY DEF FiringsLeft
<1>3. Timeout(m) => FiringsLeft(m)' < FiringsLeft(m) /\ FiringsLeft(m)' <= FiringsLeft(m)
  BY <1>1, <1>2 DEF Timeout, OutOfRetries, FiringsLeft
<1>4. ASSUME NEW n \in Messages, Timeout(n), n # m PROVE FiringsLeft(m)' <= FiringsLeft(m)
  BY <1>1, <1>2, <1>4 DEF Timeout, FiringsLeft
<1>5. ASSUME NEW n \in Messages, Send(n) PROVE FiringsLeft(m)' <= FiringsLeft(m)
  BY <1>1, <1>2, <1>5 DEF Send, FiringsLeft
<1>6. ASSUME NEW n \in Messages, ReceiveAck(n) PROVE FiringsLeft(m)' <= FiringsLeft(m)
  BY <1>1, <1>2, <1>6 DEF ReceiveAck, FiringsLeft
<1>7. ASSUME NEW n \in Messages, Dispatch(n) \/ LoseMessage(n) \/ LoseAck(n)
      PROVE  FiringsLeft(m)' <= FiringsLeft(m)
  BY <1>1, <1>2, <1>7 DEF Dispatch, LoseMessage, LoseAck, FiringsLeft
<1> QED BY <1>1, <1>2, <1>3, <1>4, <1>5, <1>6, <1>7 DEF BridgeNext, Transport

(* Each firing of a timer takes its call nearer to being settled, whatever *)
(* Unity and the channel do: after BRIDGE_MAX_RETRIES + 1 of them it is.   *)
THEOREM TimeoutsRunOut == GateSpec => TimersSettle
<1>1. BridgeInv /\ [BridgeNext]_bridgeVars
        => [\A m \in Messages :
              promise[m] = "open" =>
                /\ m \in ackTimer /\ FiringsLeft(m) \in 1 .. BRIDGE_MAX_RETRIES + 1
                /\ Timeout(m) => FiringsLeft(m)' < FiringsLeft(m)
                /\ FiringsLeft(m)' <= FiringsLeft(m)]_bridgeVars
  BY FiringsStep
<1> QED BY <1>1, GateUsesBridge, BridgeInvariant, PTL DEF BridgeSpec, TimersSettle

(* A run of handleGateTriggered is about a gate of the scene, the prompt   *)
(* and the messages come after the first TriggerGate, and only a finished  *)
(* run sends.                                                              *)
Started ==
  /\ prompt # "none" \/ triggered # {} => currentGateId \in Gates
  /\ \A m \in Messages : run[m] # "none" => gateOf[m] \in Gates /\ currentGateId \in Gates
  /\ \A m \in Messages : promise[m] # "none" => run[m] # "none"

GateInv == BridgeInv /\ GateTypeOK /\ Started

LEMMA GateInitInv == GateInit => GateInv
<1> SUFFICES ASSUME GateInit PROVE GateInv
  OBVIOUS
<1>1. BridgeInv
  BY GateStarts, BridgeInitInv
<1>2. GateTypeOK
  BY <1>1, GateAssumption DEF BridgeInv, GateInit, GateTypeOK, Gates
<1>3. Started
  BY DEF GateInit, BridgeInit, Started
<1>4. QED BY <1>1, <1>2, <1>3 DEF GateInv

LEMMA GateStepInv == GateInv /\ [GateNext]_gateVars => GateInv'
<1> SUFFICES ASSUME GateInv, [GateNext]_gateVars PROVE GateInv'
  OBVIOUS
<1> BridgeInv' /\ BridgeTypeOK'
  BY GateStep, BridgeStep DEF GateInv, BridgeInv
<1> SUFFICES GateTypeOK' /\ Started'
  BY DEF GateInv
<1> USE DEF GateInv, GateTypeOK, Started, Gates, Results, unityVars, runVars, bridgeVars
<1>1. ASSUME NEW g \in Gates, TriggerGate(g) PROVE GateTypeOK' /\ Started'
  BY <1>1, GateAssumption DEF TriggerGate
<1>2. ASSUME NEW g \in Gates, LoseTrigger(g) PROVE GateTypeOK' /\ Started'
  BY <1>2 DEF LoseTrigger
<1>3. ASSUME NEW m \in Messages, NEW g \in Gates, HandleGateTriggered(m, g)
      PROVE  GateTypeOK' /\ Started'
  BY <1>3, GateAssumption DEF HandleGateTriggered, StartRun
<1>4. ASSUME NEW m \in Messages, ReadAgain(m) PROVE GateTypeOK' /\ Started'
  BY <1>4 DEF ReadAgain, StartRun
<1>5. ASSUME NEW m \in Messages, ValidationFails(m) PROVE GateTypeOK' /\ Started'
  BY <1>5 DEF ValidationFails
<1>6. ASSUME NEW m \in Messages, HandleAsrResult(m) PROVE GateTypeOK' /\ Started'
  <2>1. promise[m] # "none"
    BY <1>6, BridgeAssumption
       DEF HandleAsrResult, Dispatch, BridgeInv, BridgeTypeOK, RedeliveryIsBounded, NoTrace
  <2>2. UNCHANGED <<promise, currentGateId, triggered, run, gateOf, retriesRemaining>>
    BY <1>6 DEF HandleAsrResult, Dispatch, OnAsrResult
  <2>3. cleared' \in Nat /\ currentRetries' \in Nat /\ prompt' \in {"none", "retry", "later"}
    BY <1>6 DEF HandleAsrResult, OnAsrResult
  <2>4. QED BY <2>1, <2>2, <2>3
<1>7. ASSUME NEW m \in Messages, Channel(m) PROVE GateTypeOK' /\ Started'
  <2>1. \A n \in Messages : promise'[n] # "none" => promise[n] # "none"
    BY <1>7 DEF Channel, Transport, Timeout, ReceiveAck, LoseMessage, LoseAck,
                BridgeInv, BridgeTypeOK, TimersMatchCalls
  <2>2. QED BY <1>7, <2>1 DEF Channel
<1>8. ASSUME NEW m \in Messages, NEW r \in Results, run[m] = "validating", Validate(m, r)
      PROVE  GateTypeOK' /\ Started'
  <2>1. ASSUME NEW left \in Nat, Validated(m, r, left)
        PROVE  GateTypeOK' /\ Started'
    BY <1>8, <2>1 DEF Validated, Send, BridgeInv, BridgeTypeOK
  <2>2. RemainingOffline(gateOf[m], r) \in Nat
    BY <1>8, GateAssumption DEF RemainingOffline
  <2>3. RemainingOnline(gateOf[m], r) \in Nat
    BY DEF RemainingOnline, attemptNumber
  <2>4. QED BY <1>8, <2>1, <2>2, <2>3 DEF Validate
<1>9. CASE UNCHANGED gateVars
  BY <1>9 DEF gateVars
<1>10. QED
  BY <1>1, <1>2, <1>3, <1>4, <1>5, <1>6, <1>7, <1>8, <1>9 DEF GateNext

(* Every variable of the gate and of the bridge keeps its type.            *)
THEOREM GateTypeCorrect == GateSpec => []GateTypeOK
BY GateInitInv, GateStepInv, PTL DEF GateSpec, GateInv

-----------------------------------------------------------------------------
(* Each gate that was cleared is accounted for by a copy of a PASS that    *)
(* was handled, and only finished runs send copies.                        *)
CountInv ==
  /\ IsFiniteSet(Copies(attempts))
  /\ cleared <= Cardinality(Copies(handled))
  /\ \A m \in Messages : run[m] \in {"none", "validating", "error"} => promise[m] = "none"

(* What was handled was sent.                                              *)
LEMMA HandledWereSent ==
  ASSUME BridgeInv, IsFiniteSet(Copies(attempts))
  PROVE  /\ IsFiniteSet(Copies(handled))
         /\ Cardinality(Copies(handled)) <= Cardinality(Copies(attempts))
         /\ Cardinality(Copies(handled)) \in Nat
<1>1. Copies(handled) \subseteq Copies(attempts)
  BY BridgeAssumption DEF Copies, BridgeInv, BridgeTypeOK, RedeliveryIsBounded
<1> QED BY <1>1, FS_Subset, FS_CardinalityType

(* A message not sent has no copies, whatever its run says.                *)
LEMMA UnsentHasNoCopies ==
  ASSUME BridgeInv, NEW m \in Messages, promise[m] = "none"
  PROVE  attempts[m] = 0 /\ handled[m] = 0
<1>1. attempts[m] = 0 /\ handled[m] \in Nat /\ toUnity[m] \in Nat
  BY DEF BridgeInv, BridgeTypeOK, NoTrace
<1>2. handled[m] + toUnity[m] <= attempts[m]
  BY DEF BridgeInv, RedeliveryIsBounded
<1> QED BY <1>1, <1>2

(* One more attempt adds at most the copy with its number.                 *)
LEMMA OneMoreCopy ==
  ASSUME BridgeInv, IsFiniteSet(Copies(attempts)), NEW m \in Messages,
         \/ attempts' = attempts
         \/ attempts' = [attempts EXCEPT ![m] = @ + 1],
         \A n \in Messages : run'[n] = run[n] \/ attempts[n] = 0
  PROVE  IsFiniteSet(Copies(attempts)')
<1>1. Copies(attempts)' \subseteq Copies(attempts) \union {<<m, attempts[m] + 1>>}
  BY BridgeAssumption DEF Copies, BridgeInv, BridgeTypeOK
<1> QED BY <1>1, FS_AddElement, FS_Subset

LEMMA CountStep ==
  ASSUME GateInv, GateInv', CountInv, [GateNext]_gateVars
  PROVE  CountInv'
<1> USE DEF GateInv, GateTypeOK, BridgeInv, BridgeTypeOK
<1>1. ASSUME NEW m \in Messages, HandleAsrResult(m) PROVE CountInv'
  <2>1. /\ handled' = [handled EXCEPT ![m] = @ + 1]
        /\ UNCHANGED <<attempts, run, promise>>
        /\ cleared' = IF run[m] = "PASS" THEN cleared + 1 ELSE cleared
    BY <1>1 DEF HandleAsrResult, Dispatch, OnAsrResult, runVars
  <2>2. handled[m] + 1 \in 1 .. BRIDGE_MAX_RETRIES + 1
    BY <2>1, BridgeAssumption DEF RedeliveryIsBounded
  <2>3. IsFiniteSet(Copies(attempts)')
    BY <2>1 DEF CountInv, Copies
  <2>4. CASE run[m] = "PASS"
    <3>1. Copies(handled)' = Copies(handled) \union {<<m, handled[m] + 1>>}
      BY <2>1, <2>2, <2>4, BridgeAssumption DEF Copies
    <3>2. <<m, handled[m] + 1>> \notin Copies(handled)
      BY DEF Copies
    <3>3. Cardinality(Copies(handled)') = Cardinality(Copies(handled)) + 1
      <4>1. IsFiniteSet(Copies(handled))
        BY HandledWereSent DEF CountInv
      <4>2. Cardinality(Copies(handled) \union {<<m, handled[m] + 1>>})
              = Cardinality(Copies(handled)) + 1
        BY <3>2, <4>1, FS_AddElement
      <4> QED BY <3>1, <4>2
    <3> QED BY <2>1, <2>3, <2>4, <3>3, HandledWereSent DEF CountInv
  <2>5. CASE run[m] # "PASS"
    <3>1. Copies(handled)' = Copies(handled)
      BY <2>1, <2>5 DEF Copies
    <3> QED BY <2>1, <2>3, <2>5, <3>1 DEF CountInv
  <2> QED BY <2>4, <2>5
(* All other steps handle and clear nothing. *)
<1>2. ASSUME NEW m \in Messages,
             \/ attempts' = attempts
             \/ attempts' = [attempts EXCEPT ![m] = @ + 1],
             UNCHANGED <<handled, cleared>>,
             \A n \in Messages : run'[n] = run[n] \/ promise[n] = "none",
             \A n \in Messages :
               run'[n] \in {"none", "validating", "error"} => promise'[n] = "none"
      PROVE  CountInv'
  <2>1. \A n \in Messages : run'[n] = run[n] \/ (attempts[n] = 0 /\ handled[n] = 0)
    BY <1>2, UnsentHasNoCopies
  <2>2. IsFiniteSet(Copies(attempts)')
    BY <1>2, <2>1, OneMoreCopy DEF CountInv
  <2>3. Copies(handled)' = Copies(handled)
    BY <1>2, <2>1 DEF Copies
  <2> QED BY <1>2, <2>2, <2>3 DEF CountInv
<1>3. ASSUME NEW g \in Gates, TriggerGate(g) \/ LoseTrigger(g) PROVE CountInv'
  BY <1>3 DEF TriggerGate, LoseTrigger, CountInv, Copies, bridgeVars, runVars, unityVars
<1>4. ASSUME NEW m \in Messages,
             (\E g \in Gates : HandleGateTriggered(m, g)) \/ ReadAgain(m) \/ ValidationFails(m)
      PROVE  CountInv'
  <2>1. UNCHANGED bridgeVars /\ cleared' = cleared
    BY <1>4 DEF HandleGateTriggered, ReadAgain, ValidationFails, unityVars
  <2>2. /\ run[m] \in {"none", "validating"}
        /\ run' = [run EXCEPT ![m] = run'[m]] /\ run'[m] \in {"validating", "error"}
    BY <1>4 DEF HandleGateTriggered, ReadAgain, ValidationFails, StartRun
  <2> QED BY <1>2, <2>1, <2>2 DEF CountInv, bridgeVars
<1>5. ASSUME NEW m \in Messages, Channel(m) PROVE CountInv'
  <2>1. /\ UNCHANGED <<handled, cleared, run>>
        /\ \A n \in Messages : promise[n] = "none" => promise'[n] = "none"
        /\ attempts' = attempts \/ attempts' = [attempts EXCEPT ![m] = @ + 1]
    BY <1>5 DEF Channel, Transport, Timeout, ReceiveAck, LoseMessage, LoseAck,
                TimersMatchCalls, unityVars, runVars
  <2> QED BY <1>2, <2>1 DEF CountInv
<1>6. ASSUME NEW m \in Messages, NEW r \in Results, run[m] = "validating", Validate(m, r)
      PROVE  CountInv'
  <2>1. /\ run' = [run EXCEPT ![m] = r] /\ Send(m) /\ cleared' = cleared
    BY <1>6 DEF Validate, Validated, unityVars
  <2> QED BY <1>2, <1>6, <2>1 DEF Send, CountInv, Results
<1>7. CASE UNCHANGED gateVars
  BY <1>7 DEF gateVars, bridgeVars, unityVars, runVars, CountInv, Copies
<1> QED BY <1>1, <1>3, <1>4, <1>5, <1>6, <1>7 DEF GateNext

(* OnGateCleared is called at most once for each copy of a PASS that       *)
(* sendToUnity sent, for any scene, any number of readings and retries.    *)
THEOREM GatesClearedByReading == GateSpec => []ClearedWasRead
<1>1. GateInit => CountInv
  <2> SUFFICES ASSUME GateInit PROVE CountInv
    OBVIOUS
  <2>1. Copies(attempts) = {} /\ Copies(handled) = {}
    BY DEF GateInit, Copies
  <2> QED BY <2>1, FS_EmptySet DEF GateInit, BridgeInit, CountInv
<1>2. GateInv /\ GateInv' /\ CountInv /\ [GateNext]_gateVars => CountInv'
  BY CountStep
<1>3. GateInv /\ CountInv => ClearedWasRead
  <2> SUFFICES ASSUME GateInv, CountInv PROVE ClearedWasRead
    OBVIOUS
  <2>1. Cardinality(Copies(attempts)) \in Nat /\ cleared \in Nat
    BY FS_CardinalityType DEF CountInv, GateInv, GateTypeOK
  <2> QED BY <2>1, HandledWereSent DEF CountInv, GateInv, ClearedWasRead
<1> QED BY <1>1, <1>2, <1>3, GateInitInv, GateStepInv, PTL DEF GateSpec

=============================================================================
