---------------------------- MODULE UnityBridge ----------------------------
(***************************************************************************)
(* Acknowledged messages from React Native to Unity                        *)
(* (src/mobile/src/unity/bridge.ts and, on the Unity side,                 *)
(* mobile/unity/Assets/Scripts/Bridge).                                    *)
(*                                                                         *)
(* One message is one call of sendToUnity; the copies that its retries     *)
(* send are equal.  The native channel holds copies and acknowledgements   *)
(* for as long as it likes (Unity does not run while the app is in the     *)
(* background), gives them out in any order and may lose them (no          *)
(* UnityMessageManager, no BridgeManager yet).  A timer callback and a     *)
(* message handler run to their end on the one JavaScript thread.          *)
(***************************************************************************)
EXTENDS Naturals

CONSTANTS Messages,           \* the calls of sendToUnity
          BRIDGE_MAX_RETRIES

ASSUME BridgeAssumption == BRIDGE_MAX_RETRIES \in Nat

VARIABLES
  promise,      \* the promise of each call
  pendingAcks,  \* the calls whose acknowledgement would be accepted
  ackTimer,     \* the calls whose acknowledgement timer runs
  attempts,     \* how often each message was sent
  toUnity,      \* the copies of each message on their way
  toRN,         \* the acknowledgements of each message on their way
  handled       \* history: how often Unity dispatched each message

bridgeVars == <<promise, pendingAcks, ackTimer, attempts, toUnity, toRN, handled>>

BridgeTypeOK ==
  /\ promise \in [Messages -> {"none", "open", "resolved", "rejected"}]
  /\ pendingAcks \subseteq Messages
  /\ ackTimer \subseteq Messages
  /\ attempts \in [Messages -> 0 .. BRIDGE_MAX_RETRIES + 1]
  /\ toUnity \in [Messages -> Nat]
  /\ toRN \in [Messages -> Nat]
  /\ handled \in [Messages -> Nat]

BridgeInit ==
  /\ promise = [m \in Messages |-> "none"]
  /\ pendingAcks = {}
  /\ ackTimer = {}
  /\ attempts = [m \in Messages |-> 0]
  /\ toUnity = [m \in Messages |-> 0]
  /\ toRN = [m \in Messages |-> 0]
  /\ handled = [m \in Messages |-> 0]

-----------------------------------------------------------------------------
(* Plausible slips, used only to show that the properties notice them. *)
OneMore(m) == attempts[m] > BRIDGE_MAX_RETRIES + 1
ReceiveAckKeepsTimer(m) ==
  /\ toRN[m] > 0
  /\ toRN' = [toRN EXCEPT ![m] = @ - 1]
  /\ IF m \in pendingAcks
     THEN /\ pendingAcks' = pendingAcks \ {m}
          /\ promise' = [promise EXCEPT ![m] = "resolved"]
     ELSE UNCHANGED <<pendingAcks, promise>>
  /\ UNCHANGED <<ackTimer, attempts, toUnity, handled>>
TimeoutKeepsPromise(m) ==
  /\ m \in ackTimer
  /\ pendingAcks' = pendingAcks \ {m}
  /\ ackTimer' = ackTimer \ {m}
  /\ UNCHANGED <<promise, attempts, toUnity, toRN, handled>>

-----------------------------------------------------------------------------
(* sendToUnity *)
Send(m) ==
  /\ promise[m] = "none"
  /\ promise' = [promise EXCEPT ![m] = "open"]
  /\ pendingAcks' = pendingAcks \union {m}
  /\ toUnity' = [toUnity EXCEPT ![m] = @ + 1]
  /\ attempts' = [attempts EXCEPT ![m] = @ + 1]
  /\ ackTimer' = ackTimer \union {m}
  /\ UNCHANGED <<toRN, handled>>

OutOfRetries(m) == attempts[m] > BRIDGE_MAX_RETRIES

(* The timer of the latest attempt fires.  The call is no longer pending,  *)
(* also when it is tried again.                                            *)
Timeout(m) ==
  /\ m \in ackTimer
  /\ pendingAcks' = pendingAcks \ {m}
  /\ \/ /\ OutOfRetries(m)
        /\ ackTimer' = ackTimer \ {m}
        /\ promise' = [promise EXCEPT ![m] = "rejected"]
        /\ UNCHANGED <<attempts, toUnity>>
     \/ /\ ~ OutOfRetries(m)
        /\ toUnity' = [toUnity EXCEPT ![m] = @ + 1]
        /\ attempts' = [attempts EXCEPT ![m] = @ + 1]
        /\ UNCHANGED <<ackTimer, promise>>
  /\ UNCHANGED <<toRN, handled>>

(* handleMessageFromUnity with a BRIDGE_ACK: only a pending call takes it. *)
ReceiveAck(m) ==
  /\ toRN[m] > 0
  /\ toRN' = [toRN EXCEPT ![m] = @ - 1]
  /\ IF m \in pendingAcks
     THEN /\ ackTimer' = ackTimer \ {m}
          /\ pendingAcks' = pendingAcks \ {m}
          /\ promise' = [promise EXCEPT ![m] = "resolved"]
     ELSE UNCHANGED <<ackTimer, pendingAcks, promise>>
  /\ UNCHANGED <<attempts, toUnity, handled>>

(* OnMessageFromRN and BridgeManager.Dispatch: every copy is handled and   *)
(* acknowledged.                                                           *)
Dispatch(m) ==
  /\ toUnity[m] > 0
  /\ toUnity' = [toUnity EXCEPT ![m] = @ - 1]
  /\ handled' = [handled EXCEPT ![m] = @ + 1]
  /\ toRN' = [toRN EXCEPT ![m] = @ + 1]
  /\ UNCHANGED <<promise, pendingAcks, ackTimer, attempts>>

(* The native channel loses a copy, or an acknowledgement. *)
LoseMessage(m) ==
  /\ toUnity[m] > 0
  /\ toUnity' = [toUnity EXCEPT ![m] = @ - 1]
  /\ UNCHANGED <<promise, pendingAcks, ackTimer, attempts, toRN, handled>>
LoseAck(m) ==
  /\ toRN[m] > 0
  /\ toRN' = [toRN EXCEPT ![m] = @ - 1]
  /\ UNCHANGED <<promise, pendingAcks, ackTimer, attempts, toUnity, handled>>

(* What goes on while nobody sends and Unity handles nothing. *)
Transport(m) == Timeout(m) \/ ReceiveAck(m) \/ LoseMessage(m) \/ LoseAck(m)

BridgeNext == \E m \in Messages : Send(m) \/ Dispatch(m) \/ Transport(m)

BridgeSpec == BridgeInit /\ [][BridgeNext]_bridgeVars

-----------------------------------------------------------------------------
(* A timer runs exactly while its promise is open: no callback fires for   *)
(* a call that was settled and none is settled twice; and only an open     *)
(* call can still be acknowledged.                                         *)
TimersMatchCalls ==
  /\ ackTimer = {m \in Messages : promise[m] = "open"}
  /\ pendingAcks \subseteq ackTimer

(* A promise that resolved tells the truth: Unity handled the message.     *)
ResolvedWasHandled == \A m \in Messages : promise[m] = "resolved" => handled[m] > 0

(* Copies and acknowledgements are never made from nothing: Unity handles  *)
(* a message at most once per attempt, and at most BRIDGE_MAX_RETRIES + 1  *)
(* times.                                                                  *)
RedeliveryIsBounded ==
  \A m \in Messages :
    /\ handled[m] + toUnity[m] <= attempts[m]
    /\ toRN[m] <= handled[m]

(* The bridge implements an at-least-once call. *)
Rpc == INSTANCE AtLeastOnce WITH
         MaxTimes <- BRIDGE_MAX_RETRIES + 1, call <- promise, done <- handled
RpcSpec == Rpc!Spec

(* Every promise settles, acknowledged or not, since timers fire.          *)
EverySendSettles ==
  \A m \in Messages : promise[m] = "open" ~> promise[m] \in {"resolved", "rejected"}

=============================================================================
