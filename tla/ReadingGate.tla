---------------------------- MODULE ReadingGate ----------------------------
(***************************************************************************)
(* The reading gate of section 9.2: Unity's GateController, the gate       *)
(* handler and the useASR hook of the app, over the bridge of UnityBridge. *)
(*                                                                         *)
(* A message of the bridge is the ASR_RESULT of one run of                 *)
(* handleGateTriggered.  What calls TriggerGate (a scene reaches its next  *)
(* gate, or starts again) and what lets a child read again after a retry   *)
(* prompt is not under src: see the actions marked external.               *)
(***************************************************************************)
EXTENDS UnityBridge, FiniteSets

CONSTANTS Last,        \* the gates of the scene are 1 .. Last
          MaxRetries   \* maxRetries of each gate

Gates == 1 .. Last
Results == {"PASS", "PARTIAL", "FAIL"}

ASSUME GateAssumption ==
  /\ Last \in Nat \ {0}
  /\ MaxRetries \in [Gates -> Nat]

VARIABLES
  currentGateId,   \* 0 before the first gate
  currentRetries,
  cleared,         \* how often OnGateCleared was called
  prompt,          \* what the child is shown: "none", "retry" or "later"
  triggered,       \* the GATE_TRIGGERED messages on their way
  run,             \* each run of handleGateTriggered: the result, if any
  gateOf,          \* the gate it is about
  retriesRemaining \* what its result says

unityVars == <<currentGateId, currentRetries, cleared, prompt>>
runVars == <<run, gateOf, retriesRemaining>>
gateVars == <<bridgeVars, unityVars, triggered, runVars>>

GateTypeOK ==
  /\ BridgeTypeOK
  /\ currentGateId \in 0 .. Last
  /\ currentRetries \in Nat
  /\ cleared \in Nat
  /\ prompt \in {"none", "retry", "later"}
  /\ triggered \subseteq Gates
  /\ run \in [Messages -> {"none", "validating", "error"} \union Results]
  /\ gateOf \in [Messages -> 0 .. Last]
  /\ retriesRemaining \in [Messages -> Nat]

GateInit ==
  /\ BridgeInit
  /\ currentGateId = 0
  /\ currentRetries = 0
  /\ cleared = 0
  /\ prompt = "none"
  /\ triggered = {}
  /\ run = [m \in Messages |-> "none"]
  /\ gateOf = [m \in Messages |-> 0]
  /\ retriesRemaining = [m \in Messages |-> 0]

-----------------------------------------------------------------------------
(* TriggerGate, called when the scene reaches the gate after those that    *)
(* were cleared, or is played again after "try again later" (external).    *)
TriggerGate(g) ==
  /\ g = cleared + 1
  /\ g # currentGateId \/ prompt = "later"
  /\ currentGateId' = g
  /\ currentRetries' = 0
  /\ triggered' = triggered \union {g}
  /\ prompt' = "none"
  /\ UNCHANGED <<bridgeVars, cleared, runVars>>

LoseTrigger(g) ==
  /\ g \in triggered
  /\ triggered' = triggered \ {g}
  /\ UNCHANGED <<bridgeVars, unityVars, runVars>>

StartRun(m, g) ==
  /\ run[m] = "none"
  /\ run' = [run EXCEPT ![m] = "validating"]
  /\ gateOf' = [gateOf EXCEPT ![m] = g]
  /\ UNCHANGED retriesRemaining

(* handleGateTriggered: the recording is validated. *)
HandleGateTriggered(m, g) ==
  /\ g \in triggered
  /\ triggered' = triggered \ {g}
  /\ StartRun(m, g)
  /\ UNCHANGED <<bridgeVars, unityVars>>

(* The child reads again after a retry prompt (external). *)
ReadAgain(m) ==
  /\ prompt = "retry"
  /\ prompt' = "none"
  /\ StartRun(m, currentGateId)
  /\ UNCHANGED <<bridgeVars, currentGateId, currentRetries, cleared, triggered>>

(* What is left of the retries after a result: asr-service counts down     *)
(* from 3 with the attempt number, which the app always gives as 1; the    *)
(* device does not count.                                                  *)
attemptNumber == 1
RemainingOnline(g, r) == IF r = "PASS" THEN 0 ELSE 3 + 1 - attemptNumber
RemainingOffline(g, r) == IF r = "PASS" THEN 0 ELSE MaxRetries[g]

(* validate answers, and its result is sent. *)
Validated(m, r, left) ==
  /\ run[m] = "validating"
  /\ run' = [run EXCEPT ![m] = r]
  /\ retriesRemaining' = [retriesRemaining EXCEPT ![m] = left]
  /\ Send(m)
  /\ UNCHANGED <<unityVars, triggered, gateOf>>
Validate(m, r) ==
  LET g == gateOf[m] IN
    Validated(m, r, RemainingOnline(g, r)) \/ Validated(m, r, RemainingOffline(g, r))

(* validate throws: the handler catches it and sends nothing. *)
ValidationFails(m) ==
  /\ run[m] = "validating"
  /\ run' = [run EXCEPT ![m] = "error"]
  /\ UNCHANGED <<bridgeVars, unityVars, triggered, gateOf, retriesRemaining>>

(* A plausible slip, used only to show that a property notices it. *)
PartialClears(r, left) ==
  /\ cleared' = IF r = "FAIL" THEN cleared ELSE cleared + 1
  /\ UNCHANGED <<currentGateId, currentRetries, prompt>>

(* OnAsrResult looks neither at the gate the result is about nor at        *)
(* whether the result was seen before.                                     *)
OnAsrResult(r, left) ==
  /\ cleared' = IF r = "PASS" THEN cleared + 1 ELSE cleared
  /\ currentRetries' = IF r # "PASS" /\ left > 0 THEN currentRetries + 1
                       ELSE currentRetries
  /\ prompt' = IF r = "PASS" THEN prompt
               ELSE IF left > 0 THEN "retry" ELSE "later"
  /\ UNCHANGED currentGateId

HandleAsrResult(m) ==
  /\ Dispatch(m)
  /\ OnAsrResult(run[m], retriesRemaining[m])
  /\ UNCHANGED <<triggered, runVars>>

Channel(m) == Transport(m) /\ UNCHANGED <<unityVars, triggered, runVars>>

GateNext ==
  \/ \E g \in Gates : TriggerGate(g) \/ LoseTrigger(g)
  \/ \E m \in Messages :
       \/ \E g \in Gates : HandleGateTriggered(m, g)
       \/ ReadAgain(m) \/ ValidationFails(m) \/ HandleAsrResult(m) \/ Channel(m)
       \/ run[m] = "validating" /\ \E r \in Results : Validate(m, r)

GateSpec == GateInit /\ [][GateNext]_gateVars

(* The JavaScript timers fire. *)
AckTimerFires(m) == Timeout(m) /\ UNCHANGED <<unityVars, triggered, runVars>>
FairGateSpec == GateSpec /\ \A m \in Messages : WF_gateVars(AckTimerFires(m))

-----------------------------------------------------------------------------
(* FR-001, FR-006: gates are cleared by reading.  Unity may clear more     *)
(* gates than were read, since it clears one for every copy of a PASS it   *)
(* handles, but never more than copies were sent: the copies of each       *)
(* message are numbered from 1.                                            *)
Copies(count) ==
  {c \in Messages \X (1 .. BRIDGE_MAX_RETRIES + 1) :
     run[c[1]] = "PASS" /\ c[2] <= count[c[1]]}
ClearedWasRead == cleared <= Cardinality(Copies(attempts))

=============================================================================
