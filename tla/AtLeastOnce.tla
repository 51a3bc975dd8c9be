---------------------------- MODULE AtLeastOnce ----------------------------
(***************************************************************************)
(* What an acknowledged call across the React Native / Unity bridge        *)
(* promises: a call that succeeds was executed, a call is executed a       *)
(* bounded number of times, and a call that was given up may have been     *)
(* executed all the same, or be executed later.                            *)
(***************************************************************************)
EXTENDS Naturals

CONSTANTS Messages, MaxTimes

VARIABLES call,   \* "none", "open", "resolved" or "rejected"
          done    \* how often the call was executed

vars == <<call, done>>

Init ==
  /\ call = [m \in Messages |-> "none"]
  /\ done = [m \in Messages |-> 0]

Invoke(m) ==
  /\ call[m] = "none"
  /\ call' = [call EXCEPT ![m] = "open"]
  /\ UNCHANGED done

Execute(m) ==
  /\ call[m] # "none"
  /\ done[m] < MaxTimes
  /\ done' = [done EXCEPT ![m] = @ + 1]
  /\ UNCHANGED call

Succeed(m) ==
  /\ call[m] = "open"
  /\ done[m] > 0
  /\ call' = [call EXCEPT ![m] = "resolved"]
  /\ UNCHANGED done

GiveUp(m) ==
  /\ call[m] = "open"
  /\ call' = [call EXCEPT ![m] = "rejected"]
  /\ UNCHANGED done

Next == \E m \in Messages : Invoke(m) \/ Execute(m) \/ Succeed(m) \/ GiveUp(m)

Spec == Init /\ [][Next]_vars

=============================================================================
