------------------------------- MODULE Outbox -------------------------------
(***************************************************************************)
(* What the offline queue of the app promises: an item handed to it is     *)
(* held until the server has it or it has grown too old.                   *)
(***************************************************************************)
CONSTANT Items

VARIABLES accepted,   \* the items handed to the outbox
          held,       \* those it still holds
          delivered,  \* those the server has
          aged,       \* those that are too old to be worth sending
          dropped     \* those it let go because of their age

vars == <<accepted, held, delivered, aged, dropped>>

Init ==
  /\ accepted = {}
  /\ held = {}
  /\ delivered = {}
  /\ aged = {}
  /\ dropped = {}

Accept(i) ==
  /\ i \notin accepted
  /\ accepted' = accepted \union {i}
  /\ held' = held \union {i}
  /\ UNCHANGED <<delivered, aged, dropped>>

Age(i) ==
  /\ i \in accepted
  /\ aged' = aged \union {i}
  /\ UNCHANGED <<accepted, held, delivered, dropped>>

(* Delivery is at least once: an item may be delivered again, or after it  *)
(* was let go.                                                             *)
Deliver(i) ==
  /\ i \in accepted
  /\ delivered' = delivered \union {i}
  /\ UNCHANGED <<accepted, held, aged, dropped>>

Release(S) ==
  /\ S \subseteq delivered
  /\ held' = held \ S
  /\ UNCHANGED <<accepted, delivered, aged, dropped>>

Drop(S) ==
  /\ S \subseteq aged
  /\ held' = held \ S
  /\ dropped' = dropped \union S
  /\ UNCHANGED <<accepted, delivered, aged>>

(* An item that was let go may be taken back. *)
Resume(i) ==
  /\ i \in accepted
  /\ held' = held \union {i}
  /\ UNCHANGED <<accepted, delivered, aged, dropped>>

Next ==
  \/ \E i \in Items : Accept(i) \/ Age(i) \/ Deliver(i) \/ Resume(i)
  \/ \E S \in SUBSET Items : Release(S) \/ Drop(S)

Spec == Init /\ [][Next]_vars

=============================================================================
