--------------------------- MODULE MCProgressSync ---------------------------
(* Instances of ProgressSync for TLC: one attempt belongs to a session     *)
(* created online, the others to sessions created on the device.           *)
EXTENDS ProgressSync, TLC

CONSTANTS on, off1, off2, a1, a2

SessionOfAttempt == (a1 :> on) @@ (a2 :> off1)
FirstCompleted == (off1 :> "completed")

Interchangeable == Permutations(Requests)

=============================================================================
