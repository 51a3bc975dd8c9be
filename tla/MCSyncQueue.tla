---------------------------- MODULE MCSyncQueue ----------------------------
(* Instances of SyncQueue for TLC: flushes are interchangeable, items are  *)
(* not (they have an age).                                                 *)
EXTENDS SyncQueue, TLC

Interchangeable == Permutations(Flushes)

=============================================================================
