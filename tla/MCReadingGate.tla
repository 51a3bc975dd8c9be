--------------------------- MODULE MCReadingGate ---------------------------
(* Instances of ReadingGate for TLC: the last gate of the scene allows no  *)
(* retry.                                                                  *)
EXTENDS ReadingGate, TLC

OneThenNone == <<1, 0>>

Interchangeable == Permutations(Messages)

=============================================================================
