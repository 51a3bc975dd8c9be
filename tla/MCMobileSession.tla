-------------------------- MODULE MCMobileSession --------------------------
(* Instances of MobileSession for TLC: calls are interchangeable.          *)
EXTENDS MobileSession, TLC

Interchangeable == Permutations(Calls) \union Permutations(Tokens \ {First})

=============================================================================
