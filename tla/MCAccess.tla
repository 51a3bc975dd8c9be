------------------------------ MODULE MCAccess ------------------------------
(* Instances of Access for TLC: children, tokens and request slots are     *)
(* interchangeable.                                                        *)
EXTENDS Access, TLC

Interchangeable ==
  Permutations(Children) \union Permutations(Tokens) \union Permutations(Requests)

=============================================================================
