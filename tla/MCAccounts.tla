----------------------------- MODULE MCAccounts -----------------------------
(* Instances of Accounts for TLC: parents, addresses and request slots are *)
(* interchangeable.                                                        *)
EXTENDS Accounts, TLC

Interchangeable ==
  Permutations(Parents) \union Permutations(Emails) \union Permutations(Requests)

=============================================================================
