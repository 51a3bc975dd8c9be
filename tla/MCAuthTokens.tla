---------------------------- MODULE MCAuthTokens ----------------------------
(* Instances of AuthTokens for TLC: tokens, links and request slots are    *)
(* interchangeable, accounts are not (one is a child).                     *)
EXTENDS AuthTokens, TLC

Interchangeable ==
  Permutations(Tokens) \union Permutations(Links) \union Permutations(Requests)

(* What each run has to tell apart.  No guard reads which deletions were   *)
(* announced or any history; auth_overlap has no property about sweeps and *)
(* auth_resets none about how a session was opened or which token another  *)
(* was rotated from.  What overtook a slot matters while it may issue.     *)
Lineage ==
  <<deleted, password, verified, issued, revoked, row, linkUser, linkUsed, req>>

Aftermath ==
  <<deleted, password, verified, issued, revoked,
    [t \in Tokens |-> <<row[t].user, row[t].family, row[t].since, lateTok[t]>>],
    linkUser, linkUsed, burnt, halfway,
    [r \in Requests |-> <<req[r].pc, req[r].user, req[r].token, req[r].link,
                          req[r].since>>],
    [r \in Requests |-> IF req[r].pc \in Granting THEN lateReq[r] ELSE {}]>>

=============================================================================
