---------------------------- MODULE TokenForest ----------------------------
(***************************************************************************)
(* What the refresh-token table of auth-service promises whatever the      *)
(* interleaving of its requests: the rows form a forest.  A token is born  *)
(* as the root of a new session or as the child of a token that is already *)
(* dead, it dies at most once, and a dead token never lives again.         *)
(*                                                                         *)
(* AuthTokens is shown to implement this module (theorem                   *)
(* ImplementsTokenForest, and the runs of AuthTokens).                     *)
(***************************************************************************)
CONSTANTS Tokens,   \* the refresh tokens that can ever be minted
          NoToken   \* the predecessor of a token that starts a session

VARIABLES born,     \* the tokens that have been issued
          dead,     \* the issued tokens that were revoked
          parent    \* the token each token was rotated from

vars == <<born, dead, parent>>

Init ==
  /\ born = {}
  /\ dead = {}
  /\ parent = [t \in Tokens |-> NoToken]

Live == born \ dead

(* A session starts. *)
Begin(t) ==
  /\ t \notin born
  /\ born' = born \union {t}
  /\ UNCHANGED <<dead, parent>>

(* A dead token is replaced by a fresh one. *)
Extend(p, t) ==
  /\ p \in dead
  /\ t \notin born
  /\ born' = born \union {t}
  /\ parent' = [parent EXCEPT ![t] = p]
  /\ UNCHANGED dead

(* Some issued tokens are revoked together. *)
Kill(S) ==
  /\ dead' = dead \union S
  /\ UNCHANGED <<born, parent>>

Next ==
  \/ \E t \in Tokens : Begin(t)
  \/ \E p, t \in Tokens : Extend(p, t)
  \/ \E S \in SUBSET born : Kill(S)

Spec == Init /\ [][Next]_vars

=============================================================================
