---------------------------- MODULE MCClassroom -----------------------------
(* Instances of Classroom for TLC: rooms, students, codes and request      *)
(* slots are interchangeable.                                              *)
EXTENDS Classroom, TLC

Interchangeable ==
  Permutations(Rooms) \union Permutations(Students) \union
  Permutations(Codes) \union Permutations(Requests)

(* No guard reads the goals or `outdated'; the latter matters for a join    *)
(* that is under way.                                                      *)
Told == <<rooms, deleted, code, expired, members, answered, balance, uneven, req,
          outdated \ {r \in Requests : req[r].asked = None}>>

=============================================================================
