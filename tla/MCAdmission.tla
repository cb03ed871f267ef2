----------------------------- MODULE MCAdmission -----------------------------
(* Instances of Admission for TLC. *)
EXTENDS Admission, TLC

Permuted == Permutations(Writers)

TwoKeys == {1, 2}
ThreeKeys == {1, 2, 3}
NoFaults == {}
RemoveFaults == {"remove"}
\* A new directory, and one beyond the limit, as after MaxSize was lowered.
Directories == {[k \in Keys |-> 0], [k \in Keys |-> 2]}
==============================================================================
