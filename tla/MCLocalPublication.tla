------------------------- MODULE MCLocalPublication -------------------------
(* Small instances of LocalPublication for TLC. *)
EXTENDS LocalPublication, TLC

\* Requests are interchangeable, and so are the calls of recordStale.
Interchangeable == Permutations(Writers) \cup Permutations(Recorders)
=============================================================================
