------------------------------- MODULE MCFill -------------------------------
(***************************************************************************)
(* Fill for TLC: two requests, of one process or of two.                   *)
(***************************************************************************)
EXTENDS Fill

CONSTANTS r1, r2, h1, h2

SameOrOther == {[r \in {r1, r2} |-> h1], [r \in {r1, r2} |-> IF r = r1 THEN h1 ELSE h2]}
=============================================================================
