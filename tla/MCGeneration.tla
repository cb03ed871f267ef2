---------------------------- MODULE MCGeneration ----------------------------
(***************************************************************************)
(* Generation for TLC: two stores and a retrieval that may freshen.        *)
(***************************************************************************)
EXTENDS Generation

CONSTANTS s1, s2, g1
=============================================================================
