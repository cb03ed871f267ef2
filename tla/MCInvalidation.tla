--------------------------- MODULE MCInvalidation ---------------------------
(* Small instances of Invalidation for TLC. *)
EXTENDS Invalidation
=============================================================================
