------------------------------ MODULE MCLookup ------------------------------
(* Small instances of Lookup, and of the cache without lookups, for TLC. *)
EXTENDS Lookup, TLC

\* Requests are interchangeable.
WriterSymmetry == Permutations(Writers)
=============================================================================
