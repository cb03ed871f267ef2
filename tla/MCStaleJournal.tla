--------------------------- MODULE MCStaleJournal ---------------------------
(***************************************************************************)
(* Instances of StaleJournal for TLC.                                      *)
(***************************************************************************)
EXTENDS StaleJournal
=============================================================================
