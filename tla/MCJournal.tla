------------------------------ MODULE MCJournal ------------------------------
(***************************************************************************)
(* A small instance of the journal for TLC.                                *)
(***************************************************************************)
EXTENDS Journal
==============================================================================
