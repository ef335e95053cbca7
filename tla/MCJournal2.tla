----------------------------- MODULE MCJournal2 -----------------------------
(***************************************************************************)
(* Module Journal2 with a few threads, for TLC.                            *)
(***************************************************************************)
EXTENDS Journal2
=============================================================================
