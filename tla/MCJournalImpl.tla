---------------------------- MODULE MCJournalImpl ----------------------------
(***************************************************************************)
(* Module JournalImpl on small journals, for TLC.                          *)
(***************************************************************************)
EXTENDS JournalImpl
=============================================================================
