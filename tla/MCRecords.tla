----------------------------- MODULE MCRecords -----------------------------
(* Instance of Records for TLC: the cfg gives sizes of a few units.        *)
EXTENDS Records
=============================================================================
