----------------------------- MODULE MCRecovery -----------------------------
(***************************************************************************)
(* Module Recovery on small journals, for TLC.                             *)
(***************************************************************************)
EXTENDS Recovery

\* Bound: after the last crash a journal is recovered and looked at, not written.
LastCrash == crashes = MaxCrash => op.pc = "readonly" \/ MaxCrash = 0
=============================================================================
