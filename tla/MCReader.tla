------------------------------ MODULE MCReader ------------------------------
(***************************************************************************)
(* Module Reader on small journals, for TLC.                               *)
(***************************************************************************)
EXTENDS Reader

\* Bound: after the last crash a journal is recovered and read, not written.
LastCrash == crashes = MaxCrash => op.pc = "readonly" \/ MaxCrash = 0

\* Bound: nothing is read from a journal whose writers cannot enter the next file.
EntersNextFile == op.pc = "exit" => op.res \notin {"FULL", "FILE_AIOWAIT"}
=============================================================================
