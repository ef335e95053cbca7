------------------------------- MODULE MCWmgr -------------------------------
(***************************************************************************)
(* Module Wmgr on small journals, for TLC.  Transactions are only told     *)
(* apart by what they do, so their ids are symmetric.                      *)
(***************************************************************************)
EXTENDS Wmgr, TLC

XidSymmetry == Permutations(Xids)
=============================================================================
