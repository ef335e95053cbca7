--------------------------- MODULE MCMsgStoreTxn ---------------------------
(***************************************************************************)
(* Module MsgStoreTxn on small stores, for TLC.  Transactions are told     *)
(* apart only by what is done in them.                                     *)
(***************************************************************************)
EXTENDS MsgStoreTxn, TLC

XidSymmetry == Permutations(Xids)
=============================================================================
