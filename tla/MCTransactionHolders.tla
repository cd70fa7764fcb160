------------------------ MODULE MCTransactionHolders ------------------------
(***************************************************************************)
(* Two variables that may hold a transaction, one approval request that    *)
(* may be given twice, and two points in time, of which the earlier lies   *)
(* before the creation of the transaction.  The variables are              *)
(* interchangeable.                                                        *)
(***************************************************************************)
EXTENDS TransactionHolders, TLC

CONSTANT Approval

MCApprovals == {Approval}
MCApprovalLists == {<<>>, <<Approval>>, <<Approval, Approval>>}
HolderSymmetry == Permutations(Holders)
=============================================================================
