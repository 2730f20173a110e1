-------------------------- MODULE MCTransactionArgs --------------------------
(* Instances of TransactionArgs for TLC; the constants are set in the cfg. *)
EXTENDS TransactionArgs
=============================================================================
