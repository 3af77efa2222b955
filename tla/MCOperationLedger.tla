-------------------------- MODULE MCOperationLedger --------------------------
(* Small instances of OperationLedger. *)
EXTENDS OperationLedger
=============================================================================
