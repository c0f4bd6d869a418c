-------------------------- MODULE MCApprovalSession --------------------------
(* Small instances of ApprovalSession. *)
EXTENDS ApprovalSession, TLC

CallSymmetry == Permutations(Calls)
=============================================================================
