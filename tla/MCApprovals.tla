----------------------------- MODULE MCApprovals -----------------------------
(***************************************************************************)
(* Instances of Approvals for TLC; connections are model values, the bounds *)
(* are given in the .cfg.                                                   *)
(***************************************************************************)
EXTENDS Approvals
=============================================================================
