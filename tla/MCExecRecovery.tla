--------------------------- MODULE MCExecRecovery ---------------------------
(***************************************************************************)
(* Instances of ExecRecovery for TLC; the bounds are given in the .cfg.     *)
(***************************************************************************)
EXTENDS ExecRecovery
=============================================================================
