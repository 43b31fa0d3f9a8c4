--------------------------- MODULE MCAgentControl ---------------------------
(***************************************************************************)
(* Instances of AgentControl for TLC; agents, paths and callers are model   *)
(* values, the bound is on the number of calls.                             *)
(***************************************************************************)
EXTENDS AgentControl
=============================================================================
