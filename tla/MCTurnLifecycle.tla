-------------------------- MODULE MCTurnLifecycle --------------------------
(* The instances MCTurns*.cfg of TurnLifecycle. Messages are model values;  *)
(* Features says which operations take part.                                *)
EXTENDS TurnLifecycle
============================================================================
