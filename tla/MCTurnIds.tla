------------------------------ MODULE MCTurnIds -------------------------------
(* Turn ids across crashes on a small instance. *)
EXTENDS TurnIds
================================================================================
