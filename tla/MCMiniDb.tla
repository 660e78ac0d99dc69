------------------------------ MODULE MCMiniDb ------------------------------
(* A MiniDb on a small instance. *)
EXTENDS MiniDb
=============================================================================
