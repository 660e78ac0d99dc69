----------------------------- MODULE MCPromptQueue -----------------------------
(* The prompt scheduler on a small instance. *)
EXTENDS PromptQueue
================================================================================
