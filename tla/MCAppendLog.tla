------------------------------ MODULE MCAppendLog ------------------------------
(* The append-log store on a small instance. *)
EXTENDS AppendLog
================================================================================
