---------------------------- MODULE MCTraceSearch ----------------------------
(* A small instance of TraceSearch. *)
EXTENDS TraceSearch

CONSTANT x
=============================================================================
