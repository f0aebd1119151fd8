------------------------------ MODULE MCPipeline ------------------------------
(* Pipeline for TLC: two programs into one output directory show everything  *)
(* one leaves behind for the next.                                           *)
EXTENDS Pipeline
=============================================================================
