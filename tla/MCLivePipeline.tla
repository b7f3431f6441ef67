----------------------------- MODULE MCLivePipeline -----------------------------
(* LivePipeline with a queue small enough to overflow. *)
EXTENDS LivePipeline
================================================================================
