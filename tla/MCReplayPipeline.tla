---------------------------- MODULE MCReplayPipeline ----------------------------
(* ReplayPipeline with one symbol that fits and one that does not. *)
EXTENDS ReplayPipeline

MCLengths == {1, 2}
================================================================================
