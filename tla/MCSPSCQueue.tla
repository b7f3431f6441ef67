------------------------------- MODULE MCSPSCQueue ------------------------------
(***************************************************************************)
(* SPSCQueue on a ring small enough for TLC to wrap around it several      *)
(* times with every stale load the memory model permits.                   *)
(***************************************************************************)
EXTENDS SPSCQueue
CONSTANTS i1, i2

MCItems == {i1, i2}
================================================================================
