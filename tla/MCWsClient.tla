------------------------------- MODULE MCWsClient -------------------------------
(* WsClient with delays small enough to reach the cap. *)
EXTENDS WsClient
================================================================================
