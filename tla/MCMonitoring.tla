------------------------------ MODULE MCMonitoring ------------------------------
(* Monitoring with two dashboards. *)
EXTENDS Monitoring
CONSTANTS c1, c2

MCClients == {c1, c2}
================================================================================
