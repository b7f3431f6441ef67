------------------------------- MODULE MCBookSync -------------------------------
(* BookSync with two prices, so that bids and asks can cross. *)
EXTENDS BookSync

MCPrices == {1, 2}
================================================================================
