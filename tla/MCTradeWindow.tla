----------------------------- MODULE MCTradeWindow ------------------------------
(* TradeWindow with streams that start anywhere relative to the aligned windows. *)
EXTENDS TradeWindow

MCStartTimes == 4..5
MCQuantities == {1, 3}
================================================================================
