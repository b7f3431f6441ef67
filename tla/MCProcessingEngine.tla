--------------------------- MODULE MCProcessingEngine ---------------------------
(* ProcessingEngine with two symbols, the conditions of main.cpp (and
   SPREAD_NARROW) at scaled thresholds and cooldowns, and updates that make a
   balanced, a bid-heavy and a one-sided book. *)
EXTENDS ProcessingEngine, TLC

CONSTANTS s1, s2

MCSymbols == {s1, s2}

Condition(type, num, den, cooldown) == [type |-> type, threshold |-> <<num, den>>, cooldown |-> cooldown]

MCConditions ==
    << Condition("SPREAD_WIDE", 3, 1, 1), Condition("SPREAD_NARROW", 3, 1, 1),
       Condition("IMBALANCE_BID", 7, 10, 1), Condition("IMBALANCE_ASK", 7, 10, 1),
       Condition("PRICE_DEVIATION", 1, 1000, 1),
       Condition("TRADE_IMBALANCE_BUY", 8, 10, 2), Condition("TRADE_IMBALANCE_SELL", 8, 10, 2),
       Condition("VOLUME_SPIKE", 3, 1, 1),
       Condition("BOOK_PRESSURE_BID", 15, 100, 1), Condition("BOOK_PRESSURE_ASK", 15, 100, 1) >>

MCDepths == { [bids |-> (10 :> 1), asks |-> (12 :> 1)],
              [bids |-> (10 :> 9), asks |-> (12 :> 0) @@ (14 :> 1)],
              [bids |-> (10 :> 0), asks |-> (12 :> 1)] }

MCTrades == {[qty |-> 4, buy |-> TRUE], [qty |-> 1, buy |-> FALSE]}

MCSymmetry == Permutations(MCSymbols)
================================================================================
