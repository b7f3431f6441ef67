------------------------------ MODULE Aggregator -------------------------------
(***************************************************************************)
(* The book aggregator of src/src/engine/aggregator.cpp as a value.  Mid    *)
(* prices are doubled, as in OrderBook, and quotients are pairs.            *)
(***************************************************************************)
EXTENDS OrderBook, RollingMean

EmptyAggregator ==
    [mids |-> <<>>, spreads |-> <<>>,
     snapshot |-> [spread |-> 0, mid |-> 0, bidVwap |-> <<0, 1>>, askVwap |-> <<0, 1>>,
                   midSma |-> <<0, 1>>, spreadSma |-> <<0, 1>>,
                   imbalance |-> <<0, 1>>, delta |-> <<0, 1>>, samples |-> 0]]

\* bid_ask_imbalance
Imbalance(book) ==
    LET bid == TotalQty(book.bids)
        ask == TotalQty(book.asks)
    IN IF bid + ask > 0 THEN <<bid - ask, bid + ask>> ELSE <<0, 1>>

Minus(a, b) == <<a[1] * b[2] - b[1] * a[2], a[2] * b[2]>>

\* Mutant: the delta is taken after the old imbalance was overwritten.
PressureOfItself(before, now) == Minus(now, now)

\* imbalance_delta
Pressure(before, now) == Minus(now, before)

\* update: a one-sided book has no mid price to add to the average, a crossed
\* one no spread.
UpdateAggregator(agg, book, vwapLevels, smaWindow) ==
    LET mid == TwiceMid(book)
        spread == Spread(book)
        mids == IF mid > 0 THEN Roll(agg.mids, mid, smaWindow) ELSE agg.mids
        spreads == IF spread >= 0 THEN Roll(agg.spreads, spread, smaWindow) ELSE agg.spreads
        before == agg.snapshot
    IN [mids |-> mids, spreads |-> spreads,
        snapshot |->
          [spread |-> spread, mid |-> mid,
           bidVwap |-> Vwap(book.bids, TopBids(book.bids, vwapLevels)),
           askVwap |-> Vwap(book.asks, TopAsks(book.asks, vwapLevels)),
           midSma |-> IF mid > 0 THEN Mean(mids) ELSE before.midSma,
           spreadSma |-> IF spread >= 0 THEN Mean(spreads) ELSE before.spreadSma,
           imbalance |-> Imbalance(book),
           delta |-> Pressure(before.imbalance, Imbalance(book)),
           samples |-> before.samples + 1]]
================================================================================
