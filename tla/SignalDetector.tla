---------------------------- MODULE SignalDetector -----------------------------
(***************************************************************************)
(* The signal detector of src/src/engine/signal_detector.cpp as a value.    *)
(* A condition is [type, threshold, cooldown]; thresholds and metrics are   *)
(* quotients, compared by cross-multiplication.  Time stamps are unsigned   *)
(* words: their difference wraps at Word (2^64 in the code).                *)
(***************************************************************************)
EXTENDS Aggregator, TradeAggregator

TradeTypes == {"TRADE_IMBALANCE_BUY", "TRADE_IMBALANCE_SELL", "VOLUME_SPIKE"}
PressureTypes == {"BOOK_PRESSURE_BID", "BOOK_PRESSURE_ASK"}
Downward == {"IMBALANCE_ASK", "TRADE_IMBALANCE_SELL", "BOOK_PRESSURE_ASK"}
SignalTypes == {"SPREAD_WIDE", "SPREAD_NARROW", "IMBALANCE_BID", "IMBALANCE_ASK",
                "PRICE_DEVIATION"} \cup TradeTypes \cup PressureTypes

Exceeds(q, threshold) == q[1] * threshold[2] > threshold[1] * q[2]
FallsBelow(q, threshold) == q[1] * threshold[2] < -(threshold[1] * q[2])

Distance(a, b) == IF a > b THEN a - b ELSE b - a

\* The guards of the switch; the trade statistics are passed only when the
\* sliding window holds a trade.
Applies(type, agg, trade) ==
    /\ type = "PRICE_DEVIATION" => agg.midSma[1] > 0
    /\ type \in TradeTypes => trade.count > 0
    /\ type = "VOLUME_SPIKE" => trade.volumeSma[1] > 0
    /\ type \in PressureTypes => agg.samples > 1

\* value of the switch
Metric(type, agg, trade) ==
    CASE type \in {"SPREAD_WIDE", "SPREAD_NARROW"} -> <<agg.spread, 1>>
      [] type \in {"IMBALANCE_BID", "IMBALANCE_ASK"} -> agg.imbalance
      [] type = "PRICE_DEVIATION" ->
            <<Distance(agg.mid * agg.midSma[2], agg.midSma[1]), agg.midSma[1]>>
      [] type \in {"TRADE_IMBALANCE_BUY", "TRADE_IMBALANCE_SELL"} -> TradeImbalance(trade)
      [] type = "VOLUME_SPIKE" ->
            <<(trade.buy + trade.sell) * trade.volumeSma[2], trade.volumeSma[1]>>
      [] type \in PressureTypes -> agg.delta

\* triggered after the switch
Triggered(cond, agg, trade) ==
    /\ Applies(cond.type, agg, trade)
    /\ LET value == Metric(cond.type, agg, trade)
       IN CASE cond.type \in Downward -> FallsBelow(value, cond.threshold)
            [] cond.type = "SPREAD_NARROW" -> value[1] > 0 /\ Exceeds(cond.threshold, value)
            [] OTHER -> Exceeds(value, cond.threshold)

\* Mutant: the cooldown is kept per type, for all symbols together.
CooldownKeyOfType(cond, symbol) == <<cond.type>>

\* CooldownKey
CooldownKey(cond, symbol) == <<cond.type, symbol>>

\* Mutant: a signal may fire again one unit before its cooldown is over.
CoolingOffByOne(lastFired, key, cooldown, clock, word) ==
    key \in DOMAIN lastFired /\ (clock - lastFired[key]) % word < cooldown - 1

\* Fired recently, by the unsigned difference.
Cooling(lastFired, key, cooldown, clock, word) ==
    key \in DOMAIN lastFired /\ (clock - lastFired[key]) % word < cooldown

EmptyDetector == [lastFired |-> <<>>, fired |-> 0, suppressed |-> 0, signals |-> <<>>]

\* Assignment to an element of a map.
Put(map, key, value) == [k \in DOMAIN map \cup {key} |-> IF k = key THEN value ELSE map[k]]

\* One turn of evaluate's loop: a condition that is met fires or is suppressed.
EvaluateCondition(d, cond, symbol, agg, trade, clock, word) ==
    LET key == CooldownKey(cond, symbol)
    IN IF ~Triggered(cond, agg, trade) THEN d
       ELSE IF Cooling(d.lastFired, key, cond.cooldown, clock, word)
            THEN [d EXCEPT !.suppressed = @ + 1]
            ELSE [d EXCEPT !.lastFired = Put(@, key, clock),
                           !.fired = @ + 1,
                           !.signals = Append(@, [type |-> cond.type, symbol |-> symbol])]

\* evaluate: one pass over the conditions in their order; signals are the
\* callbacks it makes.
Evaluate(det, conditions, symbol, agg, trade, clock, word) ==
    LET after[n \in 0..Len(conditions)] ==
            IF n = 0 THEN [det EXCEPT !.signals = <<>>]
            ELSE EvaluateCondition(after[n - 1], conditions[n], symbol, agg, trade, clock, word)
    IN after[IF agg.samples = 0 THEN 0 ELSE Len(conditions)]
================================================================================
