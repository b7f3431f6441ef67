---------------------------- MODULE TradeAggregator ----------------------------
(***************************************************************************)
(* The trade aggregator of src/src/engine/trade_aggregator.cpp as a value:  *)
(* the trades of a sliding window (trades_), the volume of the current      *)
(* fixed window and of the last completed ones (for the volume SMA), and    *)
(* the snapshot that recompute fills in.  Quantities are whole numbers;     *)
(* quotients are <<numerator, denominator>>.                                *)
(***************************************************************************)
EXTENDS RollingMean

EmptyTradeSnapshot == [buy |-> 0, sell |-> 0, count |-> 0, volumeSma |-> <<0, 1>>, windows |-> 0]

\* An aggregator as constructed.
EmptyTrades == [trades |-> <<>>, completed |-> <<>>, start |-> 0, current |-> 0,
                snapshot |-> EmptyTradeSnapshot]

\* Mutant: a trade exactly one window old is dropped.
CutoffLate(now, window) == now - window + 1

\* cutoff of expire_old
Cutoff(now, window) == IF now > window THEN now - window ELSE 0

\* expire_old: pop_front while the front is older than the cutoff.
ExpireOld(trades, cutoff) ==
    LET expired(n) == \A i \in 1..n : trades[i].time < cutoff
        n == CHOOSE n \in 0..Len(trades) :
                expired(n) /\ (n < Len(trades) => ~expired(n + 1))
    IN SubSeq(trades, n + 1, Len(trades))

\* The volume of the trades at some places.
Volume(trades, places) ==
    Accumulate([i \in 1..Len(trades) |-> IF i \in places THEN trades[i].qty ELSE 0])

Buys(trades) == {i \in 1..Len(trades) : trades[i].buy}
Sells(trades) == {i \in 1..Len(trades) : ~trades[i].buy}

\* recompute
Recompute(state) ==
    [state EXCEPT !.snapshot.buy = Volume(state.trades, Buys(state.trades)),
                  !.snapshot.sell = Volume(state.trades, Sells(state.trades)),
                  !.snapshot.count = Len(state.trades),
                  !.snapshot.volumeSma = IF state.completed = <<>> THEN @ ELSE Mean(state.completed)]

\* Mutant: the volume of an archived window stays in the next one.
ArchiveCarriesOver(state, now, window, smaWindows) ==
    [state EXCEPT !.completed = Roll(@, state.current, smaWindows),
                  !.snapshot.windows = @ + 1,
                  !.start = now - (now % window)]

\* The fixed window is over: archive its volume, start at an aligned time.
Archive(state, now, window, smaWindows) ==
    [state EXCEPT !.completed = Roll(@, state.current, smaWindows),
                  !.snapshot.windows = @ + 1,
                  !.current = 0,
                  !.start = now - (now % window)]

\* update
UpdateTrades(state, trade, window, smaWindows) ==
    LET now == trade.time
        opened == IF state.start = 0 THEN [state EXCEPT !.start = now] ELSE state
        inWindow == IF now >= opened.start + window
                    THEN Archive(opened, now, window, smaWindows)
                    ELSE opened
    IN Recompute([inWindow EXCEPT
                    !.trades = Append(ExpireOld(@, Cutoff(now, window)), trade),
                    !.current = @ + trade.qty])

\* reset(): current_window_volume_ stays as it is.
ResetTrades(state) == [EmptyTrades EXCEPT !.current = state.current]

\* trade_imbalance
TradeImbalance(snapshot) ==
    LET total == snapshot.buy + snapshot.sell
    IN IF total > 0 THEN <<snapshot.buy - snapshot.sell, total>> ELSE <<0, 1>>
================================================================================
