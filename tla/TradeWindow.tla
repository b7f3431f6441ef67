------------------------------ MODULE TradeWindow ------------------------------
(***************************************************************************)
(* A TradeAggregator fed with a stream of trades.  The exchange's event     *)
(* times never decrease.  reset() may come in between (the program itself   *)
(* never calls it).                                                         *)
(***************************************************************************)
EXTENDS TradeAggregator, FiniteSets

CONSTANTS Window,       \* window_ms_
          SmaWindows,   \* sma_windows_
          Quantities,   \* the quantities that occur
          MaxStep,      \* bound: the event time grows by at most this
          MaxTrades,    \* bound: trades in a behaviour
          StartTimes    \* the event times a stream may start at

ASSUME TradeWindowAssumption ==
    /\ Window \in Nat \ {0} /\ SmaWindows \in Nat \ {0}
    /\ Quantities \subseteq Nat /\ StartTimes \subseteq Nat \ {0}
    /\ MaxStep \in Nat /\ MaxTrades \in Nat

VARIABLES state,     \* the aggregator
          history,   \* history: every trade since reset(), oldest first
          before,    \* history: the trades before reset()
          carried    \* history: the volume reset() left in place

vars == <<state, history, before, carried>>

Init == state = EmptyTrades /\ history = <<>> /\ before = 0 /\ carried = 0

\* After a reset() no time stamp is left, so only where the stream then starts
\* relative to the aligned windows matters.
Times == IF history = <<>> THEN StartTimes
         ELSE LET last == history[Len(history)].time IN last..(last + MaxStep)

Update(trade) == /\ before + Len(history) < MaxTrades
                 /\ history' = Append(history, trade)
                 /\ state' = UpdateTrades(state, trade, Window, SmaWindows)
                 /\ UNCHANGED <<before, carried>>

Reset == /\ history # <<>>
         /\ state' = ResetTrades(state)
         /\ before' = before + Len(history) /\ carried' = state.current
         /\ history' = <<>>

Next == \/ \E t \in Times, q \in Quantities, b \in BOOLEAN :
              Update([time |-> t, qty |-> q, buy |-> b])
        \/ Reset

Spec == Init /\ [][Next]_vars

--------------------------------------------------------------------------------
Entries == [time : Nat \ {0}, qty : Nat, buy : BOOLEAN]
Snapshots == [buy : Nat, sell : Nat, count : Nat, volumeSma : Nat \X Nat, windows : Nat]

\* The deques of TradeAggregator hold trades and volumes, within their limits.
TypeOK == /\ history \in Seq(Entries) /\ before \in Nat /\ carried \in Nat
          /\ state \in [trades : Seq(Entries), completed : Seq(Nat), start : Nat,
                        current : Nat, snapshot : Snapshots]
          /\ Len(state.completed) <= SmaWindows

now == history[Len(history)].time

\* The places of the trades of the last window of event time.
Recent == {i \in 1..Len(history) : history[i].time >= now - Window}

\* The snapshot after a trade describes exactly the trades of the last window
\* of event time, that trade included: a definition over the whole history,
\* against a deque that is only ever trimmed at its front.
SlidingWindowExact ==
    history # <<>> => /\ state.snapshot.buy = Volume(history, Recent \cap Buys(history))
                      /\ state.snapshot.sell = Volume(history, Recent \cap Sells(history))
                      /\ state.snapshot.count = Cardinality(Recent)

\* The fixed window a time belongs to: the first one starts with the first
\* trade, the later ones are aligned to multiples of the window.
WindowOf(t) == IF t < history[1].time + Window THEN 0 ELSE t \div Window

\* The windows before the newest trade's that had trades.
Completed == {WindowOf(history[i].time) : i \in 1..Len(history)} \ {WindowOf(now)}

\* The volume of some windows.  After a reset() the first window also has the
\* volume of the window that reset() broke off.
VolumeOf(windows) ==
    Volume(history, {i \in 1..Len(history) : WindowOf(history[i].time) \in windows})
        + (IF 0 \in windows THEN carried ELSE 0)

\* Each trade's volume is in exactly one fixed window: the SMA averages the last
\* SmaWindows completed windows that had trades, and the volume accumulating is
\* that of the newest trade's window.
VolumeSmaExact ==
    history # <<>> =>
        LET averaged == {w \in Completed : Cardinality({v \in Completed : v >= w}) <= SmaWindows}
        IN /\ state.current = VolumeOf({WindowOf(now)})
           /\ state.snapshot.windows = Cardinality(Completed)
           /\ state.snapshot.volumeSma = IF Completed = {} THEN <<0, 1>>
                                         ELSE <<VolumeOf(averaged), Cardinality(averaged)>>

\* The deque is the end of the history from the cutoff on.
DequeFollows ==
    \E k \in 0..(Len(history) - 1) :
        /\ state.trades = SubSeq(history, k + 1, Len(history))
        /\ \A i \in 1..Len(history) : i > k <=> history[i].time >= Cutoff(now, Window)

\* window_start_ms_ is where the newest trade's window starts, and the archived
\* volumes are those of the last completed windows, in their order.
ArchiveFollows ==
    /\ state.start = IF WindowOf(now) = 0 THEN history[1].time ELSE Window * WindowOf(now)
    /\ state.current = VolumeOf({WindowOf(now)})
    /\ \E order \in [1..state.snapshot.windows -> Completed] :
          /\ \A i, j \in 1..state.snapshot.windows : i < j => order[i] < order[j]
          /\ \A w \in Completed : \E i \in 1..state.snapshot.windows : order[i] = w
          /\ LET dropped == state.snapshot.windows - Len(state.completed)
             IN /\ dropped >= 0 /\ (dropped > 0 => Len(state.completed) = SmaWindows)
                /\ \A i \in 1..Len(state.completed) :
                      state.completed[i] = VolumeOf({order[dropped + i]})
    /\ state.snapshot.volumeSma = IF state.completed = <<>> THEN <<0, 1>> ELSE Mean(state.completed)

\* The inductive invariant of the trade aggregator: what it keeps of the history,
\* in which times do not decrease.
TradeInvariant ==
    /\ TypeOK
    /\ \A i, j \in 1..Len(history) : i <= j => history[i].time <= history[j].time
    /\ IF history = <<>> THEN state = [EmptyTrades EXCEPT !.current = carried]
       ELSE DequeFollows /\ ArchiveFollows /\ SlidingWindowExact
================================================================================
