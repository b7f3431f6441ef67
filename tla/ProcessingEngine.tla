--------------------------- MODULE ProcessingEngine ----------------------------
(***************************************************************************)
(* What ProcessingThread does with the messages it pops: process_depth and  *)
(* process_trade on the book, aggregators and signal detector of every      *)
(* symbol.  LivePipeline has the threads around it.  elapsed is real time,  *)
(* which the exchange stamps its trades with; the detector reads the wall   *)
(* clock (Clock::wall_us, a system_clock), which an administrator or NTP    *)
(* may set.  One evaluate reads one time.                                   *)
(***************************************************************************)
EXTENDS SignalDetector

CONSTANTS Symbols,
          Conditions,     \* the SignalConditions, in the order they were added
          Depths,         \* the levels [bids, asks] a depth update may carry
          Trades,         \* the trades [qty, buy] that occur
          VwapLevels, SmaWindow,      \* of Aggregator
          Window, VolumeWindows,      \* of TradeAggregator
          Word,           \* time stamps are 0..Word-1
          MaxGap,         \* bound: time between two messages
          MaxClockSteps,  \* bound: adjustments of the wall clock
          MaxMessages     \* bound: messages

ASSUME EngineAssumption ==
    /\ Conditions \in Seq(Range(Conditions))
    /\ \A i \in DOMAIN Conditions : /\ Conditions[i].type \in SignalTypes
                                    /\ Conditions[i].cooldown \in Nat
    /\ \A t \in Trades : t.qty \in Nat /\ t.buy \in BOOLEAN
    /\ SmaWindow \in Nat \ {0} /\ Window \in Nat \ {0} /\ VolumeWindows \in Nat \ {0}
    /\ MaxGap \in Nat /\ MaxMessages \in Nat /\ MaxClockSteps \in Nat
    /\ Word \in Nat /\ Word > Window + 1 + MaxGap * MaxMessages + 2 * MaxClockSteps

VARIABLES states,      \* states_: the symbols seen, each with its book and aggregators
          det,         \* signal_detector_
          elapsed,     \* real time
          offset,      \* what the wall clock shows beyond elapsed
          clockSteps,  \* history: how often the wall clock was set
          messages,    \* history: messages processed
          figures,     \* history: mid price and imbalance after every depth update
          streams,     \* history: the trades of every symbol
          log,         \* history: every signal fired, [key, at, steps]
          withheld     \* history: every condition met that did not fire

vars == <<states, det, elapsed, offset, clockSteps, messages, figures, streams, log, withheld>>

\* SymbolState as constructed.
NewSymbol == [book |-> EmptyBook, agg |-> EmptyAggregator, trades |-> EmptyTrades]

\* Mutant: one state for all symbols.
StateOfAny(symbol) == IF states = <<>> THEN NewSymbol ELSE states[CHOOSE s \in DOMAIN states : TRUE]

\* get_or_create_state
StateOf(symbol) == IF symbol \in DOMAIN states THEN states[symbol] ELSE NewSymbol

StartTime == Window + 1

Init == /\ states = <<>>
        /\ det = EmptyDetector
        /\ elapsed = StartTime
        /\ offset = MaxClockSteps
        /\ clockSteps = 0 /\ messages = 0
        /\ figures = [s \in Symbols |-> <<>>] /\ streams = [s \in Symbols |-> <<>>]
        /\ log = <<>> /\ withheld = {}

\* Time passes until the next message.
Arrives(gap) == /\ messages < MaxMessages
                /\ messages' = messages + 1
                /\ elapsed' = elapsed + gap
                /\ UNCHANGED <<offset, clockSteps>>

Entry(type, symbol) == [key |-> <<type, symbol>>, at |-> elapsed', steps |-> clockSteps]

\* apply_update and aggregator.update
AfterDepth(old, depth) ==
    LET update == [bids |-> depth.bids, asks |-> depth.asks,
                   first |-> old.book.lastId + 1, last |-> old.book.lastId + 1]
        book == ApplyUpdate(old.book, update)
    IN [old EXCEPT !.book = book, !.agg = UpdateAggregator(@, book, VwapLevels, SmaWindow)]

\* The types of the conditions a symbol's figures meet.
Met(new) == {Conditions[i].type : i \in {j \in DOMAIN Conditions :
                Triggered(Conditions[j], new.agg.snapshot, new.trades.snapshot)}}

\* process_depth: book, aggregator, then the conditions.
ProcessDepth(symbol, depth, gap) ==
    /\ Arrives(gap)
    /\ \E new \in {AfterDepth(StateOf(symbol), depth)} :
       \E evaluated \in {Evaluate(det, Conditions, symbol, new.agg.snapshot,
                                  new.trades.snapshot, elapsed' + offset, Word)} :
          LET sent == [i \in DOMAIN evaluated.signals |-> Entry(evaluated.signals[i].type, symbol)]
          IN /\ states' = Put(states, symbol, new)
             /\ det' = evaluated
             /\ figures' = [figures EXCEPT ![symbol] =
                    Append(@, [mid |-> TwiceMid(new.book), imbalance |-> Imbalance(new.book)])]
             /\ log' = log \o sent /\ streams' = streams
             /\ withheld' = withheld \cup ({Entry(type, symbol) : type \in Met(new)} \ Range(sent))

\* process_trade: the trade aggregator; no condition is evaluated.
ProcessTrade(symbol, t, gap) ==
    /\ Arrives(gap)
    /\ LET old == StateOf(symbol)
           trade == [time |-> elapsed', qty |-> t.qty, buy |-> t.buy]
       IN /\ states' = Put(states, symbol, [old EXCEPT !.trades =
                                              UpdateTrades(@, trade, Window, VolumeWindows)])
          /\ streams' = [streams EXCEPT ![symbol] = Append(@, trade)]
    /\ UNCHANGED <<det, figures, log, withheld>>

\* The wall clock is set forward or back between two messages.
SetClock == /\ clockSteps < MaxClockSteps /\ messages \in 1..(MaxMessages - 1)
            /\ clockSteps' = clockSteps + 1
            /\ offset' \in {offset - 1, offset + 1}
            /\ UNCHANGED <<states, det, elapsed, messages, figures, streams, log, withheld>>

Next == \/ \E s \in Symbols, gap \in 0..MaxGap :
              \/ \E depth \in Depths : ProcessDepth(s, depth, gap)
              \/ \E trade \in Trades : ProcessTrade(s, trade, gap)
        \/ SetClock

Spec == Init /\ [][Next]_vars

--------------------------------------------------------------------------------
Keys == SignalTypes \X Symbols
IsSequence(q) == q \in Seq(Range(q))

\* The deques behind the moving averages stay within their limits.
SymbolOK(state) ==
    /\ DOMAIN state = {"book", "agg", "trades"}
    /\ IsSequence(state.agg.mids) /\ Len(state.agg.mids) <= SmaWindow
    /\ IsSequence(state.agg.spreads) /\ Len(state.agg.spreads) <= SmaWindow
    /\ state.agg.snapshot.samples \in Nat
    /\ DOMAIN state.trades = {"trades", "completed", "start", "current", "snapshot"}
    /\ IsSequence(state.trades.completed) /\ Len(state.trades.completed) <= VolumeWindows

\* Every symbol's state is well-formed, the cooldown table holds clock readings,
\* and signals_fired_ counts the callbacks.
TypeOK ==
    /\ messages \in 0..MaxMessages /\ clockSteps \in 0..MaxClockSteps
    /\ elapsed \in StartTime..(StartTime + MaxGap * messages)
    /\ offset \in (MaxClockSteps - clockSteps)..(MaxClockSteps + clockSteps)
    /\ DOMAIN states \subseteq Symbols
    /\ \A s \in DOMAIN states : SymbolOK(states[s])
    /\ det = [lastFired |-> det.lastFired, fired |-> Len(log), suppressed |-> det.suppressed,
              signals |-> det.signals]
    /\ det.suppressed \in Nat /\ DOMAIN det.lastFired \subseteq Keys
    /\ det.lastFired \in [DOMAIN det.lastFired -> 0..(Word - 1)]
    /\ log \in Seq([key : Keys, at : Nat, steps : Nat])
    /\ DOMAIN figures = Symbols /\ \A s \in Symbols : IsSequence(figures[s])

LastN(seq, n) == SubSeq(seq, IF Len(seq) > n THEN Len(seq) - n + 1 ELSE 1, Len(seq))

\* The mid prices among a symbol's figures, those of one-sided books left out.
MidsOf(all) == LET mids[n \in 0..Len(all)] ==
                       IF n = 0 THEN <<>>
                       ELSE IF all[n].mid > 0 THEN Append(mids[n - 1], all[n].mid) ELSE mids[n - 1]
               IN mids[Len(all)]

\* The statistics a condition is tested on are those of the symbol's own update
\* history: the moving average is over its last SmaWindow mid prices, one-sided
\* books left out, and the pressure is the change since its previous update,
\* however the messages of other symbols and the trades come in between.
StatisticsFollowHistory ==
    \A s \in DOMAIN states :
        LET all == figures[s]
            recent == LastN(MidsOf(all), SmaWindow)
            snapshot == states[s].agg.snapshot
        IN /\ recent # <<>> => snapshot.midSma = Mean(recent)
           /\ Len(all) > 1 => snapshot.delta = Minus(all[Len(all)].imbalance,
                                                     all[Len(all) - 1].imbalance)

\* The cooldowns of the conditions of a type (main.cpp adds one condition of each).
Cooldowns(type) == {Conditions[i].cooldown : i \in {j \in DOMAIN Conditions : Conditions[j].type = type}}

\* Every signal of a log comes after the cooldown of a condition of its type.
Honoured(signals) ==
    \A i, j \in DOMAIN signals :
        (i < j /\ signals[i].key = signals[j].key /\ signals[i].steps = signals[j].steps)
            => \E cooldown \in Cooldowns(signals[i].key[1]) :
                  signals[j].at - signals[i].at >= cooldown

\* While nobody sets the clock, a type and symbol that fired does not fire again
\* before its cooldown is over.
CooldownHonoured == Honoured(log)

\* A signal of the same type and symbol explains that w did not fire.
Silenced(w, signals) ==
    \E i \in DOMAIN signals :
        /\ signals[i].key = w.key
        /\ signals[i].steps = w.steps =>
              /\ w.at - signals[i].at >= 0
              /\ \E cooldown \in Cooldowns(w.key[1]) : w.at - signals[i].at < cooldown

\* A condition that is met and does not fire is silenced by its own cooldown: the
\* same type fired for the same symbol, and (unless the clock was set since)
\* less than the cooldown ago.  Other symbols never silence it.
SilencedOnlyByCooldown == \A w \in withheld : Silenced(w, log)

\* "Based on the trades within the last one-second window": a trade signal fires
\* only while the symbol has trades in that window.
TradeSignalsAreRecent ==
    \A i \in DOMAIN log :
        (log[i].key[1] \in TradeTypes /\ log[i].at = elapsed)
            => \E j \in DOMAIN states[log[i].key[2]].trades.trades :
                    states[log[i].key[2]].trades.trades[j].time >= elapsed - Window

\* What a symbol's aggregator holds of the symbol's history, for the next update.
SymbolFollows(agg, all) ==
    /\ agg.mids = LastN(MidsOf(all), SmaWindow)
    /\ agg.mids # <<>> => agg.snapshot.midSma = Mean(agg.mids)
    /\ all # <<>> => agg.snapshot.imbalance = all[Len(all)].imbalance
    /\ Len(all) > 1 => agg.snapshot.delta = Minus(all[Len(all)].imbalance,
                                                  all[Len(all) - 1].imbalance)

\* Signals are logged in the order of their times and of the clock's settings.
LogOrdered(signals, time, steps) ==
    /\ \A i \in DOMAIN signals : /\ signals[i].at \in StartTime..time
                                 /\ signals[i].steps \in 0..steps
    /\ \A i, j \in DOMAIN signals : i < j => /\ signals[i].at <= signals[j].at
                                             /\ signals[i].steps <= signals[j].steps

\* The cooldown table has, for every key that fired, the wall clock of its last
\* signal; real time can be told from it until the clock is set.
FollowsLog(lastFired, signals, shift, steps) ==
    /\ \A i \in DOMAIN signals : signals[i].key \in DOMAIN lastFired
    /\ \A key \in DOMAIN lastFired :
          \E i \in DOMAIN signals :
             /\ signals[i].key = key
             /\ \A j \in DOMAIN signals : signals[j].key = key => j <= i
             /\ signals[i].steps = steps => lastFired[key] = signals[i].at + shift

\* The trades of every symbol, with the times they came at.
StreamsOK ==
    /\ streams \in [Symbols -> Seq([time : StartTime..elapsed, qty : Nat, buy : BOOLEAN])]
    /\ \A s \in Symbols : Len(streams[s]) <= messages

\* The inductive invariant of the processing thread's data.
EngineInvariant ==
    /\ TypeOK
    /\ \A s \in Symbols : IF s \in DOMAIN states THEN SymbolFollows(states[s].agg, figures[s])
                         ELSE figures[s] = <<>>
    /\ LogOrdered(log, elapsed, clockSteps)
    /\ FollowsLog(det.lastFired, log, offset, clockSteps)
    /\ CooldownHonoured /\ SilencedOnlyByCooldown /\ StreamsOK

\* A symbol's trade aggregator with the trades of that symbol.
Stream(s) == INSTANCE TradeWindow
             WITH state <- StateOf(s).trades, history <- streams[s], before <- 0, carried <- 0,
                  SmaWindows <- VolumeWindows, Quantities <- {t.qty : t \in Trades},
                  MaxStep <- MaxGap * MaxMessages, MaxTrades <- MaxMessages,
                  StartTimes <- StartTime..(StartTime + MaxGap * MaxMessages)

\* The processing thread implements TradeWindow once for every symbol: each step
\* feeds one trade to the aggregator of its own symbol, or to none, whatever else
\* the step does and whatever comes for other symbols in between.
TradesImplementWindow ==
    /\ \A s \in Symbols : Stream(s)!Init
    /\ [][\A s \in Symbols : [Stream(s)!Next]_(Stream(s)!vars)]_vars
================================================================================
