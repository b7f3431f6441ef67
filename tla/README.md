# TLA+ models of market-processor

A verification development for the market data engine in `src/`: modules that
model its components, TLC runs that check them on small instances, and TLAPS
proofs for every instance. `PROJECT.json` maps every definition to the lines it
models. Paths below are relative to `src/src/` unless they say otherwise.

## 1. The system

One process. In live mode an exchange connection feeds a lock-free queue; a
processing thread keeps books and statistics per symbol and fires signals; two
servers publish statistics; `main` waits for a signal and shuts everything down.
In replay mode a recorded file takes the place of the exchange.

| Component | State | Operations | Talks to |
|---|---|---|---|
| SPSC queue `core/spsc_queue.h` | `head_`, `tail_`, `buffer_` | `try_push`, `try_pop`, `size_approx`, `empty` | feed or replay thread -> processing thread |
| Exchange client `feed/ws_client.cpp`, `reconnect_policy.h` | `stopped_`, `current_delay_ms_` | `run`, `connect_and_run`, `stop`, `next_delay_ms`, `reset` | calls `on_message`; reads `g_running` |
| Feed handler `feed/feed_handler.cpp` | `msg_count_`, `parse_errors_`, `queue_full_` | `start`, `stop`, `on_message` | parsers, queue |
| Parsers `feed/depth_parser.cpp`, `trade_parser.cpp` | none | `parse` | called by the feed handler |
| Processing thread `engine/processing_thread.cpp` | `states_`, counters, `recent_signals_`, `snapshot_` under its mutex | `run`, `process*`, `update_snapshot`, `snapshot` | queue, books, detector, recorder |
| Order book `engine/order_book.cpp` | `bids_`, `asks_`, `last_update_id_`, `update_count_` | `apply_update`, `clear`, figures | processing thread |
| Aggregators `engine/aggregator.cpp`, `trade_aggregator.cpp` | deques and a snapshot | `update`, `reset` | processing thread |
| Signal detector `engine/signal_detector.cpp` | `conditions_`, `last_fired_`, counts | `evaluate` | callback into the processing thread |
| Disk logger, reader `output/disk_logger.cpp` | file, `record_count_`, position | `open`, `write`, `close`, `read_next` | processing thread, replay engine |
| Replay engine `replay/replay_engine.cpp` | `paused_`, `finished_`, `replayed_`, `speed_` | `load`, `start`, `stop`, `pause`, `resume`, `run` | reader, queue |
| WebSocket server `output/ws_server.cpp` | `running_`, `clients_` under its mutex, `alive` per client | acceptor, broadcaster, a detached reader per client, `client_count`, `stop` | statistics provider, replay commands |
| Metrics server `output/metrics_server.cpp` | `running_` | accept, answer, `stop` | statistics provider |
| Lifecycle `main.cpp` | `g_running` | signal handler, status loop, shutdown, `build_stats_json` | everything |
| Configuration, clock, dashboard, benchmarks | | | not modelled, or only through their effect |

What is hard in it:

* two threads share the ring with nothing but acquire/release ordering;
* five kinds of threads stop on one flag, each at its own next test of it, and
  `main` joins them one by one;
* blocking calls (`ws.read`, `sleep_for`, `join`) do not look at the flag;
* dashboards come and go while three threads walk and change the list of clients,
  one of them writing to every client under the mutex, and `stop()` runs against all
  of them; the threads that read commands are not joined;
* frames go to a parser by strings that occur anywhere in their text, which may mislead;
* updates are lost in front of the book: full queue, parse errors, reconnection,
  levels beyond `MAX_LEVELS`; a book that missed one is updated on;
* statistics are assembled from values read at different times;
* recordings can be cut off by a crash or a failing `close()`, and have a hole where a
  failing flush lost records that `write()` had reported as written;
* incremental statistics (deques trimmed at one end, windows archived on the next
  trade) have to equal their definitions over the history;
* cooldowns subtract unsigned readings of a clock that can be set.

`PROJECT.json` lists these, line by line, under `hazards`.

What makes each component correct, and where it is stated:

| Component | Correct when | Properties |
|---|---|---|
| Queue | it is a bounded FIFO without data races, whatever a load returns | `NoDataRace`, `ImplementsFIFO`, `FullTestExact`, `EmptyTestExact`, `EveryPushIsPopped` |
| Client | the backoff depends on consecutive failures only; told to stop it exits | `BackoffIsExponential`, `ShutdownCompletes`, `StopEndsReadLoop` |
| Parsers | a frame is never taken for an event it is not, what is lost is counted, and its levels are taken for what they are | `FramesTakenForWhatTheyAre`, `LevelsAreThePrefix` |
| Feed and processing | no message vanishes uncounted; what was accepted is processed and recorded | `MessagesAccounted`, `AcceptedBeforeStopAreProcessed`, `AtMostOneLeftBehind`, `NothingLeftBehind`, `RecordingComplete` |
| Statistics | a reader sees the engine between two messages and never ahead of the feed | `SnapshotConsistent`, `StatsNeverAhead` |
| Lifecycle | a requested shutdown ends | `ShutdownCompletes` |
| WebSocket server | its list is never changed under a walk, lost clients are forgotten, and a stop ends and leaves next to nothing behind | `ListStableWhileWalked`, `GoneClientsLeave`, `ServerStops`, `AtMostOneLateCommand`, `AtMostOneLeftOpen` |
| Book | it is wrong only where an update was lost, and the gap warning tells | `WrongOnlyWhereLost`, `UncrossedWhileInSync`, `GapWarningExact`, `FreshAfterReconnect` |
| Aggregators | the incremental figures equal the ones defined on the history of their own symbol | `SlidingWindowExact`, `VolumeSmaExact`, `StatisticsFollowHistory`, `TradesImplementWindow` |
| Detector | a met condition fires unless its own cooldown silences it | `CooldownHonoured`, `SilencedOnlyByCooldown`, `TradeSignalsAreRecent` |
| Recording, replay | a replay delivers the recording, and ends | `ReplayFollowsRecording`, `CompleteReplayDeliversAll`, `StopEndsReplay`, `PlaybackEnds` |

## 2. Modules

```
BoundedFIFO   <--refines--  SPSCQueue <-- SPSCQueue_proofs, MCSPSCQueue
   |  (instance)
   +--> LivePipeline  --instance--> WsClient <-- MCWsClient
   |      ^-- MCLivePipeline
   |      ^-- LiveFeed (with Parsers) <-- LiveFeed_proofs (of both), MCLiveFeed
   +--> ReplayPipeline <-- ReplayPipeline_proofs, MCReplayPipeline

OrderBook <-- BookSync <-- BookSync_proofs, MCBookSync
OrderBook, RollingMean <-- Aggregator  \
RollingMean <-- TradeAggregator         > SignalDetector <-- ProcessingEngine
                                            ^-- ProcessingEngine_proofs, MCProcessingEngine
TradeAggregator <-- TradeWindow <-- TradeWindow_proofs, MCTradeWindow
                        ^--refines-- ProcessingEngine, once for every symbol

WsServer <--instance-- Monitoring <-- Monitoring_proofs, MCMonitoring

LoopTheorems <-- LiveFeed_proofs, Monitoring_proofs, BookSync_proofs, ProcessingEngine_proofs,
                 TradeWindow_proofs
```

**BoundedFIFO** is what the queue promises: `Push` at the end below the bound,
`Pop` from the front, `delivered` the history of what was popped. The pipelines
use it as their queue.

**SPSCQueue** is the ring at the grain of its memory accesses: `TryPushCheck`
(load of `head_`), `TryPushWrite` (slot), `TryPushPublish` (store of `tail_`),
and the same for `try_pop`; a failing call is `TryPushFull` or `TryPopEmpty`.
`head_` and `tail_` are kept as their C++ modification orders (`headLog`,
`tailLog`), and a load may return any value not older than the last one that
thread saw. Thus every stale read that acquire/release permits is a behaviour
of the model. A slot the consumer moved from is `NoItem`.

**WsClient** is `run` and `connect_and_run` with the backoff. `wpc` says which
call the feed thread is in; `Connect`, `ConnectFails`, `Read`, `ReadFails` and
`Close` are the network's steps. Both loop conditions are `MayRun`.

**LivePipeline** composes the client with `on_message` (count, parse, push or
drop), the processing thread (`ProcCheck`, `ProcPop`, `ProcRecord`, `ProcApply`,
`ProcTrade`, `ProcPublish`, and the draining loop, `draining`), a thread in
`build_stats_json` (`StatsSnapshot`, then `StatsFeed`), the signal handler and
`main` with its shutdown sequence, join by join. A message is its number and kind;
whether it parses is an arbitrary choice.

**Parsers** is what `on_message` makes of a frame: which parser it goes to
(`MentionsTrade`), and what `DepthParser::parse` and `TradeParser::parse` return. A
frame is a record of what the parsers look at: whether simdjson can read it, which of
the strings `"trade"` and `"data"` its text contains (`says`, what the two `find` calls
ask), the event type of the document and of its `data` member, which members have the
expected type, and the elements of its level arrays. What a frame *is* (`EventIn` of
LiveFeed) is defined by its structure, without the strings; `Misleading` frames are the
events whose text sends them the wrong way. **LiveFeed** is LivePipeline with these
frames in place of the arbitrary choice: `Receive` is `OnMessage`, `Handle` is
`OnMessageInvalid`, or `OnMessagePush` or `OnMessageDrop`, as the parser decides.
Every behaviour of it is one of LivePipeline (`FeedImplementsPipeline`), to which the
proofs apply.

**WsServer** has the acceptor (`Accept...`), the broadcaster (`Cast...`), the reader
of every client (`Read...`) and the thread in `stop()` (`Stop...`). `lock` is the
holder of `clients_mutex_` when it is kept over several steps (the writes of
`broadcast`, the closes of `stop`); short critical sections are one step that needs
the mutex free. `conn` is a client's connection as this end knows it; `Destroy`
closes the streams whose last `shared_ptr` is gone. **Monitoring** adds the main
thread: the status loop, which takes the same mutex for `client_count()`, and the
shutdown. Whether there is a `controller_` (replay mode) is chosen initially.

**OrderBook**, **Aggregator**, **RollingMean**, **TradeAggregator** and
**SignalDetector** are the engine's classes as values: an operator per method,
from the old state to the new one. **BookSync** sets an order book against an
exchange whose updates get lost; **TradeWindow** feeds the trade aggregator every
small stream, with a `reset()` in between; **ProcessingEngine** is `process_depth` and
`process_trade` on all of them, for several symbols, with a wall clock that may be set.
TradeWindow is also the abstract specification of one symbol's trade statistics:
ProcessingEngine implements it once for every symbol (`TradesImplementWindow`), the
history of an instance being the trades of its symbol (`streams`).

**ReplayPipeline** has the recording process (`Write`, `WriteFails`,
`CloseRecording`, and `CutRecording` for a failing `close()` or a crash) and the
replaying one (`Load`, the replay thread, a shortened processing thread, client
commands, `main`). The file is the sequence of the chunks that `fwrite` produced, whole
or torn, those in the stdio buffer included; `flushed` says how much is certainly in the
file. A flush can happen in any `write()`, up to any point. One that fails keeps what
was flushed and any part of what was buffered behind it (`Cut`): earlier records, even
the `FileHeader`, can be lost with the failing one, and later writes follow behind the
hole.

Definitions marked *Mutant* are the code with a plausible bug; no specification
uses them. Each is named in `PROJECT.json` with the property that catches it.

### Abstractions

* Outside `SPSCQueue` the queue's operations and the flags (`g_running`,
  `finished_`, `paused_`) take effect at once. The refinement justifies the queue
  part up to staleness of a load: a real `try_push` may also fail on a full ring
  of a moment ago, and a real `try_pop` may miss a push of a moment ago.
* Prices, quantities and the reconnect multiplier are whole numbers; quotients are
  pairs compared by cross-multiplication. Floating-point rounding is not modelled,
  and `DelayAssumption` says that the delay fits a `uint32_t`.
* Event times of a symbol's trades do not decrease, and one `evaluate` reads the
  clock once. `Word` stands for 2^64.
* A recorded symbol is its length. Bytes read out of step behind a missing chunk are
  `Garbage`, with any number of them consumed.
* Of stdio it is assumed, as in glibc, that a failing flush writes a prefix of the
  buffer and discards the rest, and that later writes go on behind it. What was flushed
  stays: a power failure that loses the kernel's page cache is not modelled. A torn
  `FileHeader` is either a lost one, and the file cannot be opened, or one with its
  checked fields whole, and what follows is out of step like any torn chunk.
  When the seek of `close()` fails in its flush, the count it then writes lands at the
  end of the file; it is part of the torn chunk there. That a cut falls so close to the
  end of a payload that the count fills it up to a whole record is left out.
* simdjson finds a member by its name as written, so a text with a `data` member
  contains `"data"` (`FramesAssumption`); its verdict on a text is a given. What
  `strtod` makes of a price is left out.
* A call on a client's stream is atomic, although `stop()`, the broadcaster and the
  reader may use one stream at the same time, which Beast does not allow; the
  accesses to `alive`, a plain `bool`, interleave.
* JSON text, HTTP, TLS, logging, latency histograms, thread affinity and the layout of
  the statistics are left out.

## 3. Runs

| Run | Instance | Shows |
|---|---|---|
| `spsc_queue` | 4 slots, 2 items, 9 pushes | the ring is a race-free bounded FIFO, and every push is popped |
| `ws_client_silent` | delays 3..20, factor 2, 5 failures, silent exchange | **violated**: `stop()` does not end a blocked read |
| `live_pipeline` | queue 2, 3 messages, 2 conditions, 2 recent signals | accounting, drain, snapshot, statistics and recording under every interleaving |
| `live_feed` | queue 1, 2 messages out of 8 frames, 2 levels kept, delays 1..3, 2 failures | no frame is taken for what it is not and each loss is counted, the backoff, and that all joins return |
| `monitoring` | 2 dashboards | clients that come and go, broadcasts and `stop()` under every interleaving |
| `live_drain_race` | queue 1, 2 messages | **violated**: a message accepted during shutdown stays in the queue |
| `book_sync` | 2 prices, 2 sides, quantities 0..2, 1 level kept, 3 updates of 2 changes | where the book can be wrong, and that the gap warning is exact |
| `book_reconnect` | same | **violated**: levels of the old session survive a reconnection |
| `trade_window` | window 2, SMA of 2, 5 trades, steps 0..3, resets | sliding and fixed windows equal their definitions |
| `engine` | 2 symbols, 10 conditions, 4 messages, 1 clock step | figures and cooldowns per symbol, and that each symbol has a TradeWindow of its own |
| `stale_trades` | same | **violated**: trade signals fire from trades older than the window |
| `replay` | 3 updates, 2 symbol lengths, queue 1 | what a replay delivers from whole, cut and damaged files, and that it ends |

Where a component is proved about, its run also checks the inductive invariant the
proofs are built on (`RingInvariant`, `PipelineInvariant`, `ServerInvariant`,
`SyncInvariant`, `TradeInvariant`, `EngineInvariant`, `ReplayInvariant`), of which its
`TypeOK` is a part.

Why the bounds are enough for the interesting cases:

* *Ring*: nine pushes go around four slots twice, so a stale load of the lap before
  and every full and empty position of the indices occur. The proof covers all
  capacities.
* *Live*: three messages fill the queue of two and overflow it; one can be in
  flight, one in process and one queued when the signal arrives. Two conditions
  and two recent signals overflow `recent_signals_` within one message. The
  backoff is irrelevant here and has one value.
* *Feed*: the frames are a combined-stream depth update with malformed elements
  before, between and in place of levels and more levels than fit, a bare one with
  missing members, a trade, an event of another type, a broken text, and three whose
  text misleads: an answer without an event and a depth update that mention `"trade"`,
  and a bare trade that mentions `"data"`. Two of them meet a queue of one, so that
  one may be dropped. The second failure in a row reaches the cap of the delay, and
  a success can come after any number of failures. Each message is parsed on its
  own, so two are enough for what reaches the engine.
* *Monitoring*: with two dashboards one can be written to, removed or closed while
  the other is being accepted or sends a command. A dashboard connects once; one that
  comes back is a new client to the server.
* *Book*: two prices let bids and asks cross when an update is lost; one kept
  level of two changed ones is a cut; three updates are a first one, a lost one
  and one after it, with any reconnection in between; ids advance by 1 or 2.
* *Trades*: a step of 3 skips a window of 2; start times 4 and 5 are aligned and
  not; five trades complete more windows than the average keeps; a reset can fall
  anywhere between them.
* *Engine*: the three depth updates make a balanced, a bid-heavy and a one-sided
  book, so that each of the ten conditions can fire; two symbols are
  interchangeable (symmetry, no liveness). Time gaps of 0 and 1 against cooldowns
  of 1 and 2 hit both sides of each limit.
* *Replay*: a flush, a failure and a crash can fall on every chunk; three updates are
  one in the buffer, one whose write fails and one behind the hole; length 2 does not fit `SymbolMaxLen` 2, length 1 does.

`CHECK_DEADLOCK FALSE` is set only where the streams end at their bound
(`trade_window`, `engine`, `stale_trades`). `MaxFailures`, `MaxMessages`,
`MaxUpdates`, `MaxPushes`, `MaxTrades`, `MaxStep`, `MaxGap` and `MaxClockSteps`
bound the environment; they are guards of its actions and of nothing else.

### Fairness

* `SPSCQueue!Fairness`: the processing thread calls `try_pop` in a loop, and C++
  makes stores visible in finite time; so a loop that keeps asking eventually
  loads a newer `tail_`. Nothing is assumed of the producer.
* `WsClient!SilentExchangeSpec`: the thread is scheduled, connecting and closing
  end with or without an error, but nothing makes a read return: the code sets no
  timeout on the stream.
* `LiveFeed!FeedSpec`: every thread is scheduled, and every call into the network
  returns, a read too. The code does not guarantee that of a read, which is the point
  of `ws_client_silent`; `ShutdownCompletes` shows that it is the only obstacle. No
  fairness for the signal. With `MaxFailures` and `MaxMessages` bounding the
  environment a client at the bound waits in the model; `ShutdownCompletes` only
  speaks of states after the signal, where `Break` takes the place of `Backoff`, and a
  read beyond the last message ends as `ReadFails`.
* `Monitoring!Spec`: every thread is scheduled, and every call on a client's stream
  returns. (`accept_client` sets Beast's suggested timeouts, but they apply to
  asynchronous calls only; see the hazard at `ws_server.cpp:145`.) Threads that take
  `clients_mutex_` have strong fairness: the broadcaster releases the mutex and sleeps
  for `push_interval_ms_`, so a waiting thread gets it, although no C++ rule promises
  it. Nothing is assumed of the dashboards: they need not connect, send or leave.
* `ReplayPipeline!FairSpec`: every thread is scheduled, a sleep ends, and a
  recording is closed unless that fails or the process dies. No fairness for commands and signals.

## 4. Proofs

TLC checks each property below on a small instance; the proofs are for every
value of the constants. Each inductive invariant is a conjunction of named parts in
the component's own module; the proof module has one lemma per action or group of
actions, and the properties follow from the invariant. The assumptions are named
where the constants are declared. Bounds of the environment (`MaxMessages` and the
like) are arbitrary natural numbers; only `Word` of the engine is related to them.

**`LoopTheorems`** is how loops are proved about. A loop of the code is a recursive
function on `0..n` in the model: its value at `i` is the state after `i` turns.
`LoopExists` says that such a function exists and satisfies its defining equation,
`InductionOnSet` that a set of numbers with 0 and closed under successor is all of
`Nat`, `LeastNatural` that a nonempty set of numbers has a least one. The last two
speak of sets where the library's theorems have an operator as a parameter, which
the provers cannot instantiate. What holds after every turn is collected in a set,
and induction on that set proves it of the loop.

**`SPSCQueue_proofs`**, for every power of two `Capacity`, every `Items` and any
number of pushes (`CapacityPositive`, `CapacityPowerOfTwo`, `NoItemAssumption`,
`MaxPushesAssumption`; the power of two is what makes `& MASK` the remainder, the
argument itself needs only a positive capacity):

* `RingInvariantHolds`. None of the interesting properties is inductive: whether a
  slot may be written depends on what the producer *saw*. `RingInvariant` adds
  that every value ever stored in an index is its position modulo `Capacity`
  (`LogsCount`), that neither thread passes what it saw of the other
  (`ViewsBound`), that the slots in between hold the unpopped items
  (`SlotsHoldItems`), and that pops come in order. The central lemmas are
  arithmetic: two counts less than `Capacity` apart with the same remainder are
  equal (`IndexInjective`), from which `FullTest` and `EmptyTest` say what the
  comparison of two indices means.
* `NoDataRaceHolds`, `FullTestExactHolds`, `EmptyTestExactHolds` from it.
* `Refinement`: `Spec => FIFO!Spec`, with `queue` the pushed and not yet popped
  items and `delivered` the popped ones. The store of `tail_` is the abstract
  `Push`, the store of `head_` the abstract `Pop`, every other step a stutter.

**`LiveFeed_proofs`**, first about LivePipeline, for every queue bound, any number of messages,
conditions and recent signals (`BoundsAssumption`; of the client only its control):

* `PipelineInvariantHolds`. `PipelineInvariant` has two halves. `FlowInvariant` needs,
  beyond types and accounting, `DrainFollowsStop` (the drain starts after `running`
  fell; if the processing thread has exited while the feed thread still is in or
  before its last message, the queue is empty) and `FiguresLag` (what a monitoring
  thread has read is behind the feed's count). `EngineInvariant` is the processing
  thread's data: `EngineConsistent` (the counters add up, but for the message in hand)
  and `RecordingFollows` (the recording lacks at most the update in hand until a
  write fails, and is closed only behind the processing thread).
* `AccountedHolds`, `AcceptedHolds`, `AtMostOneHolds`, `StatsHold` from the first half.
* `SnapshotHolds`, `RecordingHolds` from the second. `RecordingComplete` compares the
  file with the depth updates among the popped messages by the places of the latter;
  `PlaceAdded` and `PlacesKept` say how these move with a pop.

Then about LiveFeed, for any set of frames whose arrays are sequences and whose text
contains `"data"` when they have such a member (`FramesAssumption`), and any `MAX_LEVELS` (`MaxLevelsAssumption`):

* `FeedImplementsPipeline`: a step of the feed with the parsers is a step of
  LivePipeline or a stutter, so all theorems above hold with the parsers in place.
* `FramesHold`, from `FramesInvariant`, which adds `FrameInHand`: the frame in
  `on_message` and the message it is becoming belong together. Whatever strings the
  texts contain, each message is what its frame was by structure, and `parse_errors_`
  is the number of received frames that were no event of ours plus the events whose
  text misled (`ParserVerdict`, `LostCount`).
* `LevelsHold`: for arrays of any length with malformed elements anywhere, the loop of
  `DepthParser::parse` keeps the first `MAX_LEVELS` well-formed ones. By induction over
  its turns (`LevelsTurns`, `TakeLevelKeeps`).
* `BackoffHolds`: the delay after `n` failures is the initial one times the n-th power
  of the multiplier, capped. The code caps at every step; `CapsCompose` says that
  capping early changes nothing, given that no product leaves the `uint32_t` range
  (`DelayAssumption`).

**`Monitoring_proofs`**, for any number of dashboards, with no assumption:

* `ServerInvariantHolds`. `ServerInvariant` has `OneAccepted` (the acceptor works on
  one client at a time, which is not yet listed), `OpenIsReferenced` (an open
  connection is listed, or is the one being accepted), `StopProgress` (what `stop()`
  has closed and cleared at each of its steps, and that the acceptor alone can still
  list somebody), `LateReadersLeave`. `OpenIsReferenced` is what makes
  `AtMostOneLeftOpen` go through: after the list is cleared only one reference is left.
* `LateCommandHolds`, `LeftOpenHolds` from it, and the action property
  `ListStableHolds`. `LivingProperties` is about the pass of `broadcast` that drops
  the dead clients from the list.

**`BookSync_proofs`**, for any prices other than 0, any quantities, levels kept and
number of updates (`PricesAssumption`, `SyncBoundsAssumption`; 0 is what the code
returns for the price of an empty side):

* `SyncInvariantHolds`. `SyncInvariant` adds that the exchange's own book is never
  crossed and `LastIdShowsLoss`: `last_update_id_` is behind the exchange exactly when
  whole updates were lost since the last one applied.
* `WrongOnlyWhereLostHolds`, `UncrossedHolds` (from `GreatestBelow`: best bid and ask
  are levels of the exchange) and the action property `GapWarningHolds`.

**`ReplayPipeline_proofs`**, for any number of updates, symbol lengths and any queue
bound other than 0 (`ReplayAssumption`):

* `ReplayInvariantHolds`. `ReplayInvariant` follows an update along its way:
  `FileFollows` (the file begins with the two chunks of each update before the first
  one lost; once a write has failed these are flushed, so no later failure reaches
  them), `PartFollows` (if every `write()` returned true, only a part of the next record
  may come behind them), `ReaderFollows` (the reader's position is behind the last
  record pushed; it ends only where no whole record is ahead), `QueueFollows` (popped
  and queued records are the updates, in order), `EndFollows` (without a signal the
  process stops only when all was read and popped).
* `ReplayFollowsHolds`, `CompleteReplayHolds` from it. Both speak of the updates up to
  the first one the disk lost, which may be one that `write()` reported as written;
  behind it the reader is out of step and nothing is claimed, unless every `write()`
  returned true: then nothing is made up.

**`ProcessingEngine_proofs`**, for any symbols, updates, list of conditions and window
sizes (`EngineAssumption`):

* `EngineInvariantHolds`. `EngineInvariant` has `SymbolFollows` for each symbol (its
  deque is the last `SmaWindow` mid prices of its own history), `LogOrdered` (signals
  are logged in the order of time) and `FollowsLog` (for every type and symbol
  `last_fired_` is the time of its last signal). The loop of `evaluate` over the
  conditions is proved by induction (`EvaluateSound`): after every turn the log, the
  table and the two cooldown properties agree.
* `CooldownHolds`, `SilencedHolds`, `StatisticsHold` from it. `EngineAssumption` says
  that `Word` (2^64 nanoseconds, more than 500 years) is larger than every reading of
  the clock. The unsigned difference still wraps when the clock is set back, which the
  properties account for.
* `TradesImplement`: a depth update is a stutter of every symbol's TradeWindow, a trade
  is an `Update` of its own symbol's and a stutter of the others (`DepthLeavesTrades`,
  `OtherSymbol`, `TradeFeedsStream`). `StreamsOK`, a part of the invariant, has the
  times of a symbol's trades; real time never runs back, so the next one is not older.
  `StreamConstants` says that the instances meet `TradeWindowAssumption`; with the
  theorems below this makes the trade statistics of every symbol exact, whatever
  comes for other symbols in between.

**`TradeWindow_proofs`**, for any window and limit of the average other than 0, any
quantities, start times other than 0 and any number of trades and resets
(`TradeWindowAssumption`; a start of 0 is what the code takes for "no trade yet"):

* `TradeInvariantHolds`. `SlidingWindowExact` is not inductive: what an update expires
  depends on where the deque begins. `DequeFollows` says that the deque is the end of
  the history from the cutoff on; with times that do not decrease, popping from the
  front is then the same as dropping everything old. `VolumeSmaExact` is not
  inductive either: once a volume has left the deque only the number of windows is
  known. `ArchiveFollows` therefore lists the completed windows in their order and
  says which of them the archived volumes belong to, and where the running window
  starts. Sums (`Accumulate`) are loops; `VolumeAppend` and its companions say what one
  more trade adds to the volume at some places. The step of `update()` is proved on
  values (`FirstTrade`, `FurtherTrade` about `Holds`), before it is read as an action.
* `SlidingWindowHolds`, `VolumeSmaHolds` from it. The mean of the archived volumes
  becomes the mean over the last `SmaWindows` completed windows by enumerating these.

Only model-checked:

* All liveness: `EveryPushIsPopped`, `ShutdownCompletes`, `GoneClientsLeave`,
  `ServerStops`, `StopEndsReplay`, `PlaybackEnds`. The prover handles neither fairness
  nor `ENABLED`.
* The violated properties of section 5.

## 5. Where the code and its documentation disagree

1. `ws_client_silent`: `feed/ws_client.h` says that `stop()` "signals the client to
   disconnect and exit the read loop". It sets a flag; a thread in `ws.read` on a
   silent connection does not see it, and the shutdown waits for it in `join`.
2. `live_drain_race`: the processing thread stops on `g_running`, not after the
   feed thread. It may drain and exit while `on_message` is still at work; that
   message is accepted and never processed. `AtMostOneLeftBehind` (proved) bounds
   the loss.
3. `book_reconnect`: `order_book.h` foresees `clear()` "on reconnect or snapshot";
   nothing calls it.
4. `stale_trades`: `docs/signals.md` defines trade signals on the last second's
   trades; only a trade expires old ones, so depth updates go on firing from them.

Also met, without a run: `engine/processing_thread.h` says of the recorder that it
records "every processed message", while only depth updates are recorded; a
depth update whose text mentions `"trade"`, or a bare event that mentions `"data"`, is
counted as a parse error and lost; after a failing flush records are missing whose
`write()` returned true, and the header's `record_count` counts them; a
one-sided book has mid price 0, which `PRICE_DEVIATION` takes for a price;
`TradeAggregator::reset` leaves `current_window_volume_` (it is never called); a
wall clock set back ends every cooldown, one set forward shortens it; `stop()` of the
WebSocket server says "Close all client connections" and may miss the one client
that is being accepted (`AtMostOneLeftOpen` is the exact bound); the readers it
detached are not joined, and one of them may still call `controller_`
(`AtMostOneLateCommand`); the signal handler logs, which is not safe in a handler;
the name of a recording has seconds, so that a restart within the same second
overwrites the file.

## 6. Not modelled

* Configuration loading and the command line: read once, before anything runs
  concurrently; no state changes afterwards.
* JSON and numbers character by character, TLS, HTTP, logging, latency figures: library
  code, or text and figures no decision of the program depends on.
* Thread names and CPU affinity, the dashboard, the benchmarks.
* `OrderBook::clear`, `Aggregator::reset` and `DiskReader::rewind`, which nothing calls.
* The metrics server's own thread at the grain of WsServer. A request is
  `StatsStep`, its stop and join are steps of `main`. It shares nothing with the
  WebSocket server but the statistics provider, and one more thread makes Monitoring
  too large for checking liveness.
* `set_speed`: it changes how long a delay of the replay lasts, and a delay is a step
  that ends.
* `size_approx` and `empty` as two separate relaxed loads: the result is shown, and
  nothing can be promised of it but its range.
* The lifetime of objects: the models do not destroy `ReplayEngine` or `WsServer`
  while a detached reader may still refer to them.

## 7. Plan

Done: queue and its refinement, client, parsers, live pipeline and feed, book, trade
window, processing engine, replay, WebSocket server. Proved: every safety property
the passing runs check, the refinements included.

What could follow: the metrics server's thread at the grain of WsServer, in a
composition of its own; `clear()` on a reconnection, once the code calls it, which
would turn `FreshAfterReconnect` into a property to prove.
