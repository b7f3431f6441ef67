------------------------------ MODULE LivePipeline ------------------------------
(***************************************************************************)
(* The live process of src/src/main.cpp: the feed thread (WsClient calling *)
(* FeedHandler::on_message), the queue, the processing thread              *)
(* (ProcessingThread::run and process) with its recorder, a monitoring     *)
(* thread that builds the statistics, and the main thread with its         *)
(* shutdown sequence, all of them interleaving.                            *)
(*                                                                         *)
(* The queue is BoundedFIFO, which SPSCQueue is proved to implement.  What *)
(* a message says is left out; its kind and its number, in the order of    *)
(* reception, are kept.                                                    *)
(***************************************************************************)
EXTENDS Naturals, Sequences

CONSTANTS InitialDelay, MaxDelay, Multiplier, MaxFailures,   \* see WsClient
          QueueBound,    \* FeedQueue::capacity()
          NumConditions, \* the size of conditions_, each of which may fire
          MaxRecent,     \* MAX_RECENT_SIGNALS
          MaxMessages    \* bound: messages the exchange sends

ASSUME BoundsAssumption == /\ QueueBound \in Nat /\ MaxRecent \in Nat \ {0}
                           /\ NumConditions \in Nat /\ MaxMessages \in Nat

\* The product that next_delay_ms casts back to uint32_t never leaves its range.
ASSUME DelayAssumption == /\ InitialDelay \in Nat \ {0} /\ MaxDelay \in Nat
                          /\ InitialDelay <= MaxDelay
                          /\ Multiplier \in Nat \ {0}
                          /\ MaxDelay * Multiplier <= 2147483647
ASSUME MaxFailuresAssumption == MaxFailures \in Nat

VARIABLES
    running, stopped, wpc, delay, failures,   \* WsClient
    received, parseErrors, queueFull,   \* msg_count_, parse_errors_, queue_full_
    inFlight,     \* the message on_message is working on, a set of at most one
    queue,        \* the FeedQueue
    delivered,    \* history: every message popped, oldest first
    ppc,          \* where the processing thread is
    draining,     \* it is in the second loop of run()
    processed, tradesProcessed, depthApplied,   \* processed_, trades_processed_,
                                                \* update_count of the books
    fired, recent,   \* signals_fired_, recent_signals_ (newest first)
    snapshot,     \* snapshot_
    recorder,     \* the DiskLogger: "none", "open" or "closed"
    recorded,     \* the depth messages in the recording
    diskErrors,   \* history: writes the disk refused (their result is ignored)
    spc, stats,   \* a thread in build_stats_json and the figures it has read
    mpc,          \* where the main thread is
    cutoff        \* history: pushes completed when running became false

clientVars == <<running, stopped, wpc, delay, failures>>
feedVars == <<received, parseErrors, queueFull, inFlight>>
queueVars == <<queue, delivered>>
engineVars == <<ppc, draining, processed, tradesProcessed, depthApplied, fired, recent,
                snapshot, recorded, diskErrors>>
statsVars == <<spc, stats>>
mainVars == <<mpc, recorder, cutoff>>
vars == <<clientVars, feedVars, queueVars, engineVars, statsVars, mainVars>>

Kinds == {"depth", "trade"}
Messages == [n : Nat \ {0}, kind : Kinds]

Client == INSTANCE WsClient
FIFO == INSTANCE BoundedFIFO WITH Items <- Messages, Bound <- QueueBound

Pushes == Len(delivered) + Len(queue)

Init == /\ Client!Init
        /\ received = 0 /\ parseErrors = 0 /\ queueFull = 0
        /\ inFlight = {}
        /\ FIFO!Init
        /\ ppc = "check" /\ draining = FALSE
        /\ processed = 0 /\ tradesProcessed = 0 /\ depthApplied = 0
        /\ fired = 0 /\ recent = <<>>
        /\ snapshot = [processed |-> 0, trades |-> 0, depth |-> 0, fired |-> 0, recent |-> <<>>]
        /\ recorder \in {"none", "open"}
        /\ recorded = <<>> /\ diskErrors = 0
        /\ spc = "idle" /\ stats = [processed |-> 0, received |-> 0]
        /\ mpc = "status"
        /\ cutoff = 0

--------------------------------------------------------------------------------
(* The feed thread.                                                        *)

\* run() and connect_and_run() outside on_message.
ClientStep ==
    /\ \/ Client!RunCheck \/ Client!ConnectFails \/ Client!Connect \/ Client!LoopCheck
       \/ Client!ReadFails \/ Client!Close \/ Client!Break \/ Client!Backoff \/ Client!Wake
    /\ UNCHANGED <<feedVars, queueVars, engineVars, statsVars, mainVars>>

\* ws.read returns and on_message counts the message.
OnMessage(kind) ==
    /\ received < MaxMessages
    /\ Client!Read
    /\ received' = received + 1
    /\ inFlight' = {[n |-> received + 1, kind |-> kind]}
    /\ UNCHANGED <<parseErrors, queueFull, queueVars, engineVars, statsVars, mainVars>>

\* The parser rejects the message.
OnMessageInvalid ==
    /\ inFlight # {}
    /\ Client!Handled
    /\ parseErrors' = parseErrors + 1
    /\ inFlight' = {}
    /\ UNCHANGED <<received, queueFull, queueVars, engineVars, statsVars, mainVars>>

\* It parses and try_push accepts it.
OnMessagePush ==
    /\ Client!Handled
    /\ \E m \in inFlight : FIFO!Push(m)
    /\ inFlight' = {}
    /\ UNCHANGED <<received, parseErrors, queueFull, engineVars, statsVars, mainVars>>

\* Mutant: the dropped message is not counted.
OnMessageDropSilently ==
    /\ inFlight # {} /\ Len(queue) = QueueBound
    /\ Client!Handled
    /\ inFlight' = {}
    /\ UNCHANGED <<received, parseErrors, queueFull, queueVars, engineVars, statsVars, mainVars>>

\* It parses and try_push finds the queue full: the message is dropped.
OnMessageDrop ==
    /\ inFlight # {} /\ Len(queue) = QueueBound
    /\ Client!Handled
    /\ queueFull' = queueFull + 1
    /\ inFlight' = {}
    /\ UNCHANGED <<received, parseErrors, queueVars, engineVars, statsVars, mainVars>>

Feed == \/ ClientStep \/ OnMessageInvalid \/ OnMessagePush \/ OnMessageDrop
        \/ \E kind \in Kinds : OnMessage(kind)

--------------------------------------------------------------------------------
(* The processing thread.                                                  *)

\* Mutant: run() ends with its first loop.
ProcCheckNoDrain ==
    /\ ppc = "check"
    /\ ppc' = IF running THEN "pop" ELSE "exited"
    /\ draining' = ~running
    /\ UNCHANGED <<processed, tradesProcessed, depthApplied, fired, recent, snapshot, recorded,
                   diskErrors, clientVars, feedVars, queueVars, statsVars, mainVars>>

\* while (running)
ProcCheck ==
    /\ ppc = "check"
    /\ ppc' = "pop"
    /\ draining' = ~running
    /\ UNCHANGED <<processed, tradesProcessed, depthApplied, fired, recent, snapshot, recorded,
                   diskErrors, clientVars, feedVars, queueVars, statsVars, mainVars>>

\* Mutant: the draining loop waits for more instead of ending.
ProcEmptyWaits ==
    /\ ppc = "pop"
    /\ queue = <<>>
    /\ ppc' = IF draining THEN "pop" ELSE "check"
    /\ UNCHANGED <<draining, processed, tradesProcessed, depthApplied, fired, recent, snapshot,
                   recorded, diskErrors, clientVars, feedVars, queueVars, statsVars, mainVars>>

\* try_pop fails: yield and test running again, or leave the draining loop.
ProcEmpty ==
    /\ ppc = "pop"
    /\ queue = <<>>
    /\ ppc' = IF draining THEN "exited" ELSE "check"
    /\ UNCHANGED <<draining, processed, tradesProcessed, depthApplied, fired, recent, snapshot,
                   recorded, diskErrors, clientVars, feedVars, queueVars, statsVars, mainVars>>

\* What update_snapshot copies.
EngineFigures == [processed |-> processed, trades |-> tradesProcessed, depth |-> depthApplied,
                  fired |-> fired, recent |-> recent]

\* Mutant: process() publishes before it handles the message.
ProcPopPublishes ==
    /\ ppc = "pop"
    /\ FIFO!Pop
    /\ processed' = processed + 1
    /\ snapshot' = [EngineFigures EXCEPT !.processed = processed + 1]
    /\ ppc' = Head(queue).kind
    /\ UNCHANGED <<draining, tradesProcessed, depthApplied, fired, recent, recorded,
                   diskErrors, clientVars, feedVars, statsVars, mainVars>>

\* try_pop succeeds; process() counts the message first of all.
ProcPop ==
    /\ ppc = "pop"
    /\ FIFO!Pop
    /\ processed' = processed + 1
    /\ ppc' = Head(queue).kind
    /\ UNCHANGED <<draining, tradesProcessed, depthApplied, fired, recent, snapshot, recorded,
                   diskErrors, clientVars, feedVars, statsVars, mainVars>>

current == delivered[Len(delivered)]

\* process_depth: recorder_->write, which does nothing once the file is closed
\* and whose result is ignored.
ProcRecord ==
    /\ ppc = "depth"
    /\ ppc' = "apply"
    /\ \/ /\ recorder = "open"
          /\ recorded' = Append(recorded, current)
          /\ UNCHANGED diskErrors
       \/ /\ recorder = "open"
          /\ diskErrors' = diskErrors + 1
          /\ UNCHANGED recorded
       \/ /\ recorder # "open"
          /\ UNCHANGED <<recorded, diskErrors>>
    /\ UNCHANGED <<draining, processed, tradesProcessed, depthApplied, fired, recent, snapshot,
                   clientVars, feedVars, queueVars, statsVars, mainVars>>

\* The callback of signal_detector_, called k times: push_front and cap.
KeepRecent(k) ==
    LET all == [i \in 1..k |-> fired + k + 1 - i] \o recent
    IN SubSeq(all, 1, IF Len(recent) + k < MaxRecent THEN Len(recent) + k ELSE MaxRecent)

\* Book and aggregator are updated and the conditions evaluated; some fire.
ProcApply ==
    /\ ppc = "apply"
    /\ depthApplied' = depthApplied + 1
    /\ \E k \in 0..NumConditions : fired' = fired + k /\ recent' = KeepRecent(k)
    /\ ppc' = "publish"
    /\ UNCHANGED <<draining, processed, tradesProcessed, snapshot, recorded, diskErrors,
                   clientVars, feedVars, queueVars, statsVars, mainVars>>

ProcTrade ==
    /\ ppc = "trade"
    /\ tradesProcessed' = tradesProcessed + 1
    /\ ppc' = "publish"
    /\ UNCHANGED <<draining, processed, depthApplied, fired, recent, snapshot, recorded,
                   diskErrors, clientVars, feedVars, queueVars, statsVars, mainVars>>

\* update_snapshot, under snapshot_mutex_.
ProcPublish ==
    /\ ppc = "publish"
    /\ snapshot' = EngineFigures
    /\ ppc' = IF draining THEN "pop" ELSE "check"
    /\ UNCHANGED <<draining, processed, tradesProcessed, depthApplied, fired, recent, recorded,
                   diskErrors, clientVars, feedVars, queueVars, statsVars, mainVars>>

Engine == \/ ProcCheck \/ ProcEmpty \/ ProcPop \/ ProcRecord \/ ProcApply \/ ProcTrade
          \/ ProcPublish

--------------------------------------------------------------------------------
(* A monitoring thread in build_stats_json: the snapshot first, the        *)
(* counters of the feed later.                                             *)

\* The servers take requests until stop() has cleared their running_.
Serving == mpc \in {"status", "stopServers"}

StatsSnapshot ==
    /\ spc = "idle" /\ Serving
    /\ stats' = [stats EXCEPT !.processed = snapshot.processed]
    /\ spc' = "feed"

StatsFeed ==
    /\ spc = "feed"
    /\ stats' = [stats EXCEPT !.received = received]
    /\ spc' = "idle"

\* Mutant: the feed's counters first, the snapshot last.
StatsStepSwapped ==
    /\ \/ /\ spc = "idle" /\ Serving
          /\ stats' = [stats EXCEPT !.received = received]
          /\ spc' = "feed"
       \/ /\ spc = "feed"
          /\ stats' = [stats EXCEPT !.processed = snapshot.processed]
          /\ spc' = "idle"
    /\ UNCHANGED <<clientVars, feedVars, queueVars, engineVars, mainVars>>

\* A request to the metrics server, or a push of the WebSocket server.
StatsStep ==
    /\ StatsSnapshot \/ StatsFeed
    /\ UNCHANGED <<clientVars, feedVars, queueVars, engineVars, mainVars>>

--------------------------------------------------------------------------------
(* The main thread and the signal handler.                                 *)

\* SIGINT or SIGTERM: g_running = false.
SignalHandler ==
    /\ Client!Signal
    /\ cutoff' = IF running THEN Pushes ELSE cutoff
    /\ UNCHANGED <<mpc, recorder, feedVars, queueVars, engineVars, statsVars>>

\* The status loop ends.
MainLeave ==
    /\ mpc = "status" /\ ~running
    /\ mpc' = "stopServers"
    /\ UNCHANGED <<recorder, cutoff, clientVars, feedVars, queueVars, engineVars, statsVars>>

\* ws_server.stop() and metrics_server.stop(): running_ becomes false, ...
MainStopServers ==
    /\ mpc = "stopServers"
    /\ mpc' = "joinServers"
    /\ UNCHANGED <<recorder, cutoff, clientVars, feedVars, queueVars, engineVars, statsVars>>

\* ... then their threads are joined.
MainJoinServers ==
    /\ mpc = "joinServers" /\ spc = "idle"
    /\ mpc' = "stopFeed"
    /\ UNCHANGED <<recorder, cutoff, clientVars, feedVars, queueVars, engineVars, statsVars>>

\* feed_handler->stop(): the flag, ...
MainStopFeed ==
    /\ mpc = "stopFeed"
    /\ Client!Stop
    /\ mpc' = "joinFeed"
    /\ UNCHANGED <<recorder, cutoff, feedVars, queueVars, engineVars, statsVars>>

\* ... then the join.
MainJoinFeed ==
    /\ mpc = "joinFeed" /\ wpc = "exited"
    /\ mpc' = "joinProcessor"
    /\ UNCHANGED <<recorder, cutoff, clientVars, feedVars, queueVars, engineVars, statsVars>>

\* Mutant: the recorder is closed without waiting for the processing thread.
MainJoinProcessorNot ==
    /\ mpc = "joinProcessor"
    /\ mpc' = "close"
    /\ UNCHANGED <<recorder, cutoff, clientVars, feedVars, queueVars, engineVars, statsVars>>

\* processor.stop()
MainJoinProcessor ==
    /\ mpc = "joinProcessor" /\ ppc = "exited"
    /\ mpc' = "close"
    /\ UNCHANGED <<recorder, cutoff, clientVars, feedVars, queueVars, engineVars, statsVars>>

\* disk_logger->close(), if there is one; main returns.
MainClose ==
    /\ mpc = "close"
    /\ recorder' = IF recorder = "open" THEN "closed" ELSE recorder
    /\ mpc' = "done"
    /\ UNCHANGED <<cutoff, clientVars, feedVars, queueVars, engineVars, statsVars>>

Main == \/ MainLeave \/ MainStopServers \/ MainJoinServers \/ MainStopFeed
        \/ MainJoinFeed \/ MainJoinProcessor \/ MainClose

Terminated == mpc = "done" /\ UNCHANGED vars

Next == Feed \/ Engine \/ StatsStep \/ Main \/ SignalHandler \/ Terminated

Spec == Init /\ [][Next]_vars

--------------------------------------------------------------------------------
Figures == [processed : Nat, trades : Nat, depth : Nat, fired : Nat, recent : Seq(Nat)]

\* Types of the threads' places, the counters and the queue; processing is only
\* under way once something was popped, on_message once something was read.
TypeOK ==
    /\ running \in BOOLEAN /\ stopped \in BOOLEAN /\ wpc \in Client!Places
    /\ received \in Nat /\ parseErrors \in Nat /\ queueFull \in Nat
    /\ inFlight \in SUBSET Messages
    /\ wpc = "handle" <=> inFlight # {}
    /\ queue \in Seq(Messages) /\ delivered \in Seq(Messages)
    /\ ppc \in {"check", "pop", "depth", "apply", "trade", "publish", "exited"}
    /\ ppc \in {"depth", "apply", "trade", "publish"} => delivered # <<>>
    /\ draining \in BOOLEAN
    /\ processed \in Nat /\ tradesProcessed \in Nat /\ depthApplied \in Nat
    /\ fired \in Nat /\ recent \in Seq(Nat) /\ snapshot \in Figures
    /\ recorder \in {"none", "open", "closed"} /\ recorded \in Seq(Messages)
    /\ diskErrors \in Nat
    /\ spc \in {"idle", "feed"} /\ stats \in [processed : Nat, received : Nat]
    /\ mpc \in {"status", "stopServers", "joinServers", "stopFeed", "joinFeed", "joinProcessor",
                "close", "done"}
    /\ cutoff \in Nat

\* Every message the exchange sent is accounted for: rejected by a parser,
\* dropped by a full queue, in the queue, processed, or still in on_message.
MessagesAccounted ==
    /\ inFlight = {} => received = parseErrors + queueFull + Pushes
    /\ inFlight # {} => received = parseErrors + queueFull + Pushes + 1
    /\ processed = Len(delivered)

\* Every message pushed before the shutdown was requested is processed before
\* the processing thread exits, wherever that thread was at the time.
AcceptedBeforeStopAreProcessed == ppc = "exited" => Len(delivered) >= cutoff

\* The race between the last push and the drain costs one message at most: the
\* feed thread tests running before every read.
AtMostOneLeftBehind == ppc = "exited" => Len(queue) <= 1

\* "Drain remaining messages" and "Graceful shutdown": nothing that was accepted
\* into the queue is left there when the process ends.
NothingLeftBehind == mpc = "done" => queue = <<>>

\* recent holds the last of n signals, newest first.
LastSignals(r, n) == /\ Len(r) = IF n < MaxRecent THEN n ELSE MaxRecent
                     /\ \A i \in 1..Len(r) : r[i] = n + 1 - i

\* A snapshot shows the engine between two messages, never in the middle of one:
\* the counters add up, and the recent signals are the last ones fired.
SnapshotConsistent ==
    /\ snapshot.processed = snapshot.trades + snapshot.depth
    /\ LastSignals(snapshot.recent, snapshot.fired)

\* The statistics never show more messages processed than received, although
\* the two figures are read at different times and both threads keep going.
StatsNeverAhead == spc = "idle" => stats.processed <= stats.received

\* The places in delivered of the depth updates.
DepthPlaces == {j \in 1..Len(delivered) : delivered[j].kind = "depth"}

\* The recording holds the messages at these places of delivered, in their order.
RecordedFrom(places) ==
    \E f \in [1..Len(recorded) -> places] :
        /\ \A i, j \in 1..Len(recorded) : i < j => f[i] < f[j]
        /\ \A i \in 1..Len(recorded) : recorded[i] = delivered[f[i]]
        /\ \A p \in places : \E i \in 1..Len(recorded) : f[i] = p

\* A recording that met no disk error holds, once closed, every depth update
\* that was processed, the ones drained during the shutdown included, in order.
RecordingComplete ==
    (recorder = "closed" /\ diskErrors = 0) => RecordedFrom(DepthPlaces)

\* A requested shutdown completes: no join waits for ever, provided that every
\* call into the network returns.
ShutdownCompletes == ~running ~> (mpc = "done")

\* Why the shutdown properties hold: the drain starts only after running became
\* false, the feed thread then starts no further read, and a thread that exits
\* leaves the queue empty behind it.
DrainFollowsStop ==
    /\ draining => ~running
    /\ ppc = "exited" => draining
    /\ cutoff <= Pushes
    /\ (ppc = "exited" /\ wpc \in {"read", "handle"}) => queue = <<>>

\* What a monitoring thread has read is behind what the feed has counted.
FiguresLag == /\ snapshot.processed <= processed
              /\ spc = "feed" => stats.processed <= received

\* Accounting, shutdown and statistics, which hold together after any
\* interleaving of the threads.
FlowInvariant == /\ TypeOK /\ MessagesAccounted /\ DrainFollowsStop /\ FiguresLag
                 /\ AcceptedBeforeStopAreProcessed /\ AtMostOneLeftBehind
                 /\ StatsNeverAhead

\* Between two messages the engine's own counters add up; in the middle of one it
\* is ahead by that message.  recent_signals_ always is what it is named for.
EngineConsistent ==
    /\ processed = tradesProcessed + depthApplied
                      + (IF ppc \in {"depth", "apply", "trade"} THEN 1 ELSE 0)
    /\ LastSignals(recent, fired)

\* Until a write fails the recording is complete but for the update in hand, and
\* it is closed only behind the processing thread.
RecordingFollows ==
    /\ ppc = "depth" => current.kind = "depth"
    /\ (recorder # "none" /\ diskErrors = 0) =>
          RecordedFrom(IF ppc = "depth" THEN DepthPlaces \ {Len(delivered)} ELSE DepthPlaces)
    /\ mpc \in {"close", "done"} => ppc = "exited"
    /\ recorder = "closed" => mpc = "done"

\* The processing thread's data: counters, recent signals, snapshot, recording.
EngineInvariant == EngineConsistent /\ SnapshotConsistent /\ RecordingFollows

\* The inductive invariant of the live process.
PipelineInvariant == FlowInvariant /\ EngineInvariant
================================================================================
