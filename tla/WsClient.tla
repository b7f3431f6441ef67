-------------------------------- MODULE WsClient --------------------------------
(***************************************************************************)
(* The exchange connection: WsClient::run and connect_and_run              *)
(* (src/src/feed/ws_client.cpp) with the ReconnectPolicy they own.         *)
(*                                                                         *)
(* The feed thread connects, reads one message at a time with a blocking   *)
(* ws.read that has no timeout, and reconnects with exponential backoff.   *)
(* The exchange and the network are the environment: they decide whether   *)
(* and when connect, read and close return.  Two flags end the loop, the   *)
(* process-wide running and the client's own stopped_; each is tested      *)
(* between blocking calls only.                                            *)
(***************************************************************************)
EXTENDS Naturals

CONSTANTS InitialDelay,   \* feed.reconnect.initial_delay_ms
          MaxDelay,       \* feed.reconnect.max_delay_ms
          Multiplier,     \* feed.reconnect.multiplier, a whole number here
          MaxFailures     \* bound: consecutive failures a behaviour may have

VARIABLES running,    \* the std::atomic<bool>& argument, g_running of main
          stopped,    \* stopped_
          wpc,        \* where the feed thread is
          delay,      \* current_delay_ms_
          failures    \* history: reconnections scheduled since the last success

vars == <<running, stopped, wpc, delay, failures>>

Places == {"top", "connect", "loop", "read", "handle", "close", "after", "sleep", "exited"}

MinDelay(a, b) == IF a <= b THEN a ELSE b

\* Mutant: the loops test stopped_ only.
MayRunDeafToShutdown == ~stopped

\* The condition of both loops.
MayRun == running /\ ~stopped

Init == /\ running = TRUE
        /\ stopped = FALSE
        /\ wpc = "top"
        /\ delay = InitialDelay
        /\ failures = 0

\* while (running && !stopped_)
RunCheck == /\ wpc = "top"
            /\ wpc' = IF MayRun THEN "connect" ELSE "exited"
            /\ UNCHANGED <<running, stopped, delay, failures>>

\* resolve, connect or a handshake threw; run() caught it.
ConnectFails == /\ wpc = "connect"
                /\ wpc' = "after"
                /\ UNCHANGED <<running, stopped, delay, failures>>

\* The WebSocket handshake is done: reconnect_policy_.reset().
Connect == /\ wpc = "connect"
           /\ wpc' = "loop"
           /\ delay' = InitialDelay
           /\ failures' = 0
           /\ UNCHANGED <<running, stopped>>

\* while (running && !stopped_) around ws.read
LoopCheck == /\ wpc = "loop"
             /\ wpc' = IF MayRun THEN "read" ELSE "close"
             /\ UNCHANGED <<running, stopped, delay, failures>>

\* ws.read returned a message; on_message_ is called with it.
Read == /\ wpc = "read"
        /\ wpc' = "handle"
        /\ UNCHANGED <<running, stopped, delay, failures>>

\* ws.read threw: the exchange closed the connection or the network failed.
ReadFails == /\ wpc = "read"
             /\ wpc' = "after"
             /\ UNCHANGED <<running, stopped, delay, failures>>

\* on_message_ returned.
Handled == /\ wpc = "handle"
           /\ wpc' = "loop"
           /\ UNCHANGED <<running, stopped, delay, failures>>

\* ws.close(normal, ec), whatever ec says.
Close == /\ wpc = "close"
         /\ wpc' = "after"
         /\ UNCHANGED <<running, stopped, delay, failures>>

\* if (!running || stopped_) break
Break == /\ wpc = "after"
         /\ ~MayRun
         /\ wpc' = "exited"
         /\ UNCHANGED <<running, stopped, delay, failures>>

\* Mutant: the new delay is not capped.
BackoffUncapped == /\ wpc = "after" /\ MayRun /\ failures < MaxFailures
                   /\ wpc' = "sleep"
                   /\ delay' = delay * Multiplier
                   /\ failures' = failures + 1
                   /\ UNCHANGED <<running, stopped>>

\* next_delay_ms() and the start of sleep_for.
Backoff == /\ wpc = "after" /\ MayRun /\ failures < MaxFailures
           /\ wpc' = "sleep"
           /\ delay' = MinDelay(delay * Multiplier, MaxDelay)
           /\ failures' = failures + 1
           /\ UNCHANGED <<running, stopped>>

Wake == /\ wpc = "sleep"
        /\ wpc' = "top"
        /\ UNCHANGED <<running, stopped, delay, failures>>

\* stop(), called by FeedHandler::stop: a store, nothing else.
Stop == /\ stopped' = TRUE
        /\ UNCHANGED <<running, wpc, delay, failures>>

\* signal_handler: g_running = false.
Signal == /\ running' = FALSE
          /\ UNCHANGED <<stopped, wpc, delay, failures>>

\* Steps of the feed thread alone, and steps that end a call into the network.
ThreadStep == RunCheck \/ LoopCheck \/ Handled \/ Break \/ Backoff \/ Wake
NetworkStep == ConnectFails \/ Connect \/ Read \/ ReadFails \/ Close

Next == ThreadStep \/ NetworkStep \/ Stop \/ Signal

Spec == Init /\ [][Next]_vars

\* The operating system runs the feed thread, and connecting and closing end,
\* if only with an error; but nothing makes the exchange send a message.
SilentExchangeSpec == /\ Spec
                      /\ WF_vars(ThreadStep)
                      /\ WF_vars(ConnectFails \/ Connect \/ Close)

--------------------------------------------------------------------------------
\* The delay after n failures if there were no maximum.
Uncapped[n \in 0..MaxFailures] == IF n = 0 THEN InitialDelay ELSE Uncapped[n - 1] * Multiplier

\* "Doubles the delay on each failure, up to a configurable maximum": the delay
\* the next failure will wait depends only on the failures since the last
\* successful connection, however connects, disconnects and reads interleaved.
BackoffIsExponential == delay = MinDelay(Uncapped[failures], MaxDelay)

\* "signals the client to disconnect and exit the read loop": stop() alone makes
\* run() return, also while the exchange sends nothing.
StopEndsReadLoop == stopped ~> (wpc = "exited")
================================================================================
