------------------------------- MODULE Monitoring -------------------------------
(***************************************************************************)
(* The WebSocket server inside src/src/main.cpp: the status loop of the     *)
(* main thread asks it for the number of clients, and the shutdown stops    *)
(* it.  (LivePipeline has the metrics server and the rest of the process.)  *)
(***************************************************************************)
EXTENDS Naturals, Sequences, FiniteSets

CONSTANTS Clients    \* the dashboards

VARIABLES serving, iocStopped, controller, lock, clients, alive, conn, apc, cur,
          bpc, bnext, rpc, late, xpc, xnext,      \* WsServer
          running,                                \* g_running
          mpc                                     \* where the main thread is

Ws == INSTANCE WsServer

wsVars == <<serving, iocStopped, controller, lock, clients, alive, conn, apc, cur,
            bpc, bnext, rpc, late, xpc, xnext>>
mainVars == <<running, mpc>>
vars == <<wsVars, mainVars>>

Init == /\ Ws!Init
        /\ running = TRUE
        /\ mpc = "sleep"

Acceptor == Ws!Acceptor /\ UNCHANGED mainVars
Broadcaster == Ws!Broadcaster /\ UNCHANGED mainVars
Reader(c) == Ws!Reader(c) /\ UNCHANGED mainVars
Stopping == Ws!Stopping /\ UNCHANGED mainVars

\* What clients and their connections do of themselves.
Environment ==
    /\ \/ \E c \in Clients : Ws!AcceptTake(c) \/ Ws!ClientLeaves(c) \/ Ws!ReadCommand(c)
       \/ Ws!AcceptFails
    /\ UNCHANGED mainVars

\* A signal, or the end of a replay.
Shutdown == /\ running' = FALSE
            /\ UNCHANGED <<mpc, wsVars>>

\* The status loop: sleep, test g_running, ...
MainWake == /\ mpc = "sleep"
            /\ mpc' = IF running THEN "count" ELSE "stopWs"
            /\ UNCHANGED <<running, wsVars>>

\* ... and report, with ws_server.client_count().
MainStatus == /\ mpc = "count" /\ Ws!Free
              /\ mpc' = "sleep"
              /\ UNCHANGED <<running, wsVars>>

MainStopWs == /\ mpc = "stopWs"
              /\ Ws!StopFlag
              /\ mpc' = "stopping"
              /\ UNCHANGED running

\* stop() has returned: on to the metrics server and the rest.
MainGoesOn == /\ mpc = "stopping" /\ xpc = "returned"
              /\ mpc' = "stopped"
              /\ UNCHANGED <<running, wsVars>>

Main == MainWake \/ MainStatus \/ MainStopWs \/ MainGoesOn

Next == \/ Acceptor \/ Broadcaster \/ Stopping \/ Main \/ Shutdown \/ Environment
        \/ \E c \in Clients : Reader(c)

\* Every thread runs, and every call on a client's stream returns.  Strong
\* fairness where a thread takes clients_mutex_: the broadcaster sleeps without
\* it, so it is not withheld for ever from a thread that keeps finding it free.
Spec == /\ Init /\ [][Next]_vars
        /\ SF_vars(Acceptor) /\ SF_vars(Broadcaster) /\ SF_vars(Stopping) /\ SF_vars(Main)
        /\ \A c \in Clients : WF_vars(Reader(c))

--------------------------------------------------------------------------------
\* Places of the threads, and who holds clients_mutex_ across steps.
TypeOK ==
    /\ clients \in Seq(Clients) /\ \A i, j \in 1..Len(clients) : i # j => clients[i] # clients[j]
    /\ conn \in [Clients -> {"none", "open", "gone", "closed"}]
    /\ alive \in [Clients -> BOOLEAN]
    /\ apc \in {"bind", "loop", "accept", "handshake", "count", "list", "spawn", "exited"}
    /\ cur \subseteq Clients /\ (apc \in {"handshake", "count", "list", "spawn"} <=> cur # {})
    /\ bpc \in {"check", "sleep", "cast", "write", "remove", "exited"} /\ bnext \in Nat \ {0}
    /\ rpc \in [Clients -> {"none", "check", "read", "command", "exited"}]
    /\ late \in [Clients -> Nat]
    /\ lock \in {"free", "broadcaster", "stop"}
    /\ lock = "broadcaster" <=> bpc = "write"
    /\ lock = "stop" <=> xpc = "close"
    /\ xpc \in {"idle", "ioc", "lock", "close", "joinAcceptor", "joinBroadcaster", "returned"}
    /\ xnext \in Nat \ {0}

\* After stop() has cleared running_, a reader calls the controller at most once
\* more, with the command it had already received or was waiting for.
AtMostOneLateCommand == \A c \in Clients : late[c] <= 1

\* "Close all client connections": at most one escapes stop(), the client that
\* accept_client was working on.
AtMostOneLeftOpen == xpc = "returned" => Cardinality({c \in Clients : conn[c] = "open"}) <= 1

\* broadcast and stop() walk clients_ while nobody else changes it.
ListStableWhileWalked ==
    [][clients' # clients => (bpc # "write" /\ (xpc = "close" => xpc' # "close"))]_vars

\* A dashboard that went away is forgotten, with or without a reader thread to
\* notice it.
GoneClientsLeave ==
    \A c \in Clients : (Ws!Listed(c) /\ conn[c] = "gone") ~> (~Ws!Listed(c) \/ ~serving)

\* The server stops: no order of the joins, the mutex and the threads' tests keeps
\* main from going on, provided that no client blocks a call for ever.
ServerStops == ~running ~> (mpc = "stopped")

\* accept_client works on one new client at a time, which enters clients_ last.
OneAccepted == /\ \A c, d \in cur : c = d
               /\ \A c \in cur : apc = "handshake" <=> conn[c] = "none"
               /\ \A c \in cur : apc \in {"handshake", "count", "list"} => ~Ws!Listed(c)
               /\ \A c \in Clients : Ws!Listed(c) => conn[c] # "none"
               /\ \A c \in Clients : rpc[c] # "none" => c \notin cur /\ conn[c] # "none"

\* Somebody still refers to every open connection, and only the end of its reader
\* makes a client dead that is connected or yet to come.
OpenIsReferenced ==
    \A c \in Clients :
        /\ conn[c] = "open" => Ws!Listed(c) \/ (c \in cur /\ apc \in {"count", "list"})
        /\ (conn[c] \in {"none", "open"} /\ rpc[c] # "exited") => alive[c]

Cleared == xpc \in {"joinAcceptor", "joinBroadcaster", "returned"}

\* stop() closes what is listed; afterwards only the client that accept_client was
\* working on can be listed.
StopProgress ==
    /\ xpc = "idle" <=> serving
    /\ xpc \notin {"idle", "ioc"} => iocStopped
    /\ xpc = "close" => \A i \in 1..Len(clients) : i < xnext => conn[clients[i]] # "open"
    /\ Cleared => Len(clients) <= 1
    /\ (Cleared /\ apc \in {"handshake", "count", "list"}) => clients = <<>>
    /\ xpc \in {"joinBroadcaster", "returned"} => apc = "exited"

\* A reader that has made its late call goes back to a test that fails.
LateReadersLeave ==
    \A c \in Clients : /\ late[c] <= 1
                       /\ late[c] = 1 => ~serving /\ rpc[c] \notin {"read", "command"}

\* The inductive invariant of the WebSocket server: its threads, its list of
\* clients and its connections agree after any interleaving, stop() included.
ServerInvariant == /\ TypeOK /\ OneAccepted /\ OpenIsReferenced /\ StopProgress
                   /\ LateReadersLeave
================================================================================
