-------------------------------- MODULE WsServer --------------------------------
(***************************************************************************)
(* The dashboard's WebSocket server, src/src/output/ws_server.cpp: the      *)
(* acceptor thread, the broadcaster thread, one detached reader thread per  *)
(* client (in replay mode, when there is a controller_), and stop(), called *)
(* by another thread.  They share clients_ under clients_mutex_, and the    *)
(* alive flags, which the readers touch without it.  (alive is a plain      *)
(* bool: a race, but on the targets a load returns a value some             *)
(* interleaving of the accesses gives.)                                     *)
(*                                                                          *)
(* Every call on a client's stream is synchronous, and Beast's timeouts     *)
(* apply to asynchronous calls only: ws.accept, write and close return when *)
(* the client lets them.  A stream is destroyed, and its socket closed,     *)
(* when neither clients_ nor a reader refers to it any more.                *)
(***************************************************************************)
EXTENDS Naturals, Sequences

CONSTANTS Clients

VARIABLES serving,      \* running_
          iocStopped,   \* accept_ioc_ is stopped
          controller,   \* controller_ is set
          lock,         \* who holds clients_mutex_ across steps, or "free"
          clients,      \* clients_
          alive,        \* Client::alive
          conn,         \* the connection with every client
          apc, cur,     \* the acceptor thread and the client it is accepting
          bpc, bnext,   \* the broadcaster thread and its place in clients_
          rpc,          \* the reader thread of every client
          late,         \* history: calls of controller_ since running_ was cleared
          xpc, xnext    \* the thread in stop() and its place in clients_

acceptVars == <<apc, cur>>
castVars == <<bpc, bnext>>
readVars == <<rpc, late>>
stopVars == <<serving, iocStopped, xpc, xnext>>
listVars == <<lock, clients, alive>>
vars == <<acceptVars, castVars, readVars, stopVars, listVars, conn, controller>>

Free == lock = "free"
Listed(c) == \E i \in 1..Len(clients) : clients[i] = c
HasReader(c) == rpc[c] \notin {"none", "exited"}

\* The connections after the last reference to the released ones was dropped.
Destroy(released) ==
    [c \in Clients |-> IF c \in released /\ conn[c] = "open" THEN "closed" ELSE conn[c]]

\* After start().
Init == /\ serving = TRUE /\ iocStopped = FALSE
        /\ controller \in BOOLEAN
        /\ lock = "free" /\ clients = <<>>
        /\ alive = [c \in Clients |-> TRUE]
        /\ conn = [c \in Clients |-> "none"]
        /\ apc = "bind" /\ cur = {}
        /\ bpc = "check" /\ bnext = 1
        /\ rpc = [c \in Clients |-> "none"]
        /\ late = [c \in Clients |-> 0]
        /\ xpc = "idle" /\ xnext = 1

--------------------------------------------------------------------------------
(* The clients.                                                            *)

\* This end learns that the connection is lost: further calls on the stream fail.
ClientLeaves(c) ==
    /\ conn[c] = "open"
    /\ conn' = [conn EXCEPT ![c] = "gone"]
    /\ UNCHANGED <<acceptVars, castVars, readVars, stopVars, listVars, controller>>

--------------------------------------------------------------------------------
(* The acceptor: run_acceptor and accept_client.                           *)

\* The acceptor_ is made and bound, or the port is taken and run_acceptor ends.
AcceptBind == /\ apc = "bind"
              /\ apc' \in {"loop", "exited"}
              /\ UNCHANGED <<cur, castVars, readVars, stopVars, listVars, conn, controller>>

\* do_accept; when it returns without an async_accept, run() runs out of work.
AcceptLoop == /\ apc = "loop"
              /\ apc' = IF serving THEN "accept" ELSE "exited"
              /\ UNCHANGED <<cur, castVars, readVars, stopVars, listVars, conn, controller>>

\* run() returns because the io_context is stopped.
AcceptStopped == /\ apc = "accept" /\ iocStopped
                 /\ apc' = "exited"
                 /\ UNCHANGED <<cur, castVars, readVars, stopVars, listVars, conn, controller>>

\* The handler of async_accept is called with an error; it goes on.
AcceptFails == /\ apc = "accept" /\ ~iocStopped
               /\ apc' = "loop"
               /\ UNCHANGED <<cur, castVars, readVars, stopVars, listVars, conn, controller>>

\* A client connects and the handler of async_accept is called with its socket.
AcceptTake(c) == /\ apc = "accept" /\ ~iocStopped /\ conn[c] = "none"
                 /\ apc' = "handshake" /\ cur' = {c}
                 /\ UNCHANGED <<castVars, readVars, stopVars, listVars, conn, controller>>

\* ws.accept() returns, or throws and accept_client catches.
AcceptHandshake(c) ==
    /\ apc = "handshake" /\ c \in cur
    /\ \/ /\ conn' = [conn EXCEPT ![c] = "open"]
          /\ apc' = "count"
          /\ UNCHANGED cur
       \/ /\ conn' = [conn EXCEPT ![c] = "gone"]
          /\ apc' = "loop" /\ cur' = {}
    /\ UNCHANGED <<castVars, readVars, stopVars, listVars, controller>>

\* client_count() for the log line.
AcceptCount == /\ apc = "count" /\ Free
               /\ apc' = "list"
               /\ UNCHANGED <<cur, castVars, readVars, stopVars, listVars, conn, controller>>

\* Mutant: push_back without clients_mutex_.
AcceptListUnlocked(c) == /\ apc = "list" /\ c \in cur
                         /\ clients' = Append(clients, c)
                         /\ apc' = "spawn"
                         /\ UNCHANGED <<cur, castVars, readVars, stopVars, lock, alive, conn,
                                        controller>>

\* clients_.push_back(client)
AcceptList(c) == /\ apc = "list" /\ c \in cur /\ Free
                 /\ clients' = Append(clients, c)
                 /\ apc' = "spawn"
                 /\ UNCHANGED <<cur, castVars, readVars, stopVars, lock, alive, conn, controller>>

\* The detached reader thread, if there is a controller_.
AcceptSpawn(c) == /\ apc = "spawn" /\ c \in cur
                  /\ rpc' = IF controller THEN [rpc EXCEPT ![c] = "check"] ELSE rpc
                  /\ apc' = "loop" /\ cur' = {}
                  /\ UNCHANGED <<late, castVars, stopVars, listVars, conn, controller>>

\* The thread; that a client connects is up to the client.
Acceptor == \/ AcceptBind \/ AcceptLoop \/ AcceptStopped \/ AcceptCount
            \/ \E c \in Clients : AcceptHandshake(c) \/ AcceptList(c) \/ AcceptSpawn(c)

--------------------------------------------------------------------------------
(* The broadcaster: run_broadcaster, broadcast and remove_dead_clients.    *)

\* while (running_), and the test after sleep_for.
CastCheck == /\ \/ bpc = "check" /\ bpc' = IF serving THEN "sleep" ELSE "exited"
                \/ bpc = "sleep" /\ bpc' = IF serving THEN "cast" ELSE "exited"
             /\ UNCHANGED <<bnext, acceptVars, readVars, stopVars, listVars, conn, controller>>

\* Mutant: broadcast does not keep clients_mutex_ while it writes.
CastLockBriefly == /\ bpc = "cast" /\ Free
                   /\ bpc' = "write" /\ bnext' = 1
                   /\ UNCHANGED <<acceptVars, readVars, stopVars, listVars, conn, controller>>

\* broadcast takes clients_mutex_ for its whole loop.
CastLock == /\ bpc = "cast" /\ Free
            /\ bpc' = "write" /\ bnext' = 1
            /\ lock' = "broadcaster"
            /\ UNCHANGED <<acceptVars, readVars, stopVars, clients, alive, conn, controller>>

\* Mutant: the exception of a failed write is swallowed.
CastWriteForgiving ==
    /\ bpc = "write" /\ bnext <= Len(clients)
    /\ bnext' = bnext + 1
    /\ UNCHANGED <<bpc, acceptVars, readVars, stopVars, listVars, conn, controller>>

\* ws.write to the next client, if it is alive; it throws if the client is gone.
CastWrite ==
    /\ bpc = "write" /\ bnext <= Len(clients)
    /\ alive' = [alive EXCEPT ![clients[bnext]] = @ /\ conn[clients[bnext]] = "open"]
    /\ bnext' = bnext + 1
    /\ UNCHANGED <<bpc, acceptVars, readVars, stopVars, lock, clients, conn, controller>>

CastUnlock == /\ bpc = "write" /\ bnext > Len(clients)
              /\ bpc' = "remove"
              /\ lock' = "free"
              /\ UNCHANGED <<bnext, acceptVars, readVars, stopVars, clients, alive, conn, controller>>

\* remove_if: what is kept of clients_, element by element.
Living == LET kept[n \in 0..Len(clients)] ==
                IF n = 0 THEN <<>>
                ELSE IF alive[clients[n]] THEN Append(kept[n - 1], clients[n]) ELSE kept[n - 1]
          IN kept[Len(clients)]

\* remove_dead_clients
CastRemove ==
    /\ bpc = "remove" /\ Free
    /\ clients' = Living
    /\ conn' = Destroy({c \in Clients : Listed(c) /\ ~alive[c] /\ ~HasReader(c)})
    /\ bpc' = "check" /\ bnext' = 1
    /\ UNCHANGED <<acceptVars, readVars, stopVars, lock, alive, controller>>

Broadcaster == CastCheck \/ CastLock \/ CastWrite \/ CastUnlock \/ CastRemove

--------------------------------------------------------------------------------
(* The reader of a client: read_commands.                                  *)

\* Mutant: the loop condition tests client->alive only.
MayReadAlive(c) == alive[c]

\* client->alive && running_
MayRead(c) == alive[c] /\ serving

\* The end of read_commands: alive = false, and the reader's reference goes.
ReadEnds(c) == /\ rpc' = [rpc EXCEPT ![c] = "exited"]
               /\ alive' = [alive EXCEPT ![c] = FALSE]
               /\ conn' = Destroy({c} \ {d \in Clients : Listed(d)})

ReadCheck(c) ==
    /\ rpc[c] = "check"
    /\ \/ MayRead(c) /\ rpc' = [rpc EXCEPT ![c] = "read"] /\ UNCHANGED <<alive, conn>>
       \/ ~MayRead(c) /\ ReadEnds(c)
    /\ UNCHANGED <<late, acceptVars, castVars, stopVars, lock, clients, controller>>

\* ws.read returns a command.
ReadCommand(c) ==
    /\ rpc[c] = "read" /\ conn[c] = "open"
    /\ rpc' = [rpc EXCEPT ![c] = "command"]
    /\ UNCHANGED <<late, acceptVars, castVars, stopVars, listVars, conn, controller>>

\* ws.read throws: the client left, or stop() closed the stream.
ReadFails(c) ==
    /\ rpc[c] = "read" /\ conn[c] \in {"gone", "closed"}
    /\ ReadEnds(c)
    /\ UNCHANGED <<late, acceptVars, castVars, stopVars, lock, clients, controller>>

\* controller_(msg)
ReadControl(c) ==
    /\ rpc[c] = "command"
    /\ rpc' = [rpc EXCEPT ![c] = "check"]
    /\ late' = [late EXCEPT ![c] = IF serving THEN @ ELSE @ + 1]
    /\ UNCHANGED <<acceptVars, castVars, stopVars, listVars, conn, controller>>

\* The thread; that a command arrives is up to the client.
Reader(c) == ReadCheck(c) \/ ReadFails(c) \/ ReadControl(c)

--------------------------------------------------------------------------------
(* stop().                                                                 *)

\* running_.exchange(false)
StopFlag == /\ xpc = "idle" /\ serving
            /\ serving' = FALSE
            /\ xpc' = "ioc"
            /\ UNCHANGED <<iocStopped, xnext, acceptVars, castVars, readVars, listVars, conn,
                           controller>>

\* Mutant: the io_context of the acceptor is not stopped.
StopIocForgotten == /\ xpc = "ioc"
                    /\ xpc' = "lock"
                    /\ UNCHANGED <<serving, iocStopped, xnext, acceptVars, castVars, readVars,
                                   listVars, conn, controller>>

\* accept_ioc_.stop()
StopIoc == /\ xpc = "ioc"
           /\ iocStopped' = TRUE
           /\ xpc' = "lock"
           /\ UNCHANGED <<serving, xnext, acceptVars, castVars, readVars, listVars, conn, controller>>

StopLock == /\ xpc = "lock" /\ Free
            /\ lock' = "stop"
            /\ xpc' = "close" /\ xnext' = 1
            /\ UNCHANGED <<serving, iocStopped, acceptVars, castVars, readVars, clients, alive,
                           conn, controller>>

\* Mutant: stop() forgets its clients without closing them.
StopCloseNot ==
    /\ xpc = "close" /\ xnext <= Len(clients)
    /\ alive' = [alive EXCEPT ![clients[xnext]] = FALSE]
    /\ xnext' = xnext + 1
    /\ UNCHANGED <<serving, iocStopped, xpc, acceptVars, castVars, readVars, lock, clients,
                   conn, controller>>

\* ws.close, which sends a close frame and waits for the answer; an error is
\* ignored.
StopClose ==
    /\ xpc = "close" /\ xnext <= Len(clients)
    /\ conn' = [conn EXCEPT ![clients[xnext]] = IF @ = "open" THEN "closed" ELSE @]
    /\ alive' = [alive EXCEPT ![clients[xnext]] = FALSE]
    /\ xnext' = xnext + 1
    /\ UNCHANGED <<serving, iocStopped, xpc, acceptVars, castVars, readVars, lock, clients,
                   controller>>

\* clients_.clear() and the end of the lock_guard.
StopClear ==
    /\ xpc = "close" /\ xnext > Len(clients)
    /\ clients' = <<>>
    /\ conn' = Destroy({c \in Clients : Listed(c) /\ ~HasReader(c)})
    /\ lock' = "free"
    /\ xpc' = "joinAcceptor" /\ xnext' = 1
    /\ UNCHANGED <<serving, iocStopped, acceptVars, castVars, readVars, alive, controller>>

StopJoin == /\ \/ xpc = "joinAcceptor" /\ apc = "exited" /\ xpc' = "joinBroadcaster"
               \/ xpc = "joinBroadcaster" /\ bpc = "exited" /\ xpc' = "returned"
            /\ UNCHANGED <<serving, iocStopped, xnext, acceptVars, castVars, readVars, listVars,
                           conn, controller>>

\* stop() once it has cleared the flag.
Stopping == StopIoc \/ StopLock \/ StopClose \/ StopClear \/ StopJoin
================================================================================
