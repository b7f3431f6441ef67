--------------------------- MODULE Monitoring_proofs ----------------------------
(***************************************************************************)
(* Proofs about Monitoring for any number of dashboards: the list of        *)
(* clients, the mutex and the connections agree after any interleaving of   *)
(* the acceptor, the broadcaster, the readers and stop().                   *)
(***************************************************************************)
EXTENDS Monitoring, LoopTheorems, SequenceTheorems, FiniteSetTheorems

\* The acceptor outside accept_client, and client_count().
LEMMA AcceptorKeeps ==
    ASSUME ServerInvariant,
           \/ Ws!AcceptBind \/ Ws!AcceptLoop \/ Ws!AcceptStopped
           \/ Ws!AcceptFails \/ Ws!AcceptCount
    PROVE  ServerInvariant'
<1> USE DEF Ws!AcceptBind, Ws!AcceptLoop, Ws!AcceptStopped, Ws!AcceptFails, Ws!AcceptCount,
        Ws!acceptVars, Ws!castVars, Ws!readVars, Ws!stopVars, Ws!listVars,
        Ws!Free, Ws!Listed, Ws!HasReader, Ws!Destroy
<1>1. TypeOK'
  BY DEF ServerInvariant, TypeOK
<1>2. OneAccepted'
  BY DEF ServerInvariant, TypeOK, OneAccepted
<1>3. OpenIsReferenced'
  BY DEF ServerInvariant, TypeOK, OneAccepted, OpenIsReferenced
<1>4. StopProgress'
  BY DEF ServerInvariant, TypeOK, OneAccepted, OpenIsReferenced, StopProgress, Cleared
<1>5. LateReadersLeave'
  BY DEF ServerInvariant, TypeOK, OneAccepted, StopProgress, LateReadersLeave
<1> QED BY <1>1, <1>2, <1>3, <1>4, <1>5 DEF ServerInvariant

\* accept_client gets a socket, or a handshake ends.
LEMMA HandshakeKeeps ==
    ASSUME ServerInvariant, NEW c \in Clients, Ws!AcceptTake(c) \/ Ws!AcceptHandshake(c)
    PROVE  ServerInvariant'
<1> USE DEF Ws!AcceptTake, Ws!AcceptHandshake,
        Ws!acceptVars, Ws!castVars, Ws!readVars, Ws!stopVars, Ws!listVars,
        Ws!Free, Ws!Listed, Ws!HasReader, Ws!Destroy
<1>1. TypeOK'
  BY DEF ServerInvariant, TypeOK
<1>2. OneAccepted'
  BY DEF ServerInvariant, TypeOK, OneAccepted
<1>3. OpenIsReferenced'
  <2>1. CASE Ws!AcceptTake(c)
    BY <2>1 DEF ServerInvariant, TypeOK, OneAccepted, OpenIsReferenced
  <2>2. CASE Ws!AcceptHandshake(c)
    BY <2>2 DEF ServerInvariant, TypeOK, OneAccepted, OpenIsReferenced
  <2> QED BY <2>1, <2>2
<1>4. StopProgress'
  BY DEF ServerInvariant, TypeOK, OneAccepted, OpenIsReferenced, StopProgress, Cleared
<1>5. LateReadersLeave'
  BY DEF ServerInvariant, TypeOK, OneAccepted, StopProgress, LateReadersLeave
<1> QED BY <1>1, <1>2, <1>3, <1>4, <1>5 DEF ServerInvariant

\* accept_client enters the new client in clients_, where it is not yet.
LEMMA ListKeeps ==
    ASSUME ServerInvariant, NEW c \in Clients, Ws!AcceptList(c)
    PROVE  ServerInvariant'
<1> USE DEF Ws!AcceptList,
        Ws!acceptVars, Ws!castVars, Ws!readVars, Ws!stopVars, Ws!listVars,
        Ws!Free, Ws!Listed, Ws!HasReader, Ws!Destroy
<1>1. TypeOK'
  <2>1. clients \in Seq(Clients) /\ clients' = Append(clients, c) /\ ~Ws!Listed(c)
    BY DEF ServerInvariant, TypeOK, OneAccepted
  <2>2. clients' \in Seq(Clients)
    BY <2>1
  <2>3. \A i, j \in 1..Len(clients') : i # j => clients'[i] # clients'[j]
    BY <2>1, AppendProperties DEF ServerInvariant, TypeOK
  <2> QED BY <2>2, <2>3 DEF ServerInvariant, TypeOK
<1>2. OneAccepted'
  BY DEF ServerInvariant, TypeOK, OneAccepted
<1>3. OpenIsReferenced'
  BY DEF ServerInvariant, TypeOK, OneAccepted, OpenIsReferenced
<1>4. StopProgress'
  BY DEF ServerInvariant, TypeOK, OneAccepted, OpenIsReferenced, StopProgress, Cleared
<1>5. LateReadersLeave'
  BY DEF ServerInvariant, TypeOK, OneAccepted, StopProgress, LateReadersLeave
<1> QED BY <1>1, <1>2, <1>3, <1>4, <1>5 DEF ServerInvariant

\* accept_client is done; the client may have a reader from now on.
LEMMA SpawnKeeps ==
    ASSUME ServerInvariant, NEW c \in Clients, Ws!AcceptSpawn(c)
    PROVE  ServerInvariant'
<1> USE DEF Ws!AcceptSpawn,
        Ws!acceptVars, Ws!castVars, Ws!readVars, Ws!stopVars, Ws!listVars,
        Ws!Free, Ws!Listed, Ws!HasReader, Ws!Destroy
<1>1. TypeOK'
  BY DEF ServerInvariant, TypeOK
<1>2. OneAccepted'
  BY DEF ServerInvariant, TypeOK, OneAccepted
<1>3. OpenIsReferenced'
  BY DEF ServerInvariant, TypeOK, OneAccepted, OpenIsReferenced
<1>4. StopProgress'
  BY DEF ServerInvariant, TypeOK, OneAccepted, OpenIsReferenced, StopProgress, Cleared
<1>5. LateReadersLeave'
  BY DEF ServerInvariant, TypeOK, OneAccepted, StopProgress, LateReadersLeave
<1> QED BY <1>1, <1>2, <1>3, <1>4, <1>5 DEF ServerInvariant

\* The broadcaster, remove_dead_clients aside: a failed write is what makes a
\* client dead.
LEMMA CastKeeps ==
    ASSUME ServerInvariant, Ws!CastCheck \/ Ws!CastLock \/ Ws!CastWrite \/ Ws!CastUnlock
    PROVE  ServerInvariant'
<1> USE DEF Ws!CastCheck, Ws!CastLock, Ws!CastWrite, Ws!CastUnlock,
        Ws!acceptVars, Ws!castVars, Ws!readVars, Ws!stopVars, Ws!listVars,
        Ws!Free, Ws!Listed, Ws!HasReader, Ws!Destroy
<1>1. TypeOK'
  <2>1. CASE Ws!CastCheck
    BY <2>1 DEF ServerInvariant, TypeOK
  <2>2. CASE Ws!CastLock
    BY <2>2 DEF ServerInvariant, TypeOK
  <2>3. CASE Ws!CastWrite
    BY <2>3 DEF ServerInvariant, TypeOK
  <2>4. CASE Ws!CastUnlock
    BY <2>4 DEF ServerInvariant, TypeOK
  <2> QED BY <2>1, <2>2, <2>3, <2>4
<1>2. OneAccepted'
  BY DEF ServerInvariant, TypeOK, OneAccepted
<1>3. OpenIsReferenced'
  <2>1. CASE Ws!CastCheck
    BY <2>1 DEF ServerInvariant, TypeOK, OneAccepted, OpenIsReferenced
  <2>2. CASE Ws!CastLock
    BY <2>2 DEF ServerInvariant, TypeOK, OneAccepted, OpenIsReferenced
  <2>3. CASE Ws!CastWrite
    BY <2>3 DEF ServerInvariant, TypeOK, OneAccepted, OpenIsReferenced
  <2>4. CASE Ws!CastUnlock
    BY <2>4 DEF ServerInvariant, TypeOK, OneAccepted, OpenIsReferenced
  <2> QED BY <2>1, <2>2, <2>3, <2>4
<1>4. StopProgress'
  BY DEF ServerInvariant, TypeOK, OneAccepted, OpenIsReferenced, StopProgress, Cleared
<1>5. LateReadersLeave'
  BY DEF ServerInvariant, TypeOK, OneAccepted, StopProgress, LateReadersLeave
<1> QED BY <1>1, <1>2, <1>3, <1>4, <1>5 DEF ServerInvariant

\* The reader of a client, and the client's leaving: no connection is opened, and
\* a reader that ends leaves its client dead.
LEMMA ReaderKeeps ==
    ASSUME ServerInvariant, NEW c \in Clients,
           \/ Ws!ReadCheck(c) \/ Ws!ReadCommand(c) \/ Ws!ReadFails(c)
           \/ Ws!ReadControl(c) \/ Ws!ClientLeaves(c)
    PROVE  ServerInvariant'
<1> USE DEF Ws!acceptVars, Ws!castVars, Ws!readVars, Ws!stopVars, Ws!listVars
<1>1. /\ UNCHANGED <<apc, cur, bpc, bnext, lock, clients, serving, iocStopped, xpc, xnext>>
      /\ Ws!ClientLeaves(c) \/ rpc[c] \notin {"none", "exited"}
  BY DEF Ws!ReadCheck, Ws!ReadCommand, Ws!ReadFails, Ws!ReadControl, Ws!ClientLeaves
<1>2. /\ conn' \in [Clients -> {"none", "open", "gone", "closed"}]
      /\ \A d \in Clients : /\ conn'[d] = "none" <=> conn[d] = "none"
                            /\ conn'[d] = "open" => conn[d] = "open"
  <2>1. CASE Ws!ReadCheck(c) \/ Ws!ReadFails(c)
    BY <2>1 DEF Ws!ReadCheck, Ws!ReadFails, Ws!ReadEnds, Ws!Destroy, ServerInvariant, TypeOK
  <2>2. CASE Ws!ReadCommand(c) \/ Ws!ReadControl(c)
    BY <2>2 DEF Ws!ReadCommand, Ws!ReadControl, ServerInvariant, TypeOK
  <2>3. CASE Ws!ClientLeaves(c)
    BY <2>3 DEF Ws!ClientLeaves, ServerInvariant, TypeOK
  <2> QED BY <2>1, <2>2, <2>3
<1>3. /\ rpc' \in [Clients -> {"none", "check", "read", "command", "exited"}]
      /\ alive' \in [Clients -> BOOLEAN]
      /\ \A d \in Clients : /\ d # c => rpc'[d] = rpc[d] /\ alive'[d] = alive[d]
                            /\ rpc'[d] = "none" <=> rpc[d] = "none"
                            /\ rpc'[d] # "exited" => rpc[d] # "exited" /\ alive'[d] = alive[d]
  <2>1. CASE Ws!ReadCheck(c) /\ Ws!MayRead(c)
    BY <2>1 DEF Ws!ReadCheck, ServerInvariant, TypeOK
  <2>2. CASE (Ws!ReadCheck(c) /\ ~Ws!MayRead(c)) \/ Ws!ReadFails(c)
    <3>1. /\ rpc' = [rpc EXCEPT ![c] = "exited"] /\ rpc[c] # "none"
          /\ alive' = [alive EXCEPT ![c] = FALSE]
      BY <2>2 DEF Ws!ReadCheck, Ws!ReadFails, Ws!ReadEnds
    <3> QED BY <3>1 DEF ServerInvariant, TypeOK
  <2>3. CASE Ws!ReadCommand(c) \/ Ws!ReadControl(c)
    BY <2>3 DEF Ws!ReadCommand, Ws!ReadControl, ServerInvariant, TypeOK
  <2>4. CASE Ws!ClientLeaves(c)
    BY <2>4 DEF Ws!ClientLeaves, ServerInvariant, TypeOK
  <2> QED BY <2>1, <2>2, <2>3, <2>4
<1>4. /\ late' \in [Clients -> Nat]
      /\ \A d \in Clients :
            /\ late'[d] = late[d] /\ (rpc'[d] \in {"read", "command"}
                                          => rpc[d] \in {"read", "command"} \/ serving)
            \/ /\ late'[d] = late[d] + 1 /\ ~serving
               /\ rpc[d] = "command" /\ rpc'[d] = "check"
  <2>1. CASE Ws!ReadCheck(c)
    BY <2>1 DEF Ws!ReadCheck, Ws!ReadEnds, Ws!MayRead, ServerInvariant, TypeOK
  <2>2. CASE Ws!ReadFails(c)
    BY <2>2 DEF Ws!ReadFails, Ws!ReadEnds, ServerInvariant, TypeOK
  <2>3. CASE Ws!ReadCommand(c)
    BY <2>3 DEF Ws!ReadCommand, ServerInvariant, TypeOK
  <2>4. CASE Ws!ReadControl(c)
    BY <2>4 DEF Ws!ReadControl, ServerInvariant, TypeOK
  <2>5. CASE Ws!ClientLeaves(c)
    BY <2>5 DEF Ws!ClientLeaves, ServerInvariant, TypeOK
  <2> QED BY <2>1, <2>2, <2>3, <2>4, <2>5
<1>5. TypeOK'
  BY <1>1, <1>2, <1>3, <1>4 DEF ServerInvariant, TypeOK
<1>6. OneAccepted'
  BY <1>1, <1>2, <1>3 DEF ServerInvariant, TypeOK, OneAccepted, Ws!Listed
<1>7. OpenIsReferenced'
  BY <1>1, <1>2, <1>3 DEF ServerInvariant, OpenIsReferenced, Ws!Listed
<1>8. StopProgress'
  <2>1. \A i \in 1..Len(clients) : clients[i] \in Clients
    BY DEF ServerInvariant, TypeOK
  <2> QED BY <1>1, <1>2, <2>1 DEF ServerInvariant, StopProgress, Cleared
<1>9. LateReadersLeave'
  <2>1. ASSUME NEW d \in Clients
        PROVE  late'[d] <= 1 /\ (late'[d] = 1 => ~serving /\ rpc'[d] \notin {"read", "command"})
    <3>1. /\ late[d] \in Nat /\ late[d] <= 1
          /\ late[d] = 1 => ~serving /\ rpc[d] \notin {"read", "command"}
      BY DEF ServerInvariant, TypeOK, LateReadersLeave
    <3> QED BY <1>4, <3>1
  <2> QED BY <1>1, <2>1 DEF LateReadersLeave
<1> QED BY <1>5, <1>6, <1>7, <1>8, <1>9 DEF ServerInvariant

\* stop() outside its loop.  After the flag and the io_context no client is taken.
LEMMA StopKeeps ==
    ASSUME ServerInvariant, Ws!StopFlag \/ Ws!StopIoc \/ Ws!StopLock \/ Ws!StopJoin
    PROVE  ServerInvariant'
<1> USE DEF Ws!StopFlag, Ws!StopIoc, Ws!StopLock, Ws!StopJoin, Ws!Free,
        Ws!acceptVars, Ws!castVars, Ws!readVars, Ws!stopVars, Ws!listVars
<1>1. UNCHANGED <<clients, alive, conn, apc, cur, bpc, bnext, rpc, late>>
  OBVIOUS
<1>2. TypeOK'
  BY DEF ServerInvariant, TypeOK
<1>3. OneAccepted' /\ OpenIsReferenced'
  BY ONLY ServerInvariant, <1>1 DEF ServerInvariant, OneAccepted, OpenIsReferenced, Ws!Listed
<1>4. StopProgress'
  <2>1. CASE Ws!StopFlag
    BY <2>1 DEF ServerInvariant, TypeOK, StopProgress, Cleared
  <2>2. CASE Ws!StopIoc
    BY <2>2 DEF ServerInvariant, TypeOK, StopProgress, Cleared
  <2>3. CASE Ws!StopLock
    BY <2>3 DEF ServerInvariant, TypeOK, StopProgress, Cleared
  <2>4. CASE Ws!StopJoin
    BY <2>4 DEF ServerInvariant, TypeOK, StopProgress, Cleared
  <2> QED BY <2>1, <2>2, <2>3, <2>4
<1>5. LateReadersLeave'
  BY DEF ServerInvariant, TypeOK, StopProgress, LateReadersLeave
<1> QED BY <1>2, <1>3, <1>4, <1>5 DEF ServerInvariant

\* stop() closes the next of its clients.
LEMMA StopCloseKeeps ==
    ASSUME ServerInvariant, Ws!StopClose
    PROVE  ServerInvariant'
<1> USE DEF Ws!StopClose,
        Ws!acceptVars, Ws!castVars, Ws!readVars, Ws!stopVars, Ws!listVars,
        Ws!Free, Ws!Listed, Ws!HasReader, Ws!Destroy
<1>1. TypeOK'
  BY DEF ServerInvariant, TypeOK
<1>2. OneAccepted'
  BY DEF ServerInvariant, TypeOK, OneAccepted
<1>3. OpenIsReferenced'
  BY DEF ServerInvariant, TypeOK, OneAccepted, OpenIsReferenced
<1>4. StopProgress'
  BY DEF ServerInvariant, TypeOK, OneAccepted, OpenIsReferenced, StopProgress, Cleared
<1>5. LateReadersLeave'
  BY DEF ServerInvariant, TypeOK, OneAccepted, StopProgress, LateReadersLeave
<1> QED BY <1>1, <1>2, <1>3, <1>4, <1>5 DEF ServerInvariant

\* stop() has walked the whole list, so that what it clears is closed.
LEMMA StopClearKeeps ==
    ASSUME ServerInvariant, Ws!StopClear
    PROVE  ServerInvariant'
<1> USE DEF Ws!StopClear,
        Ws!acceptVars, Ws!castVars, Ws!readVars, Ws!stopVars, Ws!listVars,
        Ws!Free, Ws!Listed, Ws!HasReader, Ws!Destroy
<1>1. TypeOK'
  BY DEF ServerInvariant, TypeOK
<1>2. OneAccepted'
  BY DEF ServerInvariant, TypeOK, OneAccepted
<1>3. OpenIsReferenced'
  <2>1. ASSUME NEW c \in Clients, Ws!Listed(c) PROVE conn[c] # "open"
    <3>1. PICK i \in 1..Len(clients) : clients[i] = c
      BY <2>1
    <3>2. i < xnext
      BY DEF ServerInvariant, TypeOK
    <3> QED BY <3>1, <3>2 DEF ServerInvariant, StopProgress
  <2>2. \A c \in Clients : conn'[c] = conn[c]
    BY <2>1 DEF ServerInvariant, TypeOK
  <2> QED BY <2>1, <2>2 DEF ServerInvariant, OpenIsReferenced
<1>4. StopProgress'
  BY DEF ServerInvariant, TypeOK, OneAccepted, OpenIsReferenced, StopProgress, Cleared
<1>5. LateReadersLeave'
  BY DEF ServerInvariant, TypeOK, OneAccepted, StopProgress, LateReadersLeave
<1> QED BY <1>1, <1>2, <1>3, <1>4, <1>5 DEF ServerInvariant

\* What remove_if leaves: the living clients, each once.
LEMMA LivingProperties ==
    ASSUME ServerInvariant
    PROVE  /\ Ws!Living \in Seq(Clients)
           /\ \A i, j \in 1..Len(Ws!Living) : i # j => Ws!Living[i] # Ws!Living[j]
           /\ \A c \in Clients : (\E i \in 1..Len(Ws!Living) : Ws!Living[i] = c)
                                     <=> Ws!Listed(c) /\ alive[c]
           /\ Len(Ws!Living) <= Len(clients)
<1> DEFINE N == Len(clients)
           Turn(n, s) == IF alive[clients[n]] THEN Append(s, clients[n]) ELSE s
           Loop(H) == H = [n \in 0..N |-> IF n = 0 THEN <<>> ELSE Turn(n, H[n - 1])]
           kept == CHOOSE H : Loop(H)
<1>1. Ws!Living = kept[N]
  BY Zenon DEF Ws!Living
<1>2. /\ N \in Nat /\ clients \in Seq(Clients)
      /\ \A i \in 1..N : clients[i] \in Clients
      /\ \A i, j \in 1..N : i # j => clients[i] # clients[j]
  BY DEF ServerInvariant, TypeOK
<1> HIDE DEF N
<1>3. Loop(kept)
  <2> DEFINE V == Seq(Clients)
             none == <<>>
             turn == [n \in 1..N |-> [s \in V |-> Turn(n, s)]]
  <2>1. turn \in Turns(N, V) /\ none \in V
    BY <1>2 DEF Turns
  <2>2. PICK G : LoopRuns(N, V, none, turn, G)
    <3> HIDE DEF turn, V, none
    <3> QED BY <1>2, <2>1, LoopExists
  <2>3. G \in [0..N -> V] /\ G[0] = <<>> /\ \A n \in 1..N : G[n] = Turn(n, G[n - 1])
    <3>1. ASSUME NEW n \in 1..N PROVE G[n] = Turn(n, G[n - 1])
      <4> HIDE DEF V, none, Turn, turn
      <4>1. n - 1 \in 0..N /\ G[n - 1] \in V /\ G[n] = turn[n][G[n - 1]]
        BY <1>2, <2>2 DEF LoopRuns
      <4> QED BY <4>1 DEF turn
    <3> QED BY <2>2, <3>1 DEF LoopRuns
  <2> HIDE DEF Turn, turn
  <2>4. Loop(G)
    <3>1. ASSUME NEW n \in 0..N PROVE G[n] = IF n = 0 THEN <<>> ELSE Turn(n, G[n - 1])
      BY <1>2, <2>3
    <3> QED BY <2>3, <3>1
  <2> HIDE DEF Loop
  <2> QED BY <2>4
<1> HIDE DEF kept
<1>4. kept[0] = <<>> /\ \A n \in 1..N : kept[n] = Turn(n, kept[n - 1])
  <2> HIDE DEF Turn
  <2>1. ASSUME NEW n \in 0..N PROVE kept[n] = IF n = 0 THEN <<>> ELSE Turn(n, kept[n - 1])
    BY <1>3, Zenon
  <2> HIDE DEF Loop, kept
  <2>2. kept[0] = <<>>
    <3>1. 0 \in 0..N
      BY <1>2
    <3> QED BY <2>1, <3>1
  <2>3. ASSUME NEW n \in 1..N PROVE kept[n] = Turn(n, kept[n - 1])
    <3>1. n \in 0..N /\ n # 0
      BY <1>2
    <3> QED BY <2>1, <3>1
  <2> QED BY <2>2, <2>3
<1> HIDE DEF Loop
<1> DEFINE Sound(n) ==
              /\ kept[n] \in Seq(Clients) /\ Len(kept[n]) <= n
              /\ \A i, j \in 1..Len(kept[n]) : i # j => kept[n][i] # kept[n][j]
              /\ \A c \in Clients : (\E i \in 1..Len(kept[n]) : kept[n][i] = c)
                                        <=> (\E i \in 1..n : clients[i] = c) /\ alive[c]
           T == {n \in Nat : n <= N => Sound(n)}
<1>5. 0 \in T
  <2>1. kept[0] \in Seq(Clients) /\ Len(kept[0]) = 0
    BY <1>4
  <2> QED BY <2>1
<1>6. ASSUME NEW n \in Nat, n \in T PROVE n + 1 \in T
  <2> SUFFICES ASSUME n + 1 <= N PROVE Sound(n + 1)
    OBVIOUS
  <2> DEFINE s == kept[n]
             t == kept[n + 1]
             d == clients[n + 1]
  <2>1. Sound(n) /\ n + 1 \in 1..N /\ (n + 1) - 1 = n
    <3>1. n <= N /\ n + 1 \in 1..N /\ (n + 1) - 1 = n
      BY <1>2
    <3> HIDE DEF Sound
    <3> QED BY <1>6, <3>1
  <2>2. t = Turn(n + 1, s) /\ d \in Clients
    BY <1>2, <1>4, <2>1
  <2>3. \A i \in 1..n : clients[i] # d
    BY <1>2, <2>1
  <2>4. /\ s \in Seq(Clients) /\ Len(s) <= n
        /\ \A i, j \in 1..Len(s) : i # j => s[i] # s[j]
        /\ \A c \in Clients : (\E i \in 1..Len(s) : s[i] = c)
                                  <=> (\E i \in 1..n : clients[i] = c) /\ alive[c]
    BY <2>1
  <2>5. \A c \in Clients : (\E i \in 1..(n + 1) : clients[i] = c)
                              <=> (\E i \in 1..n : clients[i] = c) \/ c = d
    BY <2>1
  <2> HIDE DEF s, t, d
  <2>6. CASE alive[d]
    <3>1. t = Append(s, d)
      BY <2>2, <2>6 DEF d
    <3>2. /\ t \in Seq(Clients) /\ Len(t) = Len(s) + 1 /\ Len(s) \in Nat
          /\ \A i \in 1..Len(s) : t[i] = s[i]
          /\ t[Len(s) + 1] = d
      BY <2>2, <2>4, <3>1, AppendProperties
    <3>3. \A i \in 1..Len(s) : s[i] # d
      BY <2>2, <2>3, <2>4
    <3>4. \A i, j \in 1..Len(t) : i # j => t[i] # t[j]
      BY <2>4, <3>2, <3>3
    <3>5. \A c \in Clients : (\E i \in 1..Len(t) : t[i] = c)
                                <=> (\E i \in 1..Len(s) : s[i] = c) \/ c = d
      BY <3>2
    <3>6. \A c \in Clients : (\E i \in 1..Len(t) : t[i] = c)
                                <=> (\E i \in 1..(n + 1) : clients[i] = c) /\ alive[c]
      BY <2>4, <2>5, <2>6, <3>5
    <3>7. Len(t) <= n + 1
      BY <2>4, <3>2
    <3> QED BY <3>2, <3>4, <3>6, <3>7 DEF t
  <2>7. CASE ~alive[d]
    <3>1. t = s
      BY <2>2, <2>7 DEF d
    <3>2. \A c \in Clients : (\E i \in 1..Len(t) : t[i] = c)
                                <=> (\E i \in 1..(n + 1) : clients[i] = c) /\ alive[c]
      BY <2>4, <2>5, <2>7, <3>1
    <3>3. Len(t) <= n + 1
      BY <2>4, <3>1
    <3> QED BY <2>4, <3>1, <3>2, <3>3 DEF t
  <2> QED BY <2>6, <2>7
<1> HIDE DEF T
<1>7. N \in T
  BY <1>2, <1>5, <1>6, InductionOnSet
<1>8. Sound(N)
  BY <1>2, <1>7 DEF T
<1> QED BY <1>1, <1>8 DEF N, Ws!Listed

\* remove_dead_clients drops clients that are not connected, or whose reader has
\* ended; the connection of the latter goes with the last reference.
LEMMA RemoveKeeps ==
    ASSUME ServerInvariant, Ws!CastRemove
    PROVE  ServerInvariant'
<1> USE DEF Ws!CastRemove, Ws!acceptVars, Ws!castVars, Ws!readVars, Ws!stopVars, Ws!Free
<1>1. /\ clients' \in Seq(Clients) /\ Len(clients') <= Len(clients)
      /\ \A i, j \in 1..Len(clients') : i # j => clients'[i] # clients'[j]
      /\ \A c \in Clients : (\E i \in 1..Len(clients') : clients'[i] = c)
                                <=> Ws!Listed(c) /\ alive[c]
  BY LivingProperties
<1>2. \A c \in Clients : Ws!Listed(c)' <=> Ws!Listed(c) /\ alive[c]
  BY <1>1 DEF Ws!Listed
<1>3. /\ conn' \in [Clients -> {"none", "open", "gone", "closed"}]
      /\ \A c \in Clients : /\ conn'[c] = "none" <=> conn[c] = "none"
                            /\ conn'[c] = "open" => conn[c] = "open"
                            /\ (conn'[c] = "open" /\ Ws!Listed(c)) => alive[c] \/ Ws!HasReader(c)
  BY DEF Ws!Destroy, ServerInvariant, TypeOK
<1>4. TypeOK'
  BY <1>1, <1>3 DEF ServerInvariant, TypeOK
<1>5. OneAccepted'
  BY <1>2, <1>3 DEF ServerInvariant, TypeOK, OneAccepted
<1>6. OpenIsReferenced'
  BY <1>2, <1>3 DEF ServerInvariant, TypeOK, OpenIsReferenced, Ws!HasReader
<1>7. StopProgress'
  <2>1. Len(clients) \in Nat /\ Len(clients') \in Nat
    BY <1>1 DEF ServerInvariant, TypeOK
  <2>2. clients = <<>> => clients' = <<>>
    BY <1>1, <2>1
  <2> QED BY <1>1, <2>1, <2>2 DEF ServerInvariant, TypeOK, StopProgress, Cleared
<1>8. LateReadersLeave'
  BY DEF ServerInvariant, LateReadersLeave
<1> QED BY <1>4, <1>5, <1>6, <1>7, <1>8 DEF ServerInvariant

\* The server starts without clients.
LEMMA ServerInit == Init => ServerInvariant
<1> SUFFICES ASSUME Init PROVE ServerInvariant
  OBVIOUS
<1> USE DEF Init, Ws!Init
<1>1. TypeOK
  BY DEF TypeOK
<1>2. OneAccepted /\ OpenIsReferenced
  BY DEF OneAccepted, OpenIsReferenced, Ws!Listed
<1>3. StopProgress /\ LateReadersLeave
  BY DEF StopProgress, Cleared, LateReadersLeave
<1> QED BY <1>1, <1>2, <1>3 DEF ServerInvariant

\* The main thread and the signal handler leave the server alone but for stop().
LEMMA StutterKeeps ==
    ASSUME ServerInvariant, UNCHANGED wsVars
    PROVE  ServerInvariant'
<1> USE DEF wsVars
<1>1. TypeOK'
  BY DEF ServerInvariant, TypeOK
<1>2. OneAccepted' /\ OpenIsReferenced'
  BY DEF ServerInvariant, OneAccepted, OpenIsReferenced, Ws!Listed
<1>3. StopProgress' /\ LateReadersLeave'
  BY DEF ServerInvariant, StopProgress, Cleared, LateReadersLeave
<1> QED BY <1>1, <1>2, <1>3 DEF ServerInvariant

\* Every step keeps the invariant.
LEMMA ServerStep == ASSUME ServerInvariant, [Next]_vars PROVE ServerInvariant'
<1>1. CASE Acceptor
  BY <1>1, AcceptorKeeps, HandshakeKeeps, ListKeeps, SpawnKeeps DEF Acceptor, Ws!Acceptor
<1>2. CASE Broadcaster
  BY <1>2, CastKeeps, RemoveKeeps DEF Broadcaster, Ws!Broadcaster
<1>3. CASE Stopping
  BY <1>3, StopKeeps, StopCloseKeeps, StopClearKeeps DEF Stopping, Ws!Stopping
<1>4. CASE Main
  BY <1>4, StopKeeps, StutterKeeps DEF Main, MainWake, MainStatus, MainStopWs, MainGoesOn
<1>5. CASE Shutdown
  BY <1>5, StutterKeeps DEF Shutdown
<1>6. CASE Environment
  BY <1>6, AcceptorKeeps, HandshakeKeeps, ReaderKeeps DEF Environment
<1>7. CASE \E c \in Clients : Reader(c)
  BY <1>7, ReaderKeeps DEF Reader, Ws!Reader
<1>8. CASE UNCHANGED vars
  BY <1>8, StutterKeeps DEF vars
<1> QED BY <1>1, <1>2, <1>3, <1>4, <1>5, <1>6, <1>7, <1>8 DEF Next

--------------------------------------------------------------------------------
\* The list of clients, the mutex, the connections and stop() agree after any
\* interleaving of the server's threads, for any number of dashboards.
THEOREM ServerInvariantHolds == Spec => []ServerInvariant
BY ServerInit, ServerStep, PTL DEF Spec

\* After stop() has cleared running_, read_commands makes at most one more call of
\* the controller per client.
THEOREM LateCommandHolds == Spec => []AtMostOneLateCommand
<1>1. ServerInvariant => AtMostOneLateCommand
  BY DEF ServerInvariant, LateReadersLeave, AtMostOneLateCommand
<1> QED BY <1>1, ServerInvariantHolds, PTL

\* When stop() returns, at most one connection is open: that of the client which
\* accept_client was working on when the others were closed.
THEOREM LeftOpenHolds == Spec => []AtMostOneLeftOpen
<1>1. ServerInvariant => AtMostOneLeftOpen
  <2> SUFFICES ASSUME ServerInvariant, xpc = "returned"
               PROVE  Cardinality({c \in Clients : conn[c] = "open"}) <= 1
    BY DEF AtMostOneLeftOpen
  <2> DEFINE open == {c \in Clients : conn[c] = "open"}
  <2>1. cur = {} /\ Len(clients) <= 1 /\ Len(clients) \in Nat
    BY DEF ServerInvariant, TypeOK, StopProgress, Cleared
  <2>2. \A c \in open : Ws!Listed(c)
    BY <2>1 DEF ServerInvariant, OpenIsReferenced
  <2>3. \A c \in open : c = clients[1]
    BY <2>1, <2>2 DEF Ws!Listed
  <2>4. open \subseteq {clients[1]}
    BY <2>3
  <2> HIDE DEF open
  <2>5. IsFiniteSet({clients[1]}) /\ Cardinality({clients[1]}) = 1
    BY FS_Singleton
  <2>6. Cardinality(open) <= 1
    BY <2>4, <2>5, FS_Subset
  <2> QED BY <2>6 DEF open
<1> QED BY <1>1, ServerInvariantHolds, PTL

\* clients_mutex_ does its work: nobody changes clients_ while broadcast or stop()
\* iterates over it.
THEOREM ListStableHolds == Spec => ListStableWhileWalked
<1>1. ASSUME ServerInvariant, [Next]_vars, clients' # clients
      PROVE  bpc # "write" /\ (xpc = "close" => xpc' # "close")
  <2>1. \/ lock = "free"
        \/ xpc = "close" /\ xpc' = "joinAcceptor"
    BY <1>1 DEF Next, vars, wsVars, Acceptor, Broadcaster, Stopping, Main, Shutdown, Environment,
        Reader, MainWake, MainStatus, MainStopWs, MainGoesOn, Ws!Acceptor, Ws!Broadcaster,
        Ws!Stopping, Ws!Reader, Ws!AcceptBind, Ws!AcceptLoop, Ws!AcceptStopped, Ws!AcceptFails,
        Ws!AcceptTake, Ws!AcceptHandshake, Ws!AcceptCount, Ws!AcceptList, Ws!AcceptSpawn,
        Ws!CastCheck, Ws!CastLock, Ws!CastWrite, Ws!CastUnlock, Ws!CastRemove, Ws!ReadCheck,
        Ws!ReadCommand, Ws!ReadFails, Ws!ReadControl, Ws!ClientLeaves, Ws!StopFlag, Ws!StopIoc,
        Ws!StopLock, Ws!StopClose, Ws!StopClear, Ws!StopJoin, Ws!Free, Ws!listVars
  <2> QED BY <1>1, <2>1 DEF ServerInvariant, TypeOK
<1> QED BY <1>1, ServerInvariantHolds, PTL DEF Spec, ListStableWhileWalked
================================================================================
