----------------------------- MODULE LiveFeed_proofs -----------------------------
(***************************************************************************)
(* Proofs about LivePipeline, and about LiveFeed, which extends it.         *)
(*                                                                         *)
(* LivePipeline, for every queue size and any number of messages and        *)
(* reconnections: messages are accounted for, statistics are never ahead,   *)
(* and the shutdown loses at most one message, which was accepted after     *)
(* the shutdown was requested.                                              *)
(*                                                                         *)
(* LiveFeed, for any frames: with its parsers the live process is one       *)
(* LivePipeline allows, every frame is taken for what it is, the parsers    *)
(* keep the first levels, and the reconnect delay is exponential in the     *)
(* failures.                                                                *)
(***************************************************************************)
EXTENDS LiveFeed, LoopTheorems, SequenceTheorems, FiniteSetTheorems

--------------------------------------------------------------------------------
(* LivePipeline.                                                           *)

\* The process starts in a state of the invariant.
LEMMA FlowInit == Init => FlowInvariant
<1> SUFFICES ASSUME Init PROVE FlowInvariant
  OBVIOUS
<1>1. /\ running = TRUE /\ stopped = FALSE /\ wpc = "top"
      /\ queue = <<>> /\ delivered = <<>>
  BY DEF Init, Client!Init, FIFO!Init
<1>2. TypeOK
  <2>1. snapshot \in Figures
    BY DEF Init, Figures
  <2>2. stats \in [processed : Nat, received : Nat]
    BY DEF Init
  <2>3. inFlight \in SUBSET Messages /\ recent \in Seq(Nat)
    BY DEF Init
  <2>4. wpc \in Client!Places /\ queue \in Seq(Messages) /\ delivered \in Seq(Messages)
    BY <1>1 DEF Client!Places
  <2>5. recorded \in Seq(Messages)
    BY DEF Init
  <2> QED BY <1>1, <2>1, <2>2, <2>3, <2>4, <2>5 DEF Init, TypeOK
<1>3. MessagesAccounted /\ DrainFollowsStop /\ FiguresLag
  BY <1>1 DEF Init, MessagesAccounted, DrainFollowsStop, FiguresLag, Pushes
<1>4. AcceptedBeforeStopAreProcessed /\ AtMostOneLeftBehind /\ StatsNeverAhead
  BY <1>1 DEF Init, AcceptedBeforeStopAreProcessed, AtMostOneLeftBehind, StatsNeverAhead
<1> QED BY <1>2, <1>3, <1>4 DEF FlowInvariant

\* The last element of a nonempty sequence is one of its elements.
LEMMA LastElement == ASSUME NEW S, NEW q \in Seq(S), q # <<>> PROVE q[Len(q)] \in S
<1>1. Len(q) \in Nat /\ Len(q) # 0
  BY EmptySeq
<1> QED BY <1>1

\* recent_signals_ stays a list of signals.
LEMMA RecentTyped == ASSUME recent \in Seq(Nat), fired \in Nat, NEW k \in Nat
                     PROVE  KeepRecent(k) \in Seq(Nat)
<1> DEFINE new == [i \in 1..k |-> fired + k + 1 - i]
           s == new \o recent
           n == IF Len(recent) + k < MaxRecent THEN Len(recent) + k ELSE MaxRecent
<1>1. new \in Seq(Nat) /\ Len(new) = k
  OBVIOUS
<1> HIDE DEF new
<1>2. s \in Seq(Nat) /\ Len(s) = Len(recent) + k /\ Len(recent) \in Nat
  BY <1>1
<1>3. n \in Int /\ n <= Len(s)
  BY <1>2, BoundsAssumption
<1>4. \A i \in 1..n : s[i] \in Nat
  BY <1>2, <1>3
<1> HIDE DEF s, n
<1>5. SubSeq(s, 1, n) \in Seq(Nat)
  BY <1>3, <1>4, SubSeqProperties
<1> QED BY <1>5 DEF s, n, new, KeepRecent

\* A step of the client outside on_message.  Once running is false, LoopCheck
\* closes the connection instead of starting a read.
LEMMA ClientKeeps ==
    ASSUME FlowInvariant, ClientStep
    PROVE  FlowInvariant'
<1> USE DEF ClientStep, Client!RunCheck, Client!ConnectFails, Client!Connect, Client!LoopCheck,
        Client!ReadFails, Client!Close, Client!Break, Client!Backoff, Client!Wake, Client!MayRun,
        clientVars, feedVars, queueVars, engineVars, statsVars, mainVars
<1>1. TypeOK'
  BY DEF FlowInvariant, TypeOK, Client!Places
<1>2. MessagesAccounted'
  BY DEF FlowInvariant, TypeOK, MessagesAccounted, Pushes
<1>3. DrainFollowsStop'
  BY DEF FlowInvariant, TypeOK, DrainFollowsStop, Pushes
<1>4. FiguresLag' /\ StatsNeverAhead'
  BY DEF FlowInvariant, TypeOK, FiguresLag, StatsNeverAhead, MessagesAccounted, Pushes
<1>5. AcceptedBeforeStopAreProcessed' /\ AtMostOneLeftBehind'
  BY DEF FlowInvariant, TypeOK, DrainFollowsStop, AcceptedBeforeStopAreProcessed,
         AtMostOneLeftBehind, Pushes
<1> QED BY <1>1, <1>2, <1>3, <1>4, <1>5 DEF FlowInvariant

\* on_message gives up a message and counts it.
LEMMA RejectKeeps ==
    ASSUME FlowInvariant, OnMessageInvalid \/ OnMessageDrop
    PROVE  FlowInvariant'
<1> USE DEF Client!Handled,
        clientVars, feedVars, queueVars, engineVars, statsVars, mainVars
<1>1. TypeOK'
  <2>1. CASE OnMessageInvalid
    BY <2>1 DEF OnMessageInvalid, FlowInvariant, TypeOK, Client!Places
  <2>2. CASE OnMessageDrop
    BY <2>2 DEF OnMessageDrop, FlowInvariant, TypeOK, Client!Places
  <2> QED BY <2>1, <2>2
<1>2. MessagesAccounted'
  <2>1. /\ received \in Nat /\ parseErrors \in Nat /\ queueFull \in Nat
        /\ Len(queue) \in Nat /\ Len(delivered) \in Nat
    BY DEF FlowInvariant, TypeOK
  <2>2. /\ inFlight # {} /\ inFlight' = {} /\ received' = received
        /\ queue' = queue /\ delivered' = delivered /\ processed' = processed
    BY DEF OnMessageInvalid, OnMessageDrop
  <2>3. \/ parseErrors' = parseErrors + 1 /\ queueFull' = queueFull
        \/ parseErrors' = parseErrors /\ queueFull' = queueFull + 1
    BY DEF OnMessageInvalid, OnMessageDrop
  <2> QED BY <2>1, <2>2, <2>3 DEF FlowInvariant, MessagesAccounted, Pushes
<1>3. DrainFollowsStop'
  <2>1. CASE OnMessageInvalid
    BY <2>1 DEF OnMessageInvalid, FlowInvariant, TypeOK, DrainFollowsStop, Pushes
  <2>2. CASE OnMessageDrop
    BY <2>2 DEF OnMessageDrop, FlowInvariant, TypeOK, DrainFollowsStop, Pushes
  <2> QED BY <2>1, <2>2
<1>4. FiguresLag' /\ StatsNeverAhead'
  <2>1. CASE OnMessageInvalid
    BY <2>1 DEF OnMessageInvalid, FlowInvariant, TypeOK, FiguresLag, StatsNeverAhead, MessagesAccounted, Pushes
  <2>2. CASE OnMessageDrop
    BY <2>2 DEF OnMessageDrop, FlowInvariant, TypeOK, FiguresLag, StatsNeverAhead, MessagesAccounted, Pushes
  <2> QED BY <2>1, <2>2
<1>5. AcceptedBeforeStopAreProcessed' /\ AtMostOneLeftBehind'
  <2>1. CASE OnMessageInvalid
    BY <2>1 DEF OnMessageInvalid, FlowInvariant, TypeOK, DrainFollowsStop, AcceptedBeforeStopAreProcessed,
         AtMostOneLeftBehind, Pushes
  <2>2. CASE OnMessageDrop
    BY <2>2 DEF OnMessageDrop, FlowInvariant, TypeOK, DrainFollowsStop, AcceptedBeforeStopAreProcessed,
         AtMostOneLeftBehind, Pushes
  <2> QED BY <2>1, <2>2
<1> QED BY <1>1, <1>2, <1>3, <1>4, <1>5 DEF FlowInvariant

\* A step of the processing thread that neither pops nor publishes.
LEMMA EngineKeeps ==
    ASSUME FlowInvariant, ProcCheck \/ ProcEmpty \/ ProcTrade \/ ProcRecord \/ ProcApply
    PROVE  FlowInvariant'
<1> USE DEF clientVars, feedVars, queueVars, engineVars, statsVars, mainVars
<1>1. TypeOK'
  <2>1. CASE ProcCheck
    BY <2>1 DEF ProcCheck, FlowInvariant, TypeOK, Client!Places
  <2>2. CASE ProcEmpty
    BY <2>2 DEF ProcEmpty, FlowInvariant, TypeOK, Client!Places
  <2>3. CASE ProcTrade
    BY <2>3 DEF ProcTrade, FlowInvariant, TypeOK, Client!Places
  <2>4. CASE ProcRecord
    <3>1. current \in Messages
      BY <2>4, LastElement DEF ProcRecord, FlowInvariant, TypeOK, current
    <3>2. recorded' \in Seq(Messages) /\ diskErrors' \in Nat
      <4>1. recorded \in Seq(Messages) /\ diskErrors \in Nat
        BY DEF FlowInvariant, TypeOK
      <4>2. Append(recorded, current) \in Seq(Messages)
        BY <3>1, <4>1
      <4>3. /\ recorded' \in {recorded, Append(recorded, current)}
            /\ diskErrors' \in {diskErrors, diskErrors + 1}
        BY <2>4 DEF ProcRecord
      <4> QED BY <4>1, <4>2, <4>3
    <3> QED BY <2>4, <3>2 DEF ProcRecord, FlowInvariant, TypeOK, Client!Places
  <2>5. CASE ProcApply
    <3>1. PICK k \in 0..NumConditions : fired' = fired + k /\ recent' = KeepRecent(k)
      BY <2>5 DEF ProcApply
    <3>2. k \in Nat
      BY BoundsAssumption
    <3>3. KeepRecent(k) \in Seq(Nat)
      BY <3>2, RecentTyped DEF FlowInvariant, TypeOK
    <3>4. recent' \in Seq(Nat) /\ fired' \in Nat
      BY <3>1, <3>2, <3>3 DEF FlowInvariant, TypeOK
    <3> QED BY <2>5, <3>4 DEF ProcApply, FlowInvariant, TypeOK, Client!Places
  <2> QED BY <2>1, <2>2, <2>3, <2>4, <2>5
<1>2. MessagesAccounted'
  <2>1. CASE ProcCheck
    BY <2>1 DEF ProcCheck, FlowInvariant, TypeOK, MessagesAccounted, Pushes
  <2>2. CASE ProcEmpty
    BY <2>2 DEF ProcEmpty, FlowInvariant, TypeOK, MessagesAccounted, Pushes
  <2>3. CASE ProcTrade
    BY <2>3 DEF ProcTrade, FlowInvariant, TypeOK, MessagesAccounted, Pushes
  <2>4. CASE ProcRecord
    BY <2>4 DEF ProcRecord, FlowInvariant, TypeOK, MessagesAccounted, Pushes
  <2>5. CASE ProcApply
    BY <2>5 DEF ProcApply, FlowInvariant, TypeOK, MessagesAccounted, Pushes
  <2> QED BY <2>1, <2>2, <2>3, <2>4, <2>5
<1>3. DrainFollowsStop'
  <2>1. CASE ProcCheck
    BY <2>1 DEF ProcCheck, FlowInvariant, TypeOK, DrainFollowsStop, Pushes
  <2>2. CASE ProcEmpty
    BY <2>2 DEF ProcEmpty, FlowInvariant, TypeOK, DrainFollowsStop, Pushes
  <2>3. CASE ProcTrade
    BY <2>3 DEF ProcTrade, FlowInvariant, TypeOK, DrainFollowsStop, Pushes
  <2>4. CASE ProcRecord
    BY <2>4 DEF ProcRecord, FlowInvariant, TypeOK, DrainFollowsStop, Pushes
  <2>5. CASE ProcApply
    BY <2>5 DEF ProcApply, FlowInvariant, TypeOK, DrainFollowsStop, Pushes
  <2> QED BY <2>1, <2>2, <2>3, <2>4, <2>5
<1>4. FiguresLag' /\ StatsNeverAhead'
  <2>1. CASE ProcCheck
    BY <2>1 DEF ProcCheck, FlowInvariant, TypeOK, FiguresLag, StatsNeverAhead, MessagesAccounted, Pushes
  <2>2. CASE ProcEmpty
    BY <2>2 DEF ProcEmpty, FlowInvariant, TypeOK, FiguresLag, StatsNeverAhead, MessagesAccounted, Pushes
  <2>3. CASE ProcTrade
    BY <2>3 DEF ProcTrade, FlowInvariant, TypeOK, FiguresLag, StatsNeverAhead, MessagesAccounted, Pushes
  <2>4. CASE ProcRecord
    BY <2>4 DEF ProcRecord, FlowInvariant, TypeOK, FiguresLag, StatsNeverAhead, MessagesAccounted, Pushes
  <2>5. CASE ProcApply
    BY <2>5 DEF ProcApply, FlowInvariant, TypeOK, FiguresLag, StatsNeverAhead, MessagesAccounted, Pushes
  <2> QED BY <2>1, <2>2, <2>3, <2>4, <2>5
<1>5. AcceptedBeforeStopAreProcessed' /\ AtMostOneLeftBehind'
  <2>1. CASE ProcCheck
    BY <2>1 DEF ProcCheck, FlowInvariant, TypeOK, DrainFollowsStop, AcceptedBeforeStopAreProcessed,
         AtMostOneLeftBehind, Pushes
  <2>2. CASE ProcEmpty
    BY <2>2 DEF ProcEmpty, FlowInvariant, TypeOK, DrainFollowsStop, AcceptedBeforeStopAreProcessed,
         AtMostOneLeftBehind, Pushes
  <2>3. CASE ProcTrade
    BY <2>3 DEF ProcTrade, FlowInvariant, TypeOK, DrainFollowsStop, AcceptedBeforeStopAreProcessed,
         AtMostOneLeftBehind, Pushes
  <2>4. CASE ProcRecord
    BY <2>4 DEF ProcRecord, FlowInvariant, TypeOK, DrainFollowsStop, AcceptedBeforeStopAreProcessed,
         AtMostOneLeftBehind, Pushes
  <2>5. CASE ProcApply
    BY <2>5 DEF ProcApply, FlowInvariant, TypeOK, DrainFollowsStop, AcceptedBeforeStopAreProcessed,
         AtMostOneLeftBehind, Pushes
  <2> QED BY <2>1, <2>2, <2>3, <2>4, <2>5
<1> QED BY <1>1, <1>2, <1>3, <1>4, <1>5 DEF FlowInvariant

\* A step of the main thread.
LEMMA MainKeeps ==
    ASSUME FlowInvariant, Main
    PROVE  FlowInvariant'
<1> USE DEF Client!Stop,
        clientVars, feedVars, queueVars, engineVars, statsVars, mainVars
<1>1. TypeOK'
  <2>1. CASE MainLeave
    BY <2>1 DEF MainLeave, FlowInvariant, TypeOK, Client!Places
  <2>2. CASE MainStopServers
    BY <2>2 DEF MainStopServers, FlowInvariant, TypeOK, Client!Places
  <2>3. CASE MainStopFeed
    BY <2>3 DEF MainStopFeed, FlowInvariant, TypeOK, Client!Places
  <2>4. CASE MainJoinFeed
    BY <2>4 DEF MainJoinFeed, FlowInvariant, TypeOK, Client!Places
  <2>5. CASE MainJoinProcessor
    BY <2>5 DEF MainJoinProcessor, FlowInvariant, TypeOK, Client!Places
  <2>6. CASE MainClose
    BY <2>6 DEF MainClose, FlowInvariant, TypeOK, Client!Places
  <2>7. CASE MainJoinServers
    BY <2>7 DEF MainJoinServers, FlowInvariant, TypeOK, Client!Places
  <2> QED BY <2>1, <2>2, <2>3, <2>4, <2>5, <2>6, <2>7 DEF Main
<1>2. MessagesAccounted'
  BY DEF Main, MainLeave, MainStopServers, MainJoinServers, MainStopFeed, MainJoinFeed, MainJoinProcessor,
         MainClose, FlowInvariant, TypeOK, MessagesAccounted, Pushes
<1>3. DrainFollowsStop'
  <2>1. CASE MainLeave
    BY <2>1 DEF MainLeave, FlowInvariant, TypeOK, DrainFollowsStop, Pushes
  <2>2. CASE MainStopServers
    BY <2>2 DEF MainStopServers, FlowInvariant, TypeOK, DrainFollowsStop, Pushes
  <2>3. CASE MainStopFeed
    BY <2>3 DEF MainStopFeed, FlowInvariant, TypeOK, DrainFollowsStop, Pushes
  <2>4. CASE MainJoinFeed
    BY <2>4 DEF MainJoinFeed, FlowInvariant, TypeOK, DrainFollowsStop, Pushes
  <2>5. CASE MainJoinProcessor
    BY <2>5 DEF MainJoinProcessor, FlowInvariant, TypeOK, DrainFollowsStop, Pushes
  <2>6. CASE MainClose
    BY <2>6 DEF MainClose, FlowInvariant, TypeOK, DrainFollowsStop, Pushes
  <2>7. CASE MainJoinServers
    BY <2>7 DEF MainJoinServers, FlowInvariant, TypeOK, DrainFollowsStop, Pushes
  <2> QED BY <2>1, <2>2, <2>3, <2>4, <2>5, <2>6, <2>7 DEF Main
<1>4. FiguresLag' /\ StatsNeverAhead'
  BY DEF Main, MainLeave, MainStopServers, MainJoinServers, MainStopFeed, MainJoinFeed, MainJoinProcessor,
         MainClose, FlowInvariant, TypeOK, FiguresLag, StatsNeverAhead, MessagesAccounted, Pushes
<1>5. AcceptedBeforeStopAreProcessed' /\ AtMostOneLeftBehind'
  BY DEF Main, MainLeave, MainStopServers, MainJoinServers, MainStopFeed, MainJoinFeed, MainJoinProcessor,
         MainClose, FlowInvariant, TypeOK, DrainFollowsStop, AcceptedBeforeStopAreProcessed,
         AtMostOneLeftBehind, Pushes
<1> QED BY <1>1, <1>2, <1>3, <1>4, <1>5 DEF FlowInvariant

\* The signal handler stores false and thereby fixes cutoff.
LEMMA SignalKeeps ==
    ASSUME FlowInvariant, SignalHandler
    PROVE  FlowInvariant'
<1>1. running' = FALSE /\ cutoff' = IF running THEN Pushes ELSE cutoff
  BY DEF SignalHandler, Client!Signal
<1>2. UNCHANGED <<stopped, wpc, feedVars, queueVars, engineVars, statsVars, mpc, recorder>>
  BY DEF SignalHandler, Client!Signal
<1>3. Len(queue) \in Nat /\ Len(delivered) \in Nat /\ cutoff \in Nat
  BY DEF FlowInvariant, TypeOK
<1>4. cutoff' \in Nat /\ (running \/ cutoff' = cutoff) /\ cutoff' <= Pushes
  BY <1>1, <1>3 DEF Pushes, FlowInvariant, DrainFollowsStop
<1> USE DEF feedVars, queueVars, engineVars, statsVars
<1>5. TypeOK'
  <2>1. running' \in BOOLEAN
    BY <1>1, Zenon
  <2> QED BY <2>1, <1>2, <1>4 DEF FlowInvariant, TypeOK
<1>6. MessagesAccounted' /\ FiguresLag' /\ StatsNeverAhead' /\ AtMostOneLeftBehind'
  BY <1>2 DEF FlowInvariant, MessagesAccounted, FiguresLag, StatsNeverAhead,
              AtMostOneLeftBehind, Pushes
<1>7. DrainFollowsStop'
  BY <1>1, <1>2, <1>4 DEF FlowInvariant, DrainFollowsStop, Pushes
<1>8. AcceptedBeforeStopAreProcessed'
  BY <1>2, <1>4 DEF FlowInvariant, DrainFollowsStop, AcceptedBeforeStopAreProcessed
<1> QED BY <1>5, <1>6, <1>7, <1>8 DEF FlowInvariant

\* Nothing happens.
LEMMA StutterKeeps ==
    ASSUME FlowInvariant, UNCHANGED vars
    PROVE  FlowInvariant'
<1> USE DEF vars,
        clientVars, feedVars, queueVars, engineVars, statsVars, mainVars
<1>1. TypeOK'
  BY DEF FlowInvariant, TypeOK, Client!Places
<1>2. MessagesAccounted'
  BY DEF FlowInvariant, TypeOK, MessagesAccounted, Pushes
<1>3. DrainFollowsStop'
  BY DEF FlowInvariant, TypeOK, DrainFollowsStop, Pushes
<1>4. FiguresLag' /\ StatsNeverAhead'
  BY DEF FlowInvariant, TypeOK, FiguresLag, StatsNeverAhead, MessagesAccounted, Pushes
<1>5. AcceptedBeforeStopAreProcessed' /\ AtMostOneLeftBehind'
  BY DEF FlowInvariant, TypeOK, DrainFollowsStop, AcceptedBeforeStopAreProcessed,
         AtMostOneLeftBehind, Pushes
<1> QED BY <1>1, <1>2, <1>3, <1>4, <1>5 DEF FlowInvariant

\* ws.read returns a message, which on_message counts before anything else.
LEMMA ReceiveKeeps ==
    ASSUME FlowInvariant, NEW kind \in Kinds, OnMessage(kind)
    PROVE  FlowInvariant'
<1> USE DEF OnMessage, Client!Read,
        clientVars, feedVars, queueVars, engineVars, statsVars, mainVars
<1>1. TypeOK'
  <2>1. received' \in Nat /\ inFlight' \in SUBSET Messages /\ inFlight' # {}
    BY DEF FlowInvariant, TypeOK, Messages
  <2> QED BY <2>1 DEF FlowInvariant, TypeOK, Client!Places
<1>2. MessagesAccounted'
  <2>1. inFlight = {} /\ inFlight' # {} /\ received' = received + 1
    BY DEF FlowInvariant, TypeOK
  <2> QED BY <2>1 DEF FlowInvariant, TypeOK, MessagesAccounted, Pushes
<1>3. DrainFollowsStop'
  BY DEF FlowInvariant, TypeOK, DrainFollowsStop, Pushes
<1>4. FiguresLag' /\ StatsNeverAhead'
  BY DEF FlowInvariant, TypeOK, FiguresLag, StatsNeverAhead, Figures
<1>5. AcceptedBeforeStopAreProcessed' /\ AtMostOneLeftBehind'
  BY DEF FlowInvariant, AcceptedBeforeStopAreProcessed, AtMostOneLeftBehind
<1> QED BY <1>1, <1>2, <1>3, <1>4, <1>5 DEF FlowInvariant

\* on_message pushes the message.  After the processing thread has exited this
\* is the one message that stays behind: the queue was empty, and the thread is
\* back at a test of running that fails.
LEMMA PushKeeps ==
    ASSUME FlowInvariant, OnMessagePush
    PROVE  FlowInvariant'
<1> USE DEF OnMessagePush, Client!Handled, FIFO!Push,
        clientVars, feedVars, queueVars, engineVars, statsVars, mainVars
<1>1. PICK m \in inFlight : queue' = Append(queue, m)
  OBVIOUS
<1>2. /\ wpc = "handle" /\ wpc' = "loop" /\ inFlight # {} /\ inFlight' = {}
      /\ m \in Messages /\ queue \in Seq(Messages) /\ delivered \in Seq(Messages)
  BY DEF FlowInvariant, TypeOK
<1>3. /\ queue' \in Seq(Messages) /\ Len(queue') = Len(queue) + 1 /\ Len(queue) \in Nat
      /\ Len(delivered) \in Nat
      /\ UNCHANGED delivered
  BY <1>1, <1>2
<1>4. TypeOK'
  BY <1>2, <1>3 DEF FlowInvariant, TypeOK, Client!Places
<1>5. MessagesAccounted'
  BY <1>2, <1>3 DEF FlowInvariant, TypeOK, MessagesAccounted, Pushes
<1>6. DrainFollowsStop'
  BY <1>2, <1>3 DEF FlowInvariant, TypeOK, DrainFollowsStop, Pushes
<1>7. FiguresLag' /\ StatsNeverAhead'
  BY DEF FlowInvariant, FiguresLag, StatsNeverAhead
<1>8. AcceptedBeforeStopAreProcessed'
  BY DEF FlowInvariant, AcceptedBeforeStopAreProcessed
<1>9. AtMostOneLeftBehind'
  <2>1. ppc = "exited" => queue = <<>>
    BY <1>2 DEF FlowInvariant, DrainFollowsStop
  <2>2. ppc = "exited" => Len(queue) = 0
    BY <2>1
  <2> QED BY <1>3, <2>2 DEF AtMostOneLeftBehind
<1> QED BY <1>4, <1>5, <1>6, <1>7, <1>8, <1>9 DEF FlowInvariant

\* The processing thread pops a message and counts it.
LEMMA PopKeeps ==
    ASSUME FlowInvariant, ProcPop
    PROVE  FlowInvariant'
<1> USE DEF ProcPop, FIFO!Pop,
        clientVars, feedVars, queueVars, engineVars, statsVars, mainVars
<1>1. /\ queue \in Seq(Messages) /\ delivered \in Seq(Messages) /\ queue # <<>>
      /\ ppc = "pop" /\ processed' = processed + 1
      /\ queue' = Tail(queue) /\ delivered' = Append(delivered, Head(queue))
  BY DEF FlowInvariant, TypeOK
<1>2. /\ Head(queue) \in Messages /\ queue' \in Seq(Messages)
      /\ Len(queue') = Len(queue) - 1 /\ Len(queue) \in Nat
  BY <1>1, HeadTailProperties
<1>3. /\ delivered' \in Seq(Messages) /\ Len(delivered') = Len(delivered) + 1
      /\ delivered' # <<>> /\ Len(delivered) \in Nat
  BY <1>1, <1>2, AppendProperties
<1>4. ppc' \in {"depth", "trade"}
  BY <1>2 DEF Messages, Kinds
<1>5. TypeOK'
  BY <1>1, <1>2, <1>3, <1>4 DEF FlowInvariant, TypeOK, Client!Places
<1>6. MessagesAccounted'
  <2>1. received \in Nat /\ parseErrors \in Nat /\ queueFull \in Nat
    BY DEF FlowInvariant, TypeOK
  <2>2. /\ received' = received /\ parseErrors' = parseErrors /\ queueFull' = queueFull
        /\ inFlight' = inFlight
    OBVIOUS
  <2>3. Len(delivered') + Len(queue') = Len(delivered) + Len(queue)
    BY <1>2, <1>3
  <2> QED BY <1>1, <1>3, <2>1, <2>2, <2>3 DEF FlowInvariant, MessagesAccounted, Pushes
<1>7. DrainFollowsStop'
  BY <1>1, <1>2, <1>3, <1>4 DEF FlowInvariant, TypeOK, DrainFollowsStop, Pushes
<1>8. FiguresLag' /\ StatsNeverAhead'
  BY <1>1 DEF FlowInvariant, TypeOK, Figures, FiguresLag, StatsNeverAhead
<1>9. AcceptedBeforeStopAreProcessed' /\ AtMostOneLeftBehind'
  BY <1>4 DEF AcceptedBeforeStopAreProcessed, AtMostOneLeftBehind
<1> QED BY <1>5, <1>6, <1>7, <1>8, <1>9 DEF FlowInvariant

\* update_snapshot publishes figures of the present.
LEMMA PublishKeeps ==
    ASSUME FlowInvariant, ProcPublish
    PROVE  FlowInvariant'
<1> USE DEF ProcPublish, clientVars, feedVars, queueVars, engineVars, statsVars, mainVars
<1>1. snapshot' \in Figures /\ snapshot'.processed = processed
  BY DEF FlowInvariant, TypeOK, EngineFigures, Figures
<1>2. TypeOK'
  BY <1>1 DEF FlowInvariant, TypeOK, Client!Places
<1>3. MessagesAccounted' /\ DrainFollowsStop'
  BY DEF FlowInvariant, TypeOK, MessagesAccounted, DrainFollowsStop, Pushes
<1>4. FiguresLag' /\ StatsNeverAhead'
  BY <1>1 DEF FlowInvariant, TypeOK, FiguresLag, StatsNeverAhead
<1>5. AcceptedBeforeStopAreProcessed' /\ AtMostOneLeftBehind'
  BY DEF FlowInvariant, AcceptedBeforeStopAreProcessed, AtMostOneLeftBehind
<1> QED BY <1>2, <1>3, <1>4, <1>5 DEF FlowInvariant

\* build_stats_json reads the snapshot, which is behind the messages received,
\* and later the count of those, which has only grown.
LEMMA StatsKeep ==
    ASSUME FlowInvariant, StatsStep
    PROVE  FlowInvariant'
<1> USE DEF StatsStep, StatsSnapshot, StatsFeed,
        clientVars, feedVars, queueVars, engineVars, statsVars, mainVars
<1>0. /\ stats \in [processed : Nat, received : Nat] /\ snapshot \in Figures
      /\ received \in Nat /\ snapshot.processed \in Nat /\ processed \in Nat
  BY DEF FlowInvariant, TypeOK, Figures
<1>1. stats' \in [processed : Nat, received : Nat] /\ spc' \in {"idle", "feed"}
  BY <1>0
<1>2. TypeOK'
  BY <1>1 DEF FlowInvariant, TypeOK, Client!Places
<1>3. MessagesAccounted' /\ DrainFollowsStop'
  BY DEF FlowInvariant, MessagesAccounted, DrainFollowsStop, Pushes
<1>4. snapshot.processed <= received
  <2>1. snapshot.processed <= processed
    BY DEF FlowInvariant, FiguresLag
  <2>2. processed <= received
    <3>1. /\ parseErrors \in Nat /\ queueFull \in Nat
          /\ Len(queue) \in Nat /\ Len(delivered) \in Nat
      BY DEF FlowInvariant, TypeOK
    <3> QED BY <1>0, <3>1 DEF FlowInvariant, MessagesAccounted, Pushes
  <2> QED BY <1>0, <2>1, <2>2
<1>5. FiguresLag' /\ StatsNeverAhead'
  <2>1. CASE StatsSnapshot
    BY <1>0, <1>4, <2>1 DEF FlowInvariant, FiguresLag, StatsNeverAhead
  <2>2. CASE StatsFeed
    BY <1>0, <2>2 DEF FlowInvariant, FiguresLag, StatsNeverAhead
  <2> QED BY <2>1, <2>2
<1>6. AcceptedBeforeStopAreProcessed' /\ AtMostOneLeftBehind'
  BY DEF FlowInvariant, AcceptedBeforeStopAreProcessed, AtMostOneLeftBehind
<1> QED BY <1>2, <1>3, <1>5, <1>6 DEF FlowInvariant

--------------------------------------------------------------------------------
(* The processing thread's data.                                           *)

\* Pushing k signals in front of the last ones and cutting the list leaves the
\* last ones.
LEMMA RecentAreLast ==
    ASSUME recent \in Seq(Nat), fired \in Nat, NEW k \in Nat, LastSignals(recent, fired)
    PROVE  LastSignals(KeepRecent(k), fired + k)
<1> DEFINE new == [i \in 1..k |-> fired + k + 1 - i]
           s == new \o recent
           n == IF Len(recent) + k < MaxRecent THEN Len(recent) + k ELSE MaxRecent
<1>1. new \in Seq(Nat) /\ Len(new) = k /\ \A i \in 1..k : new[i] = fired + k + 1 - i
  OBVIOUS
<1>2. /\ Len(recent) \in Nat /\ MaxRecent \in Nat \ {0}
      /\ Len(recent) = IF fired < MaxRecent THEN fired ELSE MaxRecent
      /\ \A i \in 1..Len(recent) : recent[i] = fired + 1 - i
  BY BoundsAssumption DEF LastSignals
<1> HIDE DEF new
<1>3. /\ s \in Seq(Nat) /\ Len(s) = k + Len(recent)
      /\ \A i \in 1..Len(s) : s[i] = IF i <= k THEN new[i] ELSE recent[i - k]
  <2>1. /\ s \in Seq(Nat)
        /\ Len(s) = Len(new) + Len(recent)
        /\ \A i \in 1..(Len(new) + Len(recent)) :
              s[i] = IF i <= Len(new) THEN new[i] ELSE recent[i - Len(new)]
    BY <1>1, ConcatProperties
  <2> HIDE DEF s
  <2> QED BY <1>1, <2>1
<1>4. \A i \in 1..Len(s) : s[i] = fired + k + 1 - i
  <2> SUFFICES ASSUME NEW i \in 1..Len(s) PROVE s[i] = fired + k + 1 - i
    OBVIOUS
  <2>1. CASE i <= k
    BY <1>1, <1>2, <1>3, <2>1
  <2>2. CASE ~(i <= k)
    <3>1. i - k \in 1..Len(recent)
      BY <1>2, <1>3, <2>2
    <3>2. s[i] = recent[i - k]
      BY <1>3, <2>2
    <3>3. recent[i - k] = fired + 1 - (i - k)
      BY <1>2, <3>1
    <3> QED BY <1>2, <1>3, <3>1, <3>2, <3>3
  <2> QED BY <2>1, <2>2
<1>5. n \in Nat /\ n <= Len(s) /\ n = IF fired + k < MaxRecent THEN fired + k ELSE MaxRecent
  BY <1>2, <1>3
<1> HIDE DEF s, n
<1>6. /\ Len(SubSeq(s, 1, n)) = n
      /\ \A i \in 1..n : SubSeq(s, 1, n)[i] = s[i]
  <2>1. \A i \in 1..n : s[i] \in Nat
    BY <1>3, <1>5
  <2>2. Len(SubSeq(s, 1, n)) = n
    BY <1>5, <2>1, SubSeqProperties
  <2>3. \A i \in 1..n : SubSeq(s, 1, n)[i] = s[i]
    BY <1>3, <1>5, <2>1, SubSeqProperties
  <2> QED BY <2>2, <2>3
<1>7. \A i \in 1..n : SubSeq(s, 1, n)[i] = fired + k + 1 - i
  BY <1>3, <1>4, <1>5, <1>6
<1> QED BY <1>5, <1>6, <1>7 DEF s, n, new, KeepRecent, LastSignals

\* What was recorded so far stays recorded when something more is delivered.
LEMMA PlacesKept ==
    ASSUME delivered \in Seq(Messages), recorded \in Seq(Messages), recorded' = recorded,
           NEW m \in Messages, delivered' = Append(delivered, m),
           NEW P \in SUBSET (1..Len(delivered)), RecordedFrom(P)
    PROVE  RecordedFrom(P)'
<1>1. PICK f \in [1..Len(recorded) -> P] :
        /\ \A i, j \in 1..Len(recorded) : i < j => f[i] < f[j]
        /\ \A i \in 1..Len(recorded) : recorded[i] = delivered[f[i]]
        /\ \A p \in P : \E i \in 1..Len(recorded) : f[i] = p
  BY DEF RecordedFrom
<1>2. \A i \in 1..Len(recorded) : delivered'[f[i]] = delivered[f[i]]
  <2> SUFFICES ASSUME NEW i \in 1..Len(recorded) PROVE delivered'[f[i]] = delivered[f[i]]
    OBVIOUS
  <2>1. f[i] \in 1..Len(delivered)
    BY <1>1
  <2> QED BY <2>1, AppendProperties
<1> SUFFICES \E h \in [1..Len(recorded') -> P] :
        /\ \A i, j \in 1..Len(recorded') : i < j => h[i] < h[j]
        /\ \A i \in 1..Len(recorded') : recorded'[i] = delivered'[h[i]]
        /\ \A p \in P : \E i \in 1..Len(recorded') : h[i] = p
  BY DEF RecordedFrom
<1>3. /\ f \in [1..Len(recorded') -> P]
      /\ \A i, j \in 1..Len(recorded') : i < j => f[i] < f[j]
      /\ \A p \in P : \E i \in 1..Len(recorded') : f[i] = p
  BY <1>1
<1>4. \A i \in 1..Len(recorded') : recorded'[i] = delivered'[f[i]]
  BY <1>1, <1>2
<1> QED BY <1>3, <1>4, Zenon

\* Recording what is at a later place than all before adds that place.
LEMMA PlaceAdded ==
    ASSUME recorded \in Seq(Messages), delivered \in Seq(Messages), delivered' = delivered,
           NEW P \in SUBSET Nat, NEW q \in Nat, \A p \in P : p < q,
           delivered[q] \in Messages, recorded' = Append(recorded, delivered[q]),
           RecordedFrom(P)
    PROVE  RecordedFrom(P \cup {q})'
<1> DEFINE n == Len(recorded)
<1>1. PICK f \in [1..n -> P] :
        /\ \A i, j \in 1..n : i < j => f[i] < f[j]
        /\ \A i \in 1..n : recorded[i] = delivered[f[i]]
        /\ \A p \in P : \E i \in 1..n : f[i] = p
  BY DEF RecordedFrom
<1>2. /\ n \in Nat /\ Len(recorded') = n + 1
      /\ \A i \in 1..n : recorded'[i] = recorded[i]
      /\ recorded'[n + 1] = delivered[q]
  BY AppendProperties
<1> DEFINE g == [i \in 1..(n + 1) |-> IF i = n + 1 THEN q ELSE f[i]]
<1> HIDE DEF n
<1>3. /\ g \in [1..(n + 1) -> P \cup {q}] /\ g[n + 1] = q
      /\ \A i \in 1..n : g[i] = f[i]
  BY <1>1, <1>2
<1> HIDE DEF g
<1>4. ASSUME NEW i \in 1..(n + 1), NEW j \in 1..(n + 1), i < j PROVE g[i] < g[j]
  <2>1. i \in 1..n
    BY <1>2, <1>4
  <2>2. CASE j = n + 1
    BY <1>1, <1>3, <2>1, <2>2
  <2>3. CASE j # n + 1
    <3>1. j \in 1..n
      BY <1>2, <2>3
    <3> QED BY <1>1, <1>3, <1>4, <2>1, <3>1
  <2> QED BY <2>2, <2>3
<1>5. ASSUME NEW i \in 1..(n + 1) PROVE recorded'[i] = delivered'[g[i]]
  <2>1. CASE i = n + 1
    BY <1>2, <1>3, <2>1
  <2>2. CASE i # n + 1
    <3>1. i \in 1..n
      BY <1>2, <2>2
    <3> QED BY <1>1, <1>2, <1>3, <3>1
  <2> QED BY <2>1, <2>2
<1>6. ASSUME NEW p \in P \cup {q} PROVE \E i \in 1..(n + 1) : g[i] = p
  <2>1. CASE p = q
    BY <1>2, <1>3, <2>1
  <2>2. CASE p # q
    <3>1. PICK i \in 1..n : f[i] = p
      BY <1>1, <2>2
    <3>2. i \in 1..(n + 1) /\ g[i] = p
      BY <1>2, <1>3, <3>1
    <3> QED BY <3>2
  <2> QED BY <2>1, <2>2
<1> SUFFICES \E h \in [1..Len(recorded') -> P \cup {q}] :
        /\ \A i, j \in 1..Len(recorded') : i < j => h[i] < h[j]
        /\ \A i \in 1..Len(recorded') : recorded'[i] = delivered'[h[i]]
        /\ \A p \in P \cup {q} : \E i \in 1..Len(recorded') : h[i] = p
  BY DEF RecordedFrom
<1>7. g \in [1..Len(recorded') -> P \cup {q}]
  BY <1>2, <1>3
<1>8. \A i, j \in 1..Len(recorded') : i < j => g[i] < g[j]
  BY <1>2, <1>4
<1>9. \A i \in 1..Len(recorded') : recorded'[i] = delivered'[g[i]]
  BY <1>2, <1>5
<1>10. \A p \in P \cup {q} : \E i \in 1..Len(recorded') : g[i] = p
  BY <1>2, <1>6
<1> QED BY <1>7, <1>8, <1>9, <1>10, Zenon

\* The engine starts with nothing counted, published or recorded.
LEMMA EngineInit == Init => EngineInvariant
<1> SUFFICES ASSUME Init PROVE EngineInvariant
  OBVIOUS
<1>1. delivered = <<>> /\ recorded = <<>> /\ ppc = "check" /\ mpc = "status" /\ recorder # "closed"
  BY DEF Init, FIFO!Init
<1>2. EngineConsistent /\ SnapshotConsistent
  BY BoundsAssumption DEF Init, EngineConsistent, SnapshotConsistent, LastSignals
<1>3. RecordedFrom(DepthPlaces)
  <2>1. DepthPlaces = {} /\ 1..Len(recorded) = {}
    BY <1>1 DEF DepthPlaces
  <2>2. [i \in 1..Len(recorded) |-> i] \in [1..Len(recorded) -> DepthPlaces]
    BY <2>1
  <2> QED BY <2>1, <2>2 DEF RecordedFrom
<1> QED BY <1>1, <1>2, <1>3 DEF EngineInvariant, RecordingFollows

\* Nobody but the processing thread and main touches the engine's data.
LEMMA OthersKeepEngine ==
    ASSUME EngineInvariant, UNCHANGED <<engineVars, delivered, recorder, mpc>>
    PROVE  EngineInvariant'
<1> USE DEF engineVars
<1>1. EngineConsistent' /\ SnapshotConsistent'
  BY DEF EngineInvariant, EngineConsistent, SnapshotConsistent, LastSignals
<1>2. RecordingFollows'
  BY DEF EngineInvariant, RecordingFollows, RecordedFrom, DepthPlaces, current
<1> QED BY <1>1, <1>2 DEF EngineInvariant

\* main closes the recorder only after it has joined the processing thread.
LEMMA MainKeepsEngine ==
    ASSUME EngineInvariant, Main
    PROVE  EngineInvariant'
<1> USE DEF clientVars, feedVars, queueVars, engineVars, statsVars, mainVars
<1>1. UNCHANGED <<engineVars, delivered>>
  BY DEF Main, MainLeave, MainStopServers, MainJoinServers, MainStopFeed, MainJoinFeed,
         MainJoinProcessor, MainClose
<1>2. /\ mpc' \in {"close", "done"} => ppc = "exited"
      /\ recorder' = "closed" => mpc' = "done"
      /\ recorder' # "none" => recorder # "none"
  BY DEF Main, MainLeave, MainStopServers, MainJoinServers, MainStopFeed, MainJoinFeed,
         MainJoinProcessor, MainClose, EngineInvariant, RecordingFollows
<1>3. EngineConsistent' /\ SnapshotConsistent'
  BY <1>1 DEF EngineInvariant, EngineConsistent, SnapshotConsistent, LastSignals
<1>4. RecordingFollows'
  BY <1>1, <1>2 DEF EngineInvariant, RecordingFollows, RecordedFrom, DepthPlaces, current
<1> QED BY <1>3, <1>4 DEF EngineInvariant

\* process() has taken a message: the engine is ahead of its parts by it, and the
\* recording lacks it.
LEMMA PopKeepsEngine ==
    ASSUME FlowInvariant, EngineInvariant, ProcPop
    PROVE  EngineInvariant'
<1> USE DEF ProcPop, FIFO!Pop, clientVars, feedVars, statsVars, mainVars
<1> DEFINE m == Head(queue)
<1>1. /\ queue \in Seq(Messages) /\ delivered \in Seq(Messages) /\ queue # <<>>
      /\ recorded \in Seq(Messages)
      /\ processed \in Nat /\ tradesProcessed \in Nat /\ depthApplied \in Nat
  BY DEF FlowInvariant, TypeOK
<1>2. m \in Messages /\ m.kind \in Kinds
  <2>1. m \in Messages
    BY <1>1, HeadTailProperties
  <2> QED BY <2>1 DEF Messages
<1>3. /\ delivered' = Append(delivered, m) /\ ppc = "pop" /\ ppc' = m.kind
      /\ processed' = processed + 1
      /\ UNCHANGED <<tradesProcessed, depthApplied, fired, recent, snapshot, recorded, diskErrors,
                     recorder, mpc>>
  OBVIOUS
<1> HIDE DEF m, ProcPop, FIFO!Pop
<1>4. /\ Len(delivered) \in Nat /\ Len(delivered') = Len(delivered) + 1
      /\ \A i \in 1..Len(delivered) : delivered'[i] = delivered[i]
      /\ delivered'[Len(delivered) + 1] = m
  BY <1>1, <1>2, <1>3, AppendProperties
<1>5. EngineConsistent'
  <2>1. ppc' \in {"depth", "apply", "trade"}
    BY <1>2, <1>3 DEF Kinds
  <2>2. processed = tradesProcessed + depthApplied
    BY <1>1, <1>3 DEF EngineInvariant, EngineConsistent
  <2>3. LastSignals(recent, fired)'
    BY <1>3 DEF EngineInvariant, EngineConsistent, LastSignals
  <2> QED BY <1>1, <1>3, <2>1, <2>2, <2>3 DEF EngineConsistent
<1>6. SnapshotConsistent'
  BY <1>3 DEF EngineInvariant, SnapshotConsistent, LastSignals
<1>7. RecordingFollows'
  <2>1. (ppc = "depth" => current.kind = "depth")'
    BY <1>3, <1>4 DEF current
  <2>2. (mpc \in {"close", "done"} => ppc = "exited")' /\ (recorder = "closed" => mpc = "done")'
    BY <1>3 DEF EngineInvariant, RecordingFollows
  <2>3. ASSUME recorder' # "none", diskErrors' = 0
        PROVE  (RecordedFrom(IF ppc = "depth" THEN DepthPlaces \ {Len(delivered)}
                                              ELSE DepthPlaces))'
    <3>1. RecordedFrom(DepthPlaces)
      BY <1>3, <2>3 DEF EngineInvariant, RecordingFollows
    <3> DEFINE P == DepthPlaces
    <3>2. P \in SUBSET (1..Len(delivered))
      BY DEF DepthPlaces
    <3>3. P = (IF ppc = "depth" THEN DepthPlaces \ {Len(delivered)} ELSE DepthPlaces)'
      <4>1. CASE m.kind = "depth"
        BY <1>3, <1>4, <4>1 DEF DepthPlaces
      <4>2. CASE m.kind # "depth"
        BY <1>3, <1>4, <4>2 DEF DepthPlaces
      <4> QED BY <4>1, <4>2
    <3>4. ASSUME NEW Q \in SUBSET (1..Len(delivered)), RecordedFrom(Q) PROVE RecordedFrom(Q)'
      BY <1>1, <1>2, <1>3, <3>4, PlacesKept
    <3> QED BY <3>1, <3>2, <3>3, <3>4
  <2> QED BY <2>1, <2>2, <2>3 DEF RecordingFollows
<1> QED BY <1>5, <1>6, <1>7 DEF EngineInvariant

\* process_depth hands the update to the recorder, which is open as long as the
\* processing thread runs.
LEMMA RecordKeepsEngine ==
    ASSUME FlowInvariant, EngineInvariant, ProcRecord
    PROVE  EngineInvariant'
<1> USE DEF ProcRecord, clientVars, feedVars, queueVars, statsVars, mainVars
<1>1. /\ delivered \in Seq(Messages) /\ recorded \in Seq(Messages) /\ delivered # <<>>
      /\ diskErrors \in Nat /\ recorder \in {"none", "open", "closed"}
  BY DEF FlowInvariant, TypeOK
<1>2. ppc = "depth" /\ current.kind = "depth" /\ mpc \notin {"close", "done"} /\ recorder # "closed"
  BY DEF EngineInvariant, RecordingFollows
<1>3. /\ ppc' = "apply" /\ delivered' = delivered
      /\ UNCHANGED <<processed, tradesProcessed, depthApplied, fired, recent, snapshot, recorder, mpc>>
  OBVIOUS
<1>4. EngineConsistent' /\ SnapshotConsistent'
  BY <1>2, <1>3 DEF EngineInvariant, EngineConsistent, SnapshotConsistent, LastSignals
<1>5. ASSUME recorder' # "none", diskErrors' = 0
      PROVE  RecordedFrom(DepthPlaces)'
  <2>1. recorder = "open" /\ diskErrors = 0 /\ recorded' = Append(recorded, current)
    BY <1>1, <1>2, <1>3, <1>5
  <2> DEFINE P == DepthPlaces \ {Len(delivered)}
             q == Len(delivered)
  <2>2. RecordedFrom(P)
    BY <1>2, <2>1 DEF EngineInvariant, RecordingFollows
  <2>3. q \in Nat /\ q \in 1..Len(delivered) /\ delivered[q] \in Messages
    BY <1>1, LastElement, EmptySeq
  <2>4. P \in SUBSET Nat /\ \A p \in P : p < q
    BY <2>3 DEF DepthPlaces
  <2>5. P \cup {q} = DepthPlaces'
    BY <1>2, <1>3, <2>3 DEF DepthPlaces, current
  <2>6. recorded' = Append(recorded, delivered[q])
    BY <2>1 DEF current
  <2> HIDE DEF P, q
  <2>7. ASSUME NEW Q, NEW r, Q = P, r = q PROVE RecordedFrom(Q \cup {r})'
    <3>1. /\ Q \in SUBSET Nat /\ r \in Nat /\ (\A p \in Q : p < r) /\ delivered[r] \in Messages
          /\ recorded' = Append(recorded, delivered[r]) /\ RecordedFrom(Q)
      BY <2>2, <2>3, <2>4, <2>6, <2>7
    <3> QED BY <1>1, <1>3, <3>1, PlaceAdded
  <2> QED BY <2>5, <2>7
<1>6. RecordingFollows'
  BY <1>2, <1>3, <1>5 DEF RecordingFollows
<1> QED BY <1>4, <1>6 DEF EngineInvariant

\* The other steps of the processing thread.  Only in ProcApply do signals fire.
LEMMA EngineKeepsEngine ==
    ASSUME FlowInvariant, EngineInvariant,
           ProcCheck \/ ProcEmpty \/ ProcApply \/ ProcTrade \/ ProcPublish
    PROVE  EngineInvariant'
<1> USE DEF clientVars, feedVars, queueVars, statsVars, mainVars
<1>1. /\ processed \in Nat /\ tradesProcessed \in Nat /\ depthApplied \in Nat
      /\ fired \in Nat /\ recent \in Seq(Nat)
  BY DEF FlowInvariant, TypeOK
<1>2. /\ ppc # "depth" /\ ppc' # "depth" /\ ppc # "exited"
      /\ UNCHANGED <<delivered, recorded, diskErrors, recorder, mpc>>
  BY DEF ProcCheck, ProcEmpty, ProcApply, ProcTrade, ProcPublish
<1>3. RecordingFollows'
  <2>1. RecordedFrom(DepthPlaces) => RecordedFrom(DepthPlaces)'
    BY <1>2 DEF RecordedFrom, DepthPlaces
  <2> QED BY <1>2, <2>1 DEF EngineInvariant, RecordingFollows
<1>4. EngineConsistent'
  <2>1. CASE ProcCheck \/ ProcEmpty \/ ProcPublish
    <3>1. /\ UNCHANGED <<processed, tradesProcessed, depthApplied, fired, recent>>
          /\ ppc \notin {"depth", "apply", "trade"} /\ ppc' \notin {"depth", "apply", "trade"}
      BY <2>1 DEF ProcCheck, ProcEmpty, ProcPublish
    <3> QED BY <3>1 DEF EngineInvariant, EngineConsistent, LastSignals
  <2>2. CASE ProcTrade
    BY <1>1, <2>2 DEF ProcTrade, EngineInvariant, EngineConsistent, LastSignals
  <2>3. CASE ProcApply
    <3>1. PICK k \in 0..NumConditions : fired' = fired + k /\ recent' = KeepRecent(k)
      BY <2>3 DEF ProcApply
    <3>2. k \in Nat
      BY BoundsAssumption
    <3>3. LastSignals(KeepRecent(k), fired + k)
      BY <1>1, <3>2, RecentAreLast DEF EngineInvariant, EngineConsistent
    <3>4. LastSignals(recent, fired)'
      BY <3>1, <3>3 DEF LastSignals
    <3>5. processed' = tradesProcessed' + depthApplied' /\ ppc' = "publish"
      BY <1>1, <2>3 DEF ProcApply, EngineInvariant, EngineConsistent
    <3>6. processed' \in Nat /\ tradesProcessed' \in Nat /\ depthApplied' \in Nat
      BY <1>1, <2>3 DEF ProcApply
    <3> QED BY <3>4, <3>5, <3>6 DEF EngineConsistent
  <2> QED BY <2>1, <2>2, <2>3
<1>5. SnapshotConsistent'
  <2>1. CASE ProcPublish
    <3>1. processed = tradesProcessed + depthApplied /\ LastSignals(recent, fired)
      BY <1>1, <2>1 DEF ProcPublish, EngineInvariant, EngineConsistent
    <3>2. /\ snapshot'.processed = processed /\ snapshot'.trades = tradesProcessed
          /\ snapshot'.depth = depthApplied /\ snapshot'.fired = fired /\ snapshot'.recent = recent
      BY <2>1 DEF ProcPublish, EngineFigures
    <3> QED BY <3>1, <3>2 DEF SnapshotConsistent, LastSignals
  <2>2. CASE ~ProcPublish
    <3>1. UNCHANGED snapshot
      BY <2>2 DEF ProcCheck, ProcEmpty, ProcApply, ProcTrade
    <3> QED BY <3>1 DEF EngineInvariant, SnapshotConsistent, LastSignals
  <2> QED BY <2>1, <2>2
<1> QED BY <1>3, <1>4, <1>5 DEF EngineInvariant

--------------------------------------------------------------------------------
\* The accounting, the drain and the statistics hold after any interleaving of
\* the threads of the live process, for every queue size and any traffic.
LEMMA FlowInvariantHolds == Spec => []FlowInvariant
<1>1. FlowInvariant /\ [Next]_vars => FlowInvariant'
  <2> SUFFICES ASSUME FlowInvariant, [Next]_vars PROVE FlowInvariant'
    OBVIOUS
  <2>1. CASE Feed
    BY <2>1, ClientKeeps, RejectKeeps, ReceiveKeeps, PushKeeps DEF Feed
  <2>2. CASE Engine
    BY <2>2, EngineKeeps, PopKeeps, PublishKeeps DEF Engine
  <2>3. CASE StatsStep \/ Main \/ SignalHandler
    BY <2>3, StatsKeep, MainKeeps, SignalKeeps
  <2>4. CASE Terminated \/ UNCHANGED vars
    BY <2>4, StutterKeeps DEF Terminated
  <2> QED BY <2>1, <2>2, <2>3, <2>4 DEF Next
<1> QED BY <1>1, FlowInit, PTL DEF Spec

\* The whole invariant of the live process, that of the processing thread's data
\* (process, update_snapshot, the recorder) included.
THEOREM PipelineInvariantHolds == Spec => []PipelineInvariant
<1>1. FlowInvariant /\ EngineInvariant /\ [Next]_vars => EngineInvariant'
  <2> SUFFICES ASSUME FlowInvariant, EngineInvariant, [Next]_vars PROVE EngineInvariant'
    OBVIOUS
  <2>1. CASE Engine
    BY <2>1, PopKeepsEngine, RecordKeepsEngine, EngineKeepsEngine DEF Engine
  <2>2. CASE Main
    BY <2>2, MainKeepsEngine
  <2>3. CASE Feed
    <3>1. UNCHANGED <<engineVars, delivered, recorder, mpc>>
      BY <2>3 DEF Feed, ClientStep, OnMessageInvalid, OnMessagePush, OnMessageDrop, OnMessage,
                  FIFO!Push, queueVars, mainVars
    <3> QED BY <3>1, OthersKeepEngine
  <2>4. CASE StatsStep \/ SignalHandler
    <3>1. UNCHANGED <<engineVars, delivered, recorder, mpc>>
      BY <2>4 DEF StatsStep, SignalHandler, queueVars, mainVars
    <3> QED BY <3>1, OthersKeepEngine
  <2>5. CASE Terminated \/ UNCHANGED vars
    <3>1. UNCHANGED <<engineVars, delivered, recorder, mpc>>
      BY <2>5 DEF Terminated, vars, queueVars, mainVars
    <3> QED BY <3>1, OthersKeepEngine
  <2> QED BY <2>1, <2>2, <2>3, <2>4, <2>5 DEF Next
<1>2. FlowInvariant /\ EngineInvariant => PipelineInvariant
  BY DEF PipelineInvariant
<1> QED BY <1>1, <1>2, EngineInit, FlowInvariantHolds, PTL DEF Spec

\* No message is lost without being counted (FeedHandler's counters, the queue
\* and the processed count add up).
THEOREM AccountedHolds == Spec => []MessagesAccounted
<1>1. FlowInvariant => MessagesAccounted
  BY DEF FlowInvariant
<1> QED BY <1>1, FlowInvariantHolds, PTL

\* The drain of ProcessingThread::run covers everything pushed before the stop
\* request.
THEOREM AcceptedHolds == Spec => []AcceptedBeforeStopAreProcessed
<1>1. FlowInvariant => AcceptedBeforeStopAreProcessed
  BY DEF FlowInvariant
<1> QED BY <1>1, FlowInvariantHolds, PTL

\* The race of the last push with the drain leaves at most one message behind.
THEOREM AtMostOneHolds == Spec => []AtMostOneLeftBehind
<1>1. FlowInvariant => AtMostOneLeftBehind
  BY DEF FlowInvariant
<1> QED BY <1>1, FlowInvariantHolds, PTL

\* build_stats_json never reports more messages processed than received.
THEOREM StatsHold == Spec => []StatsNeverAhead
<1>1. FlowInvariant => StatsNeverAhead
  BY DEF FlowInvariant
<1> QED BY <1>1, FlowInvariantHolds, PTL

\* A statistics request never sees the engine in the middle of a message:
\* update_snapshot runs last in process().
THEOREM SnapshotHolds == Spec => []SnapshotConsistent
<1>1. PipelineInvariant => SnapshotConsistent
  BY DEF PipelineInvariant, EngineInvariant
<1> QED BY <1>1, PipelineInvariantHolds, PTL

\* main closes the DiskLogger only when nothing more can be written to it, so a
\* recording without disk errors misses none of the depth updates processed.
THEOREM RecordingHolds == Spec => []RecordingComplete
<1>1. PipelineInvariant => RecordingComplete
  <2> SUFFICES ASSUME PipelineInvariant, recorder = "closed", diskErrors = 0
               PROVE  RecordedFrom(DepthPlaces)
    BY DEF RecordingComplete
  <2>1. mpc = "done" /\ ppc = "exited"
    BY DEF PipelineInvariant, EngineInvariant, RecordingFollows
  <2> QED BY <2>1 DEF PipelineInvariant, EngineInvariant, RecordingFollows
<1> QED BY <1>1, PipelineInvariantHolds, PTL

--------------------------------------------------------------------------------
(* LiveFeed: the parsers and the reconnect policy.                         *)

\* on_message takes a frame for a trade or for a depth update.
LEMMA KindIsKind == \A f : Kind(f) \in Kinds
BY DEF Kind, Kinds

\* What the parser it goes to accepts is an event of that kind, what it rejects no
\* event of ours or one whose text misled.
LEMMA ParserVerdict ==
    ASSUME NEW f \in Frames
    PROVE  /\ Kind(f) \in Kinds
           /\ Parse(f).ok \in BOOLEAN
           /\ Parse(f).ok => Was(f).is = EventOf(Kind(f))
           /\ LostOnParsing(Was(f)) <=> ~Parse(f).ok
           /\ Was(f) \in [is : Known \cup {"other"}, misleading : BOOLEAN]
<1>1. Was(f).is = EventIn(f) /\ Was(f).misleading = Misleading(f)
  BY DEF Was
<1>2. EventIn(f) \in Known \cup {"other"} /\ Misleading(f) \in BOOLEAN
  BY DEF EventIn, Misleading
<1>3. f.data # "absent" => "data" \in f.says
  BY FramesAssumption
<1>4. CASE MentionsTrade(f)
  <2>1. Parse(f).ok <=> Opened(f) /\ EventType(f) = "trade"
    BY <1>4 DEF Parse, ParseTrade, Rejected
  <2>2. Parse(f).ok \in BOOLEAN
    BY <1>4 DEF Parse, ParseTrade, Rejected
  <2>3. Opened(f) /\ EventType(f) = "trade" <=> EventIn(f) = "trade" /\ ~Misleading(f)
    BY <1>3, <1>4 DEF Opened, EventType, Combined, EventIn, Known, Misleading, MentionsTrade
  <2>4. EventIn(f) # "trade" => Misleading(f)
    BY <1>4 DEF Misleading, MentionsTrade
  <2> QED BY <1>1, <1>2, <1>4, <2>1, <2>2, <2>3, <2>4
          DEF LostOnParsing, EventOf, Kind, Kinds, Was, Known
<1>5. CASE ~MentionsTrade(f)
  <2>1. Parse(f).ok <=> Opened(f) /\ EventType(f) = "depthUpdate"
    BY <1>5 DEF Parse, ParseDepth, Rejected
  <2>2. Parse(f).ok \in BOOLEAN
    BY <1>5 DEF Parse, ParseDepth, Rejected
  <2>3. Opened(f) /\ EventType(f) = "depthUpdate" <=> EventIn(f) = "depthUpdate" /\ ~Misleading(f)
    BY <1>3, <1>5 DEF Opened, EventType, Combined, EventIn, Known, Misleading, MentionsTrade
  <2>4. EventIn(f) = "trade" => Misleading(f)
    BY <1>5 DEF Misleading, MentionsTrade
  <2> QED BY <1>1, <1>2, <1>5, <2>1, <2>2, <2>3, <2>4
          DEF LostOnParsing, EventOf, Kind, Kinds, Was, Known
<1> QED BY <1>4, <1>5

\* A step with the parsers is a step without.
LEMMA FeedStepIsPipelineStep == [FeedNext]_feedAllVars => [Next]_vars
<1>1. ASSUME NEW f \in Frames, Receive(f) PROVE Next
  <2>1. OnMessage(Kind(f)) /\ Kind(f) \in Kinds
    BY <1>1, KindIsKind DEF Receive
  <2> QED BY <2>1 DEF Next, Feed
<1>2. ASSUME NEW f \in frame, Handle(f) PROVE Next
  BY <1>2 DEF Handle, Next, Feed
<1>3. ASSUME ClientStep \/ Engine \/ StatsStep \/ Main \/ SignalHandler \/ Terminated PROVE Next
  BY <1>3 DEF Next, Feed
<1>4. UNCHANGED feedAllVars => UNCHANGED vars
  BY DEF feedAllVars
<1> QED BY <1>1, <1>2, <1>3, <1>4 DEF FeedNext, FeedThread, Others

\* The parsers and the frames change nothing of what LivePipeline says: its
\* theorems are theorems of the process with its parsers.
THEOREM FeedImplementsPipeline == FeedSpec => ImplementsPipeline
<1>1. FeedInit => Init
  BY DEF FeedInit
<1> QED BY <1>1, FeedStepIsPipelineStep, PTL DEF FeedSpec, Spec, ImplementsPipeline

--------------------------------------------------------------------------------
(* ReconnectPolicy.                                                        *)

\* The delays without a maximum, by their recursion.
LEMMA UncappedProperties ==
    /\ Client!Uncapped \in [0..MaxFailures -> Nat]
    /\ Client!Uncapped[0] = InitialDelay
    /\ \A n \in 1..MaxFailures : Client!Uncapped[n] = Client!Uncapped[n - 1] * Multiplier
<1> DEFINE Turn(s) == s * Multiplier
           Loop(H) == H = [n \in 0..MaxFailures |->
                             IF n = 0 THEN InitialDelay ELSE Turn(H[n - 1])]
           delays == CHOOSE H : Loop(H)
<1>1. Client!Uncapped = delays
  BY Zenon DEF Client!Uncapped
<1>2. MaxFailures \in Nat /\ InitialDelay \in Nat /\ Multiplier \in Nat
  BY MaxFailuresAssumption, DelayAssumption
<1> DEFINE turn == [n \in 1..MaxFailures |-> [s \in Nat |-> Turn(s)]]
<1>3. turn \in Turns(MaxFailures, Nat)
  BY <1>2 DEF Turns
<1>4. PICK G : LoopRuns(MaxFailures, Nat, InitialDelay, turn, G)
  <2> HIDE DEF turn
  <2> QED BY <1>2, <1>3, LoopExists
<1>5. /\ G \in [0..MaxFailures -> Nat] /\ G[0] = InitialDelay
      /\ \A n \in 1..MaxFailures : G[n] = Turn(G[n - 1])
  <2>1. ASSUME NEW n \in 1..MaxFailures PROVE G[n] = Turn(G[n - 1])
    <3> HIDE DEF Turn, turn
    <3>1. n - 1 \in 0..MaxFailures /\ G[n - 1] \in Nat /\ G[n] = turn[n][G[n - 1]]
      BY <1>2, <1>4 DEF LoopRuns
    <3> QED BY <3>1 DEF turn
  <2> QED BY <1>4, <2>1 DEF LoopRuns
<1> HIDE DEF Turn, turn
<1>6. Loop(G)
  <2>1. ASSUME NEW n \in 0..MaxFailures
        PROVE  G[n] = IF n = 0 THEN InitialDelay ELSE Turn(G[n - 1])
    BY <1>2, <1>5
  <2> QED BY <1>5, <2>1
<1>7. Loop(delays)
  <2> HIDE DEF Loop
  <2> QED BY <1>6
<1> HIDE DEF delays
<1>8. ASSUME NEW n \in 0..MaxFailures
      PROVE  delays[n] = IF n = 0 THEN InitialDelay ELSE Turn(delays[n - 1])
  BY <1>7, Zenon
<1>9. delays = [n \in 0..MaxFailures |-> delays[n]]
  BY <1>7, Zenon
<1> HIDE DEF Loop
<1>10. delays[0] = InitialDelay /\ \A n \in 1..MaxFailures : delays[n] = Turn(delays[n - 1])
  <2>1. 0 \in 0..MaxFailures
    BY <1>2
  <2>2. ASSUME NEW n \in 1..MaxFailures PROVE delays[n] = Turn(delays[n - 1])
    <3>1. n \in 0..MaxFailures /\ n # 0
      BY <1>2
    <3> QED BY <1>8, <3>1
  <2> QED BY <1>8, <2>1, <2>2
<1> DEFINE T == {n \in Nat : n <= MaxFailures => delays[n] \in Nat}
<1>11. 0 \in T
  BY <1>2, <1>10
<1>12. ASSUME NEW n \in Nat, n \in T PROVE n + 1 \in T
  <2> SUFFICES ASSUME n + 1 <= MaxFailures PROVE delays[n + 1] \in Nat
    OBVIOUS
  <2>1. n + 1 \in 1..MaxFailures /\ (n + 1) - 1 = n /\ delays[n] \in Nat
    BY <1>2, <1>12
  <2>2. delays[n + 1] = delays[n] * Multiplier
    BY <1>10, <2>1 DEF Turn
  <2> QED BY <1>2, <2>1, <2>2
<1> HIDE DEF T
<1>13. Nat \subseteq T
  BY <1>11, <1>12, InductionOnSet
<1>14. \A n \in 0..MaxFailures : delays[n] \in Nat
  BY <1>2, <1>13 DEF T
<1> QED BY <1>1, <1>9, <1>10, <1>14 DEF Turn

LEMMA TimesAtLeast == ASSUME NEW a \in Nat, NEW m \in Nat \ {0} PROVE a * m \in Nat /\ a * m >= a
<1>1. m - 1 \in Nat /\ a * m = a + a * (m - 1)
  OBVIOUS
<1>2. a * (m - 1) \in Nat
  BY <1>1
<1> QED BY <1>1, <1>2

\* Capping each delay or only the last one makes no difference.
LEMMA CapsCompose ==
    ASSUME NEW g \in Nat
    PROVE  Client!MinDelay(Client!MinDelay(g, MaxDelay) * Multiplier, MaxDelay)
              = Client!MinDelay(g * Multiplier, MaxDelay)
<1>1. /\ MaxDelay \in Nat /\ Multiplier \in Nat \ {0}
      /\ MaxDelay * Multiplier \in Nat /\ MaxDelay * Multiplier >= MaxDelay
      /\ g * Multiplier \in Nat /\ g * Multiplier >= g
  BY DelayAssumption, TimesAtLeast
<1>2. CASE g <= MaxDelay
  BY <1>2 DEF Client!MinDelay
<1>3. CASE ~(g <= MaxDelay)
  <2>1. Client!MinDelay(g, MaxDelay) = MaxDelay
    BY <1>3 DEF Client!MinDelay
  <2>2. Client!MinDelay(MaxDelay * Multiplier, MaxDelay) = MaxDelay
    BY <1>1 DEF Client!MinDelay
  <2>3. Client!MinDelay(g * Multiplier, MaxDelay) = MaxDelay
    BY <1>1, <1>3 DEF Client!MinDelay
  <2> QED BY <2>1, <2>2, <2>3
<1> QED BY <1>2, <1>3

\* What a step of the process may do to the policy: a failure, a success, nothing.
LEMMA PolicySteps ==
    ASSUME Next \/ UNCHANGED vars
    PROVE  \/ UNCHANGED <<delay, failures>>
           \/ delay' = InitialDelay /\ failures' = 0
           \/ /\ failures < MaxFailures /\ failures' = failures + 1
              /\ delay' = Client!MinDelay(delay * Multiplier, MaxDelay)
<1>1. CASE Feed
  BY <1>1 DEF Feed, ClientStep, OnMessage, OnMessageInvalid, OnMessagePush, OnMessageDrop,
     Client!RunCheck, Client!ConnectFails, Client!Connect, Client!LoopCheck, Client!ReadFails,
     Client!Close, Client!Break, Client!Backoff, Client!Wake, Client!Read, Client!Handled
<1>2. CASE Engine \/ StatsStep
  BY <1>2 DEF Engine, StatsStep, ProcCheck, ProcEmpty, ProcPop, ProcRecord, ProcApply, ProcTrade,
     ProcPublish, clientVars
<1>3. CASE Main \/ SignalHandler \/ Terminated \/ UNCHANGED vars
  BY <1>3 DEF Main, MainLeave, MainStopServers, MainJoinServers, MainStopFeed, MainJoinFeed,
     MainJoinProcessor, MainClose, SignalHandler, Terminated, vars, clientVars,
     Client!Stop, Client!Signal
<1> QED BY <1>1, <1>2, <1>3 DEF Next

LEMMA BackoffStep ==
    ASSUME BackoffInvariant, Next \/ UNCHANGED vars PROVE BackoffInvariant'
<1> USE DEF BackoffInvariant, BackoffIsExponential, Client!BackoffIsExponential
<1>1. MaxFailures \in Nat /\ InitialDelay \in Nat /\ MaxDelay \in Nat /\ InitialDelay <= MaxDelay
  BY MaxFailuresAssumption, DelayAssumption
<1>2. CASE UNCHANGED <<delay, failures>>
  BY <1>2
<1>3. CASE delay' = InitialDelay /\ failures' = 0
  BY <1>1, <1>3, UncappedProperties DEF Client!MinDelay
<1>4. CASE /\ failures < MaxFailures /\ failures' = failures + 1
           /\ delay' = Client!MinDelay(delay * Multiplier, MaxDelay)
  <2>1. /\ failures' \in 1..MaxFailures /\ failures' - 1 = failures
        /\ Client!Uncapped[failures] \in Nat
    BY <1>1, <1>4, UncappedProperties
  <2>2. Client!Uncapped[failures'] = Client!Uncapped[failures] * Multiplier
    BY <2>1, UncappedProperties
  <2>3. delay' = Client!MinDelay(Client!Uncapped[failures'], MaxDelay)
    BY <1>4, <2>1, <2>2, CapsCompose
  <2> QED BY <1>1, <2>1, <2>3
<1> QED BY <1>2, <1>3, <1>4, PolicySteps

\* next_delay_ms and reset() keep the delay exponential in the failures since the
\* last successful connection, up to the maximum.
THEOREM BackoffHolds == FeedSpec => []BackoffIsExponential
<1>1. Init => BackoffInvariant
  BY UncappedProperties, MaxFailuresAssumption, DelayAssumption
     DEF Init, Client!Init, BackoffInvariant, BackoffIsExponential, Client!BackoffIsExponential,
         Client!MinDelay
<1>2. BackoffInvariant /\ [Next]_vars => BackoffInvariant'
  BY BackoffStep
<1>3. BackoffInvariant => BackoffIsExponential
  BY DEF BackoffInvariant
<1> QED BY <1>1, <1>2, <1>3, FeedImplementsPipeline, PTL DEF Spec, ImplementsPipeline

--------------------------------------------------------------------------------
(* The parsers.                                                            *)

\* The loop over the elements of a side, turn by turn.
LEMMA LevelsTurns ==
    ASSUME NEW E, NEW elements \in Seq(E)
    PROVE  \E taken : /\ taken[0] = <<>>
                      /\ \A n \in 1..Len(elements) :
                            taken[n] = TakeLevel(taken[n - 1], elements[n])
                      /\ Levels(elements) = taken[Len(elements)]
<1> DEFINE N == Len(elements)
           Turn(n, s) == TakeLevel(s, elements[n])
           Loop(H) == H = [n \in 0..N |-> IF n = 0 THEN <<>> ELSE Turn(n, H[n - 1])]
           taken == CHOOSE H : Loop(H)
<1>1. Levels(elements) = taken[N]
  BY Zenon DEF Levels
<1>2. N \in Nat /\ \A i \in 1..N : elements[i] \in E
  OBVIOUS
<1> HIDE DEF N
<1>3. Loop(taken)
  <2> DEFINE V == Seq(E)
             none == <<>>
             turn == [n \in 1..N |-> [s \in V |-> Turn(n, s)]]
  <2>1. turn \in Turns(N, V) /\ none \in V
    BY <1>2 DEF Turns, TakeLevel
  <2>2. PICK G : LoopRuns(N, V, none, turn, G)
    <3> HIDE DEF turn, V, none
    <3> QED BY <1>2, <2>1, LoopExists
  <2>3. G \in [0..N -> V] /\ G[0] = <<>> /\ \A n \in 1..N : G[n] = Turn(n, G[n - 1])
    <3>1. ASSUME NEW n \in 1..N PROVE G[n] = Turn(n, G[n - 1])
      <4> HIDE DEF V, none, Turn, turn
      <4>1. n - 1 \in 0..N /\ G[n - 1] \in V /\ G[n] = turn[n][G[n - 1]]
        BY <1>2, <2>2 DEF LoopRuns
      <4> QED BY <4>1 DEF turn
    <3> QED BY <2>2, <3>1 DEF LoopRuns
  <2> HIDE DEF Turn, turn
  <2>4. Loop(G)
    <3>1. ASSUME NEW n \in 0..N PROVE G[n] = IF n = 0 THEN <<>> ELSE Turn(n, G[n - 1])
      BY <1>2, <2>3
    <3> QED BY <2>3, <3>1
  <2> HIDE DEF Loop
  <2> QED BY <2>4
<1> HIDE DEF taken
<1>4. taken[0] = <<>> /\ \A n \in 1..N : taken[n] = Turn(n, taken[n - 1])
  <2> HIDE DEF Turn
  <2>1. ASSUME NEW n \in 0..N PROVE taken[n] = IF n = 0 THEN <<>> ELSE Turn(n, taken[n - 1])
    BY <1>3, Zenon
  <2> HIDE DEF Loop
  <2>2. 0 \in 0..N /\ \A n \in 1..N : n \in 0..N /\ n # 0
    BY <1>2
  <2> QED BY <2>1, <2>2
<1> HIDE DEF Loop
<1> QED BY <1>1, <1>4, Zenon DEF N

\* One turn of that loop keeps the first levels of the elements seen.
LEMMA TakeLevelKeeps ==
    ASSUME NEW E, NEW elements \in Seq(E), NEW n \in Nat, n + 1 <= Len(elements),
           NEW s \in Seq(E), FirstLevels(s, elements, n)
    PROVE  /\ TakeLevel(s, elements[n + 1]) \in Seq(E)
           /\ FirstLevels(TakeLevel(s, elements[n + 1]), elements, n + 1)
<1> DEFINE e == elements[n + 1]
           t == TakeLevel(s, e)
           W(k) == {i \in 1..k : IsLevel(elements[i])}
           Placed(l, k, place) ==
               /\ \A i, j \in 1..Len(l) : i < j => place[i] < place[j]
               /\ \A i \in 1..Len(l) : l[i] = elements[place[i]]
               /\ \A w \in W(k) : \/ \E i \in 1..Len(l) : place[i] = w
                                  \/ Len(l) = MaxLevels /\ \A i \in 1..Len(l) : place[i] < w
<1>1. /\ MaxLevels \in Nat /\ Len(s) \in Nat /\ Len(s) <= MaxLevels /\ e \in E
      /\ \A i \in 1..n : i \in 1..(n + 1)
      /\ W(n) \subseteq 1..n
  BY MaxLevelsAssumption DEF FirstLevels
<1>2. PICK place \in [1..Len(s) -> W(n)] : Placed(s, n, place)
  BY Zenon DEF FirstLevels
<1>3. W(n + 1) = IF IsLevel(e) THEN W(n) \cup {n + 1} ELSE W(n)
  <2>1. \A i \in 1..(n + 1) : i \in 1..n \/ i = n + 1
    BY <1>1
  <2> HIDE DEF W
  <2>2. \A i : i \in W(n + 1) <=> i \in 1..(n + 1) /\ IsLevel(elements[i])
    BY DEF W
  <2>3. \A i : i \in W(n) <=> i \in 1..n /\ IsLevel(elements[i])
    BY DEF W
  <2>4. n + 1 \in 1..(n + 1) /\ ~(n + 1 \in 1..n)
    BY <1>1
  <2> QED BY <1>1, <2>1, <2>2, <2>3, <2>4
<1> SUFFICES /\ t \in Seq(E) /\ Len(t) <= MaxLevels
             /\ \E p \in [1..Len(t) -> W(n + 1)] : Placed(t, n + 1, p)
  BY Zenon DEF FirstLevels
<1>4. CASE Len(s) >= MaxLevels \/ ~IsLevel(e)
  <2>1. t = s
    BY <1>4 DEF TakeLevel
  <2> HIDE DEF t, W, e
  <2>2. place \in [1..Len(t) -> W(n + 1)]
    BY <1>2, <1>3, <2>1
  <2>3. ASSUME NEW w \in W(n + 1)
        PROVE  \/ \E i \in 1..Len(t) : place[i] = w
               \/ Len(t) = MaxLevels /\ \A i \in 1..Len(t) : place[i] < w
    <3>1. CASE w \in W(n)
      BY <1>2, <2>1, <3>1
    <3>2. CASE w \notin W(n)
      <4>1. w = n + 1 /\ IsLevel(e)
        BY <1>3, <3>2
      <4>2. Len(t) = MaxLevels
        BY <1>1, <1>4, <2>1, <4>1
      <4>3. ASSUME NEW i \in 1..Len(t) PROVE place[i] < w
        <5>1. place[i] \in 1..n
          BY <1>1, <1>2, <2>1
        <5> QED BY <4>1, <5>1
      <4> QED BY <4>2, <4>3
    <3> QED BY <3>1, <3>2
  <2>4. Placed(t, n + 1, place)
    BY <1>2, <2>1, <2>3
  <2> HIDE DEF Placed
  <2> QED BY <1>1, <2>1, <2>2, <2>4
<1>5. CASE ~(Len(s) >= MaxLevels) /\ IsLevel(e)
  <2>1. t = Append(s, e)
    BY <1>5 DEF TakeLevel
  <2> HIDE DEF t, W
  <2> DEFINE k == Len(s)
             q == [i \in 1..(k + 1) |-> IF i = k + 1 THEN n + 1 ELSE place[i]]
  <2>2. /\ t \in Seq(E) /\ Len(t) = k + 1 /\ t[k + 1] = e
        /\ \A i \in 1..k : t[i] = s[i]
    BY <1>1, <2>1
  <2>3. n + 1 \in W(n + 1) /\ W(n) \subseteq W(n + 1)
    BY <1>3, <1>5
  <2>4. /\ q \in [1..(k + 1) -> W(n + 1)] /\ q[k + 1] = n + 1
        /\ \A i \in 1..k : q[i] = place[i]
    BY <1>1, <1>2, <2>3
  <2>5. \A i \in 1..k : place[i] \in 1..n
    BY <1>1, <1>2
  <2> HIDE DEF q
  <2>6. ASSUME NEW i \in 1..(k + 1), NEW j \in 1..(k + 1), i < j PROVE q[i] < q[j]
    <3>1. i \in 1..k
      BY <1>1, <2>6
    <3>2. CASE j = k + 1
      BY <2>4, <2>5, <3>1, <3>2
    <3>3. CASE j # k + 1
      <4>1. j \in 1..k
        BY <1>1, <3>3
      <4> QED BY <1>2, <2>4, <2>6, <3>1, <4>1
    <3> QED BY <3>2, <3>3
  <2>7. ASSUME NEW i \in 1..(k + 1) PROVE t[i] = elements[q[i]]
    <3>1. CASE i = k + 1
      BY <2>2, <2>4, <3>1
    <3>2. CASE i # k + 1
      <4>1. i \in 1..k
        BY <1>1, <3>2
      <4> QED BY <1>2, <2>2, <2>4, <4>1
    <3> QED BY <3>1, <3>2
  <2>8. ASSUME NEW w \in W(n + 1) PROVE \E i \in 1..(k + 1) : q[i] = w
    <3>1. CASE w = n + 1
      BY <1>1, <2>4, <3>1
    <3>2. CASE w # n + 1
      <4>1. w \in W(n)
        BY <1>3, <3>2
      <4>2. PICK i \in 1..k : place[i] = w
        BY <1>1, <1>2, <1>5, <4>1
      <4>3. i \in 1..(k + 1) /\ q[i] = w
        BY <1>1, <2>4, <4>2
      <4> QED BY <4>3
    <3> QED BY <3>1, <3>2
  <2>9. Placed(t, n + 1, q)
    BY <2>2, <2>6, <2>7, <2>8
  <2>10. q \in [1..Len(t) -> W(n + 1)] /\ Len(t) <= MaxLevels
    BY <1>1, <1>5, <2>2, <2>4
  <2> HIDE DEF Placed
  <2> QED BY <2>2, <2>9, <2>10
<1> QED BY <1>4, <1>5

\* The loop returns the first levels of all its elements.
LEMMA LevelsAreFirst ==
    ASSUME NEW E, NEW elements \in Seq(E)
    PROVE  FirstLevels(Levels(elements), elements, Len(elements))
<1>1. PICK taken : /\ taken[0] = <<>>
                   /\ \A n \in 1..Len(elements) :
                         taken[n] = TakeLevel(taken[n - 1], elements[n])
                   /\ Levels(elements) = taken[Len(elements)]
  BY LevelsTurns
<1> DEFINE Sound(n) == taken[n] \in Seq(E) /\ FirstLevels(taken[n], elements, n)
           T == {n \in Nat : n <= Len(elements) => Sound(n)}
<1>2. 0 \in T
  <2>1. taken[0] \in Seq(E) /\ Len(taken[0]) = 0
    BY <1>1
  <2>2. FirstLevels(taken[0], elements, 0)
    BY <2>1, MaxLevelsAssumption DEF FirstLevels
  <2> QED BY <2>1, <2>2
<1>3. ASSUME NEW n \in Nat, n \in T PROVE n + 1 \in T
  <2> SUFFICES ASSUME n + 1 <= Len(elements) PROVE Sound(n + 1)
    OBVIOUS
  <2>1. n + 1 \in 1..Len(elements) /\ (n + 1) - 1 = n /\ n <= Len(elements)
    OBVIOUS
  <2>2. Sound(n)
    <3> HIDE DEF Sound
    <3> QED BY <1>3, <2>1
  <2>3. taken[n + 1] = TakeLevel(taken[n], elements[n + 1])
    BY <1>1, <2>1
  <2> QED BY <2>2, <2>3, TakeLevelKeeps
<1> HIDE DEF T
<1>4. Len(elements) \in T
  BY <1>2, <1>3, InductionOnSet
<1>5. Sound(Len(elements))
  BY <1>4 DEF T
<1> QED BY <1>1, <1>5

--------------------------------------------------------------------------------
(* on_message.                                                             *)

\* Counting one more frame that was lost on parsing, or one that was not.
LEMMA LostCount ==
    ASSUME NEW seq, NEW n \in Nat
    PROVE  LET lost(k) == {i \in 1..k : LostOnParsing(seq[i])}
           IN /\ Cardinality(lost(n + 1)) =
                    Cardinality(lost(n)) + (IF LostOnParsing(seq[n + 1]) THEN 1 ELSE 0)
              /\ Cardinality(lost(n)) \in Nat
<1> DEFINE lost(k) == {i \in 1..k : LostOnParsing(seq[i])}
<1>1. IsFiniteSet(lost(n)) /\ Cardinality(lost(n)) \in Nat
  <2>1. IsFiniteSet(1..n)
    BY FS_Interval
  <2>2. lost(n) \subseteq 1..n
    OBVIOUS
  <2> HIDE DEF lost
  <2>3. IsFiniteSet(lost(n))
    BY <2>1, <2>2, FS_Subset
  <2> QED BY <2>3, FS_CardinalityType
<1>2. /\ n + 1 \notin lost(n)
      /\ lost(n + 1) = IF LostOnParsing(seq[n + 1]) THEN lost(n) \cup {n + 1} ELSE lost(n)
  OBVIOUS
<1> HIDE DEF lost
<1>3. CASE LostOnParsing(seq[n + 1])
  <2>1. Cardinality(lost(n) \cup {n + 1}) = Cardinality(lost(n)) + 1
    BY <1>1, <1>2, FS_AddElement
  <2> QED BY <1>1, <1>2, <1>3, <2>1 DEF lost
<1>4. CASE ~LostOnParsing(seq[n + 1])
  BY <1>1, <1>2, <1>4 DEF lost
<1> QED BY <1>3, <1>4

LEMMA FramesInit == FeedInit => FramesInvariant
<1> SUFFICES ASSUME FeedInit PROVE FramesInvariant
  OBVIOUS
<1>1. /\ queue = <<>> /\ delivered = <<>> /\ events = <<>> /\ received = 0 /\ parseErrors = 0
      /\ inFlight = {} /\ frame = {}
  BY DEF FeedInit, Init, FIFO!Init
<1>2. Range(delivered) \cup Range(queue) = {}
  BY <1>1 DEF Range
<1>3. Finished = 0
  BY <1>1, FS_EmptySet DEF Finished
<1>4. {i \in 1..Finished : LostOnParsing(events[i])} = {}
  BY <1>3
<1>5. Cardinality({i \in 1..Finished : LostOnParsing(events[i])}) = 0
  BY <1>4, FS_EmptySet
<1>6. events \in Histories /\ Len(events) = received
  BY <1>1 DEF Histories
<1> QED BY <1>1, <1>2, <1>5, <1>6 DEF FramesInvariant, FrameInHand, FramesTakenForWhatTheyAre

\* The frames on_message is done with.
LEMMA FinishedValue ==
    ASSUME FramesInvariant, received \in Nat
    PROVE  /\ inFlight = {} => Finished = received
           /\ inFlight # {} => Finished = received - 1 /\ received > 0
<1>1. CASE inFlight = {}
  BY <1>1, FS_EmptySet DEF Finished
<1>2. CASE inFlight # {}
  <2>1. PICK f \in Frames : received > 0 /\ inFlight = {[n |-> received, kind |-> Kind(f)]}
    BY <1>2 DEF FramesInvariant, FrameInHand
  <2>2. Cardinality(inFlight) = 1
    BY <2>1, FS_Singleton
  <2> QED BY <1>2, <2>1, <2>2 DEF Finished
<1> QED BY <1>1, <1>2

\* A frame arrives.
LEMMA ReceiveKeepsFrames ==
    ASSUME FramesInvariant, TypeOK, NEW f \in Frames, Receive(f)
    PROVE  FramesInvariant'
<1>1. /\ wpc = "read" /\ received' = received + 1
      /\ inFlight' = {[n |-> received + 1, kind |-> Kind(f)]}
      /\ frame' = {f} /\ events' = Append(events, Was(f))
      /\ parseErrors' = parseErrors /\ queue' = queue /\ delivered' = delivered
  BY DEF Receive, OnMessage, Client!Read, queueVars
<1>2. /\ inFlight = {} /\ received \in Nat
      /\ events \in Histories /\ Len(events) = received
  BY <1>1 DEF TypeOK, FramesInvariant
<1>3. Finished = received
  BY <1>2, FinishedValue
<1>4. Finished' = received
  <2>1. Cardinality(inFlight') = 1
    BY <1>1, FS_Singleton
  <2> QED BY <1>1, <1>2, <2>1 DEF Finished
<1>5. /\ events' \in Histories /\ Len(events') = received'
      /\ events'[received'] = Was(f)
      /\ \A i \in 1..received : events'[i] = events[i]
  BY <1>1, <1>2, ParserVerdict DEF Histories
<1>6. FrameInHand'
  BY <1>1, <1>2, <1>5 DEF FrameInHand
<1>7. {i \in 1..Finished' : LostOnParsing(events'[i])} = {i \in 1..Finished : LostOnParsing(events[i])}
  BY <1>3, <1>4, <1>5
<1>8. \A m \in Range(delivered) \cup Range(queue) :
         m.n \in 1..received /\ events'[m.n] = events[m.n] /\ events[m.n].is = EventOf(m.kind)
  BY <1>3, <1>5 DEF FramesInvariant, FramesTakenForWhatTheyAre
<1>9. parseErrors' = Cardinality({i \in 1..Finished' : LostOnParsing(events'[i])})
  BY <1>1, <1>7 DEF FramesInvariant, FramesTakenForWhatTheyAre
<1>10. FramesTakenForWhatTheyAre'
  BY <1>1, <1>8, <1>9 DEF FramesTakenForWhatTheyAre
<1> QED BY <1>1, <1>4, <1>5, <1>6, <1>8, <1>10 DEF FramesInvariant

\* on_message returns.
LEMMA HandleKeepsFrames ==
    ASSUME FramesInvariant, TypeOK, NEW f \in frame, Handle(f)
    PROVE  FramesInvariant'
<1> DEFINE m == [n |-> received, kind |-> Kind(f)]
<1>1. /\ f \in Frames /\ received \in Nat /\ received > 0
      /\ inFlight = {m} /\ events[received] = Was(f)
      /\ parseErrors \in Nat /\ queue \in Seq(Messages)
  BY DEF FramesInvariant, FrameInHand, TypeOK
<1>2. /\ frame' = {} /\ inFlight' = {} /\ events' = events /\ received' = received
      /\ delivered' = delivered
  BY DEF Handle, OnMessagePush, OnMessageDrop, OnMessageInvalid, FIFO!Push, queueVars
<1>3. \/ /\ Parse(f).ok /\ parseErrors' = parseErrors
         /\ queue' = queue \/ queue' = Append(queue, m)
      \/ ~Parse(f).ok /\ parseErrors' = parseErrors + 1 /\ queue' = queue
  BY <1>1 DEF Handle, OnMessagePush, OnMessageDrop, OnMessageInvalid, FIFO!Push, queueVars
<1>4. Finished = received - 1 /\ Finished \in Nat
  BY <1>1, FinishedValue
<1>5. Finished' = received
  BY <1>1, <1>2, FS_EmptySet DEF Finished
<1>6. /\ m \in Messages /\ m.n = received /\ m.kind = Kind(f)
  BY <1>1, ParserVerdict DEF Messages
<1> HIDE DEF m
<1>7. ASSUME NEW k \in Range(queue') PROVE k \in Range(queue) \/ (k = m /\ Parse(f).ok)
  <2>1. CASE queue' = queue
    BY <1>7, <2>1
  <2>2. CASE Parse(f).ok /\ queue' = Append(queue, m)
    <3>1. /\ DOMAIN queue' = 1..(Len(queue) + 1) /\ queue'[Len(queue) + 1] = m
          /\ \A i \in 1..Len(queue) : queue'[i] = queue[i]
          /\ Len(queue) \in Nat /\ DOMAIN queue = 1..Len(queue)
      BY <1>1, <1>6, <2>2
    <3>2. PICK i \in 1..(Len(queue) + 1) : k = queue'[i]
      BY <1>7, <3>1 DEF Range
    <3>3. CASE i \in 1..Len(queue)
      BY <3>1, <3>2, <3>3 DEF Range
    <3>4. CASE i = Len(queue) + 1
      BY <2>2, <3>1, <3>2, <3>4
    <3> QED BY <3>1, <3>2, <3>3, <3>4
  <2> QED BY <1>3, <2>1, <2>2
<1>8. ASSUME NEW k \in Range(delivered') \cup Range(queue')
      PROVE  k.n \in 1..received /\ events[k.n].is = EventOf(k.kind)
  <2>1. CASE k \in Range(delivered) \cup Range(queue)
    BY <1>1, <1>4, <2>1 DEF FramesInvariant, FramesTakenForWhatTheyAre
  <2>2. CASE k = m /\ Parse(f).ok
    BY <1>1, <1>6, <2>2, ParserVerdict
  <2> QED BY <1>2, <1>7, <1>8, <2>1, <2>2
<1>9. parseErrors' = Cardinality({i \in 1..Finished' : LostOnParsing(events'[i])})
  <2> DEFINE lost(k) == {i \in 1..k : LostOnParsing(events[i])}
  <2>1. parseErrors = Cardinality(lost(Finished))
    BY DEF FramesInvariant, FramesTakenForWhatTheyAre
  <2>2. Cardinality(lost(Finished + 1)) =
           Cardinality(lost(Finished)) + (IF LostOnParsing(events[Finished + 1]) THEN 1 ELSE 0)
    BY <1>4, LostCount
  <2>3. Finished + 1 = received
    BY <1>1, <1>4
  <2>4. LostOnParsing(events[received]) <=> ~Parse(f).ok
    BY <1>1, ParserVerdict
  <2> HIDE DEF lost
  <2>5. parseErrors' = Cardinality(lost(received))
    BY <1>1, <1>3, <2>1, <2>2, <2>3, <2>4
  <2> QED BY <1>2, <1>5, <2>5 DEF lost
<1>10. FramesTakenForWhatTheyAre'
  BY <1>2, <1>8, <1>9 DEF FramesTakenForWhatTheyAre
<1> QED BY <1>2, <1>5, <1>8, <1>10 DEF FramesInvariant, FrameInHand

\* No other step touches the frames; the processing thread takes messages from
\* the queue to those delivered.
LEMMA OthersKeepFrames ==
    ASSUME FramesInvariant, TypeOK,
           \/ ClientStep /\ UNCHANGED <<frame, events>>
           \/ Others
           \/ UNCHANGED feedAllVars
    PROVE  FramesInvariant'
<1>1. /\ UNCHANGED <<feedVars, frame, events>>
      /\ UNCHANGED queueVars \/ FIFO!Pop
  <2>1. CASE ClientStep /\ UNCHANGED <<frame, events>>
    BY <2>1 DEF ClientStep
  <2>2. CASE Engine /\ UNCHANGED <<frame, events>>
    BY <2>2 DEF Engine, ProcCheck, ProcEmpty, ProcPop, ProcRecord, ProcApply, ProcTrade, ProcPublish
  <2>3. CASE (StatsStep \/ Main \/ SignalHandler \/ Terminated) /\ UNCHANGED <<frame, events>>
    BY <2>3 DEF StatsStep, Main, MainLeave, MainStopServers, MainJoinServers, MainStopFeed,
       MainJoinFeed, MainJoinProcessor, MainClose, SignalHandler, Terminated, vars
  <2>4. CASE UNCHANGED feedAllVars
    BY <2>4 DEF feedAllVars, vars
  <2> QED BY <2>1, <2>2, <2>3, <2>4 DEF Others
<1>2. /\ received' = received /\ parseErrors' = parseErrors /\ inFlight' = inFlight
      /\ frame' = frame /\ events' = events
  BY <1>1 DEF feedVars
<1>3. Finished' = Finished
  BY <1>2 DEF Finished
<1>4. Range(delivered') \cup Range(queue') \subseteq Range(delivered) \cup Range(queue)
  <2>1. CASE UNCHANGED queueVars
    BY <2>1 DEF queueVars
  <2>2. CASE FIFO!Pop
    <3>1. /\ queue \in Seq(Messages) /\ delivered \in Seq(Messages) /\ queue # <<>>
          /\ queue' = Tail(queue) /\ delivered' = Append(delivered, Head(queue))
      BY <2>2 DEF FIFO!Pop, TypeOK
    <3>2. /\ Len(queue) \in Nat /\ Len(queue) > 0 /\ Head(queue) = queue[1]
          /\ DOMAIN queue = 1..Len(queue) /\ DOMAIN queue' = 1..(Len(queue) - 1)
          /\ \A i \in 1..(Len(queue) - 1) : queue'[i] = queue[i + 1]
      BY <3>1
    <3>3. /\ Len(delivered) \in Nat /\ DOMAIN delivered = 1..Len(delivered)
          /\ DOMAIN delivered' = 1..(Len(delivered) + 1)
          /\ delivered'[Len(delivered) + 1] = queue[1]
          /\ \A i \in 1..Len(delivered) : delivered'[i] = delivered[i]
      BY <3>1, <3>2
    <3>4. ASSUME NEW k \in Range(queue') PROVE k \in Range(queue)
      <4>1. PICK i \in 1..(Len(queue) - 1) : k = queue'[i]
        BY <3>2, <3>4 DEF Range
      <4>2. i + 1 \in DOMAIN queue /\ k = queue[i + 1]
        BY <3>2, <4>1
      <4> QED BY <4>2 DEF Range
    <3>5. ASSUME NEW k \in Range(delivered') PROVE k \in Range(delivered) \cup Range(queue)
      <4>1. PICK i \in 1..(Len(delivered) + 1) : k = delivered'[i]
        BY <3>3, <3>5 DEF Range
      <4>2. CASE i \in 1..Len(delivered)
        BY <3>3, <4>1, <4>2 DEF Range
      <4>3. CASE i = Len(delivered) + 1
        BY <3>2, <3>3, <4>1, <4>3 DEF Range
      <4> QED BY <3>3, <4>1, <4>2, <4>3
    <3> QED BY <3>4, <3>5
  <2> QED BY <1>1, <2>1, <2>2
<1>5. FrameInHand'
  BY <1>2 DEF FramesInvariant, FrameInHand
<1>6. FramesTakenForWhatTheyAre'
  <2>1. parseErrors' = Cardinality({i \in 1..Finished' : LostOnParsing(events'[i])})
    BY <1>2, <1>3 DEF FramesInvariant, FramesTakenForWhatTheyAre
  <2> QED BY <1>2, <1>4, <2>1 DEF FramesInvariant, FramesTakenForWhatTheyAre
<1> QED BY <1>2, <1>3, <1>4, <1>5, <1>6 DEF FramesInvariant

\* Every message stays tied to the frame it came from.
LEMMA FramesInvariantHolds == FeedSpec => []FramesInvariant
<1>1. FramesInvariant /\ TypeOK /\ [FeedNext]_feedAllVars => FramesInvariant'
  BY ReceiveKeepsFrames, HandleKeepsFrames, OthersKeepFrames, Zenon DEF FeedNext, FeedThread
<1>2. FlowInvariant => TypeOK
  BY DEF FlowInvariant
<1> QED BY <1>1, <1>2, FramesInit, FeedImplementsPipeline, FlowInvariantHolds, PTL
        DEF FeedSpec, ImplementsPipeline

\* What reaches the processing thread as a trade or as a depth update was one, and
\* parse_errors_ counts exactly the frames that were neither and the events whose
\* text misled on_message or the parser.
THEOREM FramesHold == FeedSpec => []FramesTakenForWhatTheyAre
<1>1. FramesInvariant => FramesTakenForWhatTheyAre
  BY DEF FramesInvariant
<1> QED BY <1>1, FramesInvariantHolds, PTL

\* DepthParser::parse keeps the first MAX_LEVELS well-formed levels of each side
\* of every frame it accepts.
THEOREM LevelsHold == FeedSpec => []LevelsAreThePrefix
<1>1. FramesInvariant => LevelsAreThePrefix
  <2> SUFFICES ASSUME FramesInvariant, NEW f \in frame, Kind(f) = "depth", Parse(f).ok
               PROVE  /\ FirstLevels(Parse(f).bids, f.b, Len(f.b))
                      /\ FirstLevels(Parse(f).asks, f.a, Len(f.a))
    BY DEF LevelsAreThePrefix
  <2>1. f.b \in Seq(Range(f.b)) /\ f.a \in Seq(Range(f.a))
    BY FramesAssumption DEF FramesInvariant, FrameInHand
  <2>2. Parse(f).bids = Levels(f.b) /\ Parse(f).asks = Levels(f.a)
    BY DEF Parse, ParseDepth, Rejected, Kind
  <2> QED BY <2>1, <2>2, LevelsAreFirst
<1> QED BY <1>1, FramesInvariantHolds, PTL
================================================================================
