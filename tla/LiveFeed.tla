-------------------------------- MODULE LiveFeed --------------------------------
(***************************************************************************)
(* LivePipeline with the frames the exchange sends and the parsers that     *)
(* decide what on_message does with them.  There the outcome of a parse is  *)
(* arbitrary; here it is the parser's, so every behaviour is one of         *)
(* LivePipeline's.                                                          *)
(***************************************************************************)
EXTENDS LivePipeline, Parsers, Functions, FiniteSets

CONSTANTS Frames    \* the frames the exchange sends

\* simdjson finds a member by its name as written: the text contains it.
ASSUME FramesAssumption ==
    \A f \in Frames : /\ f.b \in Seq(Range(f.b)) /\ f.a \in Seq(Range(f.a))
                      /\ f.data # "absent" => "data" \in f.says

VARIABLES frame,    \* the frame on_message is working on, a set of at most one
          events    \* history: what every frame received was, and if its text misled

feedAllVars == <<vars, frame, events>>

\* What a frame is, by the structure of its document and not by what its text
\* mentions: the event in its "data" member, or itself; "other" if none of ours.
Known == {"trade", "depthUpdate"}
EventIn(f) == LET event == IF f.data = "absent" THEN f.top ELSE f.data
              IN IF f.readable /\ event \in Known THEN event ELSE "other"

\* The text mentions "trade" in what is no trade or fails to in a trade, or
\* mentions "data" without having that member.
Misleading(f) == \/ ("trade" \in f.says) # (EventIn(f) = "trade")
                 \/ ("data" \in f.says) # (f.data # "absent")

Was(f) == [is |-> EventIn(f), misleading |-> Misleading(f)]
Histories == Seq([is : Known \cup {"other"}, misleading : BOOLEAN])

FeedInit == Init /\ frame = {} /\ events = <<>>

\* ws.read returns a frame; its text decides which parser it goes to.
Receive(f) == /\ OnMessage(Kind(f))
              /\ frame' = {f}
              /\ events' = Append(events, Was(f))

\* on_message returns: parse_errors_, or try_push and perhaps queue_full_.
Handle(f) == /\ IF Parse(f).ok THEN OnMessagePush \/ OnMessageDrop ELSE OnMessageInvalid
             /\ frame' = {}
             /\ UNCHANGED events

FeedThread == \/ \E f \in Frames : Receive(f)
              \/ \E f \in frame : Handle(f)
              \/ ClientStep /\ UNCHANGED <<frame, events>>

Others == (Engine \/ StatsStep \/ Main \/ SignalHandler \/ Terminated) /\ UNCHANGED <<frame, events>>

FeedNext == FeedThread \/ Others

\* Every thread is scheduled, and every call into the network returns.
FeedSpec == /\ FeedInit /\ [][FeedNext]_feedAllVars
            /\ WF_feedAllVars(FeedThread)
            /\ WF_feedAllVars(Engine /\ UNCHANGED <<frame, events>>)
            /\ WF_feedAllVars(StatsStep /\ UNCHANGED <<frame, events>>)
            /\ WF_feedAllVars(Main /\ UNCHANGED <<frame, events>>)

--------------------------------------------------------------------------------
Finished == received - Cardinality(inFlight)
EventOf(kind) == IF kind = "trade" THEN "trade" ELSE "depthUpdate"

\* Lost on parsing, although perhaps an event of ours.
LostOnParsing(event) == event.is = "other" \/ event.misleading

\* on_message guesses from strings anywhere in the text.  Whatever the stream
\* carries, a wrong guess never makes a frame into what it is not: what reaches the
\* processing thread as a trade was a trade event, what reaches it as a depth
\* update was one.  It costs the event instead: parse_errors_ counts exactly the
\* frames that were neither and the events whose text misled the guess.
FramesTakenForWhatTheyAre ==
    /\ \A m \in Range(delivered) \cup Range(queue) : events[m.n].is = EventOf(m.kind)
    /\ parseErrors = Cardinality({i \in 1..Finished : LostOnParsing(events[i])})

\* levels are the first MAX_LEVELS of the well-formed elements among the first n,
\* in their order: each has its place, the places grow, and a well-formed element
\* has one unless all are taken before it.
FirstLevels(levels, elements, n) ==
    LET wellFormed == {i \in 1..n : IsLevel(elements[i])}
    IN /\ Len(levels) <= MaxLevels
       /\ \E place \in [1..Len(levels) -> wellFormed] :
             /\ \A i, j \in 1..Len(levels) : i < j => place[i] < place[j]
             /\ \A i \in 1..Len(levels) : levels[i] = elements[place[i]]
             /\ \A w \in wellFormed :
                   \/ \E i \in 1..Len(levels) : place[i] = w
                   \/ Len(levels) = MaxLevels /\ \A i \in 1..Len(levels) : place[i] < w

\* A depth update carries, per side, the first MAX_LEVELS of the well-formed
\* levels of its frame, in their order: a malformed element costs only itself.
LevelsAreThePrefix ==
    \A f \in frame : (Kind(f) = "depth" /\ Parse(f).ok) =>
        FirstLevels(Parse(f).bids, f.b, Len(f.b)) /\ FirstLevels(Parse(f).asks, f.a, Len(f.a))

\* "Doubles the delay on each failure, up to a configurable maximum", whatever
\* happened between the failures (WsClient).
BackoffIsExponential == Client!BackoffIsExponential

\* What LivePipeline says of on_message whatever the parsers return: every
\* behaviour with the parsers is one of its behaviours.
ImplementsPipeline == Spec

\* The frame in on_message and the message it became belong together.
FrameInHand ==
    \/ frame = {} /\ inFlight = {}
    \/ \E f \in Frames : /\ frame = {f} /\ received > 0
                         /\ inFlight = {[n |-> received, kind |-> Kind(f)]}
                         /\ events[received] = Was(f)

\* The inductive invariant of on_message and the frames, next to LivePipeline's.
FramesInvariant ==
    /\ events \in Histories /\ Len(events) = received
    /\ FrameInHand /\ FramesTakenForWhatTheyAre
    /\ \A m \in Range(delivered) \cup Range(queue) : m.n \in 1..Finished

\* The inductive invariant of ReconnectPolicy.
BackoffInvariant == failures \in 0..MaxFailures /\ BackoffIsExponential
================================================================================
