-------------------------------- MODULE Parsers ---------------------------------
(***************************************************************************)
(* What FeedHandler::on_message makes of a frame: the choice of a parser    *)
(* and DepthParser::parse and TradeParser::parse.  A frame is described by  *)
(* what the parsers look at:                                                *)
(*                                                                          *)
(*   readable  simdjson can iterate it                                      *)
(*   says      which of the strings "trade" and "data", quotes included, its *)
(*             text contains, anywhere                                      *)
(*   top       the "e" member of the document, "none" if absent or no string *)
(*   data      the same of its "data" member, the event of a combined stream; *)
(*             "absent" if there is no such member                          *)
(*   given     the event's other members present with the expected JSON type *)
(*   b, a      the elements of the level arrays (<<>> unless in given)      *)
(*                                                                          *)
(* An element is malformed if it is not an array, or its price or quantity   *)
(* is no string.  What strtod makes of the strings is left out.             *)
(***************************************************************************)
EXTENDS Naturals, Sequences

CONSTANTS MaxLevels    \* DepthUpdate::MAX_LEVELS

ASSUME MaxLevelsAssumption == MaxLevels \in Nat \ {0}

IsLevel(element) == ~element.malformed

DepthFields == {"E", "U", "u", "s"}
TradeFields == {"E", "t", "s", "p", "q", "m"}

\* on_message: json.find("\"trade\"") over the whole text.
MentionsTrade(frame) == "trade" \in frame.says

\* parse(): json.find("\"data\"") over the whole text.
Combined(frame) == "data" \in frame.says

\* The part of parse() before the event type check: the envelope is opened if
\* there seems to be one, and the event in it is iterated.
Opened(frame) == frame.readable /\ (Combined(frame) => frame.data # "absent")

\* The event type parse() then looks at.
EventType(frame) == IF Combined(frame) THEN frame.data ELSE frame.top

\* Mutant: malformed elements use up places.
TakeLevelPositional(taken, element) ==
    IF Len(taken) >= MaxLevels THEN taken ELSE Append(taken, element)

\* One turn of the loop over "b" or "a".
TakeLevel(taken, element) ==
    IF Len(taken) >= MaxLevels \/ ~IsLevel(element) THEN taken ELSE Append(taken, element)

\* The loop over "b" or "a": what it has taken after n elements.
Levels(elements) == LET taken[n \in 0..Len(elements)] ==
                            IF n = 0 THEN <<>> ELSE TakeLevel(taken[n - 1], elements[n])
                    IN taken[Len(elements)]

Rejected == [ok |-> FALSE]

\* Mutant: no event type check.
ParseDepthAnyEvent(frame) ==
    IF Opened(frame)
    THEN [ok |-> TRUE, set |-> frame.given \cap DepthFields,
          bids |-> Levels(frame.b), asks |-> Levels(frame.a)]
    ELSE Rejected

\* DepthParser::parse.  A member that is absent or has another type leaves its
\* field as constructed: zero, or empty.
ParseDepth(frame) ==
    IF Opened(frame) /\ EventType(frame) = "depthUpdate"
    THEN [ok |-> TRUE, set |-> frame.given \cap DepthFields,
          bids |-> Levels(frame.b), asks |-> Levels(frame.a)]
    ELSE Rejected

\* TradeParser::parse
ParseTrade(frame) ==
    IF Opened(frame) /\ EventType(frame) = "trade"
    THEN [ok |-> TRUE, set |-> frame.given \cap TradeFields]
    ELSE Rejected

\* The kind on_message takes a frame for, and what that kind's parser returns.
Kind(frame) == IF MentionsTrade(frame) THEN "trade" ELSE "depth"
Parse(frame) == IF MentionsTrade(frame) THEN ParseTrade(frame) ELSE ParseDepth(frame)
================================================================================
