------------------------------- MODULE MCLiveFeed -------------------------------
(* LiveFeed with frames of every outcome: bare and combined-stream events, events
   of other types, answers without an event, broken text, missing members, level
   arrays with malformed elements and with more levels than fit, and texts that
   mention "trade" or "data" where they mean something else. *)
EXTENDS LiveFeed

Level(price) == [price |-> price, malformed |-> FALSE]
Malformed == [price |-> 0, malformed |-> TRUE]

Says(event) == IF event = "trade" THEN {"trade"} ELSE {}

Frame(event, given, b, a) == [readable |-> TRUE, says |-> Says(event), top |-> event,
                              data |-> "absent", given |-> given, b |-> b, a |-> a]
Wrapped(f) == [f EXCEPT !.says = @ \cup {"data"}, !.top = "none", !.data = f.top]
Mentioning(f, string) == [f EXCEPT !.says = @ \cup {string}]

MCFrames ==
    { Wrapped(Frame("depthUpdate", DepthFields, <<Level(1), Malformed, Level(2), Level(3)>>,
                    <<Malformed, Malformed, Level(4)>>)),
      Frame("depthUpdate", {"s"}, <<>>, <<Level(4), Level(5), Level(6)>>),
      Wrapped(Frame("trade", TradeFields, <<>>, <<>>)),
      Frame("24hrTicker", {"E", "s"}, <<>>, <<>>),
      Mentioning(Frame("none", {}, <<>>, <<>>), "trade"),
      [Frame("trade", {}, <<>>, <<>>) EXCEPT !.readable = FALSE],
      Mentioning(Wrapped(Frame("depthUpdate", DepthFields, <<Level(1)>>, <<>>)), "trade"),
      Mentioning(Frame("trade", TradeFields, <<>>, <<>>), "data") }
================================================================================
