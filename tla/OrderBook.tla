-------------------------------- MODULE OrderBook -------------------------------
(***************************************************************************)
(* The order book of src/src/engine/order_book.cpp as a value.  One side   *)
(* is a function from the prices it holds to their quantities (bids_ and   *)
(* asks_ are std::maps); prices and quantities are whole numbers.  Where   *)
(* the code divides, the operator returns <<numerator, denominator>>.      *)
(***************************************************************************)
EXTENDS Integers, FiniteSetsExt

EmptySide == [p \in {} |-> 0]

\* A book as constructed.
EmptyBook == [bids |-> EmptySide, asks |-> EmptySide, lastId |-> 0, count |-> 0]

\* Mutant: a quantity of zero is stored instead of removing the level.
ApplyLevelsKeepZero(side, levels) ==
    [p \in DOMAIN side \cup DOMAIN levels |->
        IF p \in DOMAIN levels THEN levels[p] ELSE side[p]]

\* Mutant: a quantity of zero leaves the level as it is.
ApplyLevelsNoErase(side, levels) ==
    [p \in DOMAIN side \cup {q \in DOMAIN levels : levels[q] # 0} |->
        IF p \in DOMAIN levels /\ levels[p] # 0 THEN levels[p] ELSE side[p]]

\* One loop of apply_update: a level with quantity 0 is erased, any other is
\* inserted or overwritten.
ApplyLevels(side, levels) ==
    [p \in {q \in DOMAIN side \cup DOMAIN levels : q \in DOMAIN levels => levels[q] # 0} |->
        IF p \in DOMAIN levels THEN levels[p] ELSE side[p]]

\* Mutant: a gap of exactly one update goes unnoticed.
GapOffByOne(book, update) == book.lastId > 0 /\ update.first > book.lastId + 2

\* The condition of the gap warning.
Gap(book, update) == book.lastId > 0 /\ update.first > book.lastId + 1

\* apply_update.  The warning is the only consequence of a gap.
ApplyUpdate(book, update) ==
    [bids |-> ApplyLevels(book.bids, update.bids),
     asks |-> ApplyLevels(book.asks, update.asks),
     lastId |-> update.last,
     count |-> book.count + 1]

BestBid(book) == IF book.bids = EmptySide THEN 0 ELSE Max(DOMAIN book.bids)
BestAsk(book) == IF book.asks = EmptySide THEN 0 ELSE Min(DOMAIN book.asks)

OneSided(book) == book.bids = EmptySide \/ book.asks = EmptySide

\* spread(), and mid_price() doubled so that it is a whole number.
Spread(book) == IF OneSided(book) THEN 0 ELSE BestAsk(book) - BestBid(book)
TwiceMid(book) == IF OneSided(book) THEN 0 ELSE BestBid(book) + BestAsk(book)

\* total_bid_qty() and total_ask_qty()
TotalQty(side) == SumFunction(side)

\* The prices of the first n levels of a side in the order of its map.
TopBids(side, n) == {p \in DOMAIN side : Cardinality({q \in DOMAIN side : q > p}) < n}
TopAsks(side, n) == {p \in DOMAIN side : Cardinality({q \in DOMAIN side : q < p}) < n}

\* bid_vwap(n) and ask_vwap(n) on those levels.
Vwap(side, top) ==
    LET sumPQ == MapThenSumSet(LAMBDA p : p * side[p], top)
        sumQ == MapThenSumSet(LAMBDA p : side[p], top)
    IN IF sumQ > 0 THEN <<sumPQ, sumQ>> ELSE <<0, 1>>
================================================================================
