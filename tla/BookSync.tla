-------------------------------- MODULE BookSync --------------------------------
(***************************************************************************)
(* How the engine's OrderBook follows the exchange's.  The exchange numbers *)
(* its updates; an update reaches apply_update unless it is published while *)
(* the feed is reconnecting, dropped by the full queue or rejected by the   *)
(* parser, and it arrives without the levels beyond MAX_LEVELS that         *)
(* DepthParser::parse cuts off.  The feed thread and the queue keep the     *)
(* order, so publishing and applying is one step here; LivePipeline has the *)
(* steps between.  ProcessingThread never calls OrderBook::clear.           *)
(***************************************************************************)
EXTENDS OrderBook

CONSTANTS Prices,       \* the prices that occur
          MaxQty,       \* quantities are 0..MaxQty, 0 removes the level
          MaxLevels,    \* DepthUpdate::MAX_LEVELS
          MaxChanges,   \* bound: levels one update changes
          MaxUpdates    \* bound: updates the exchange publishes

ASSUME PricesAssumption == Prices \subseteq Nat \ {0}
ASSUME SyncBoundsAssumption == /\ MaxQty \in Nat \ {0} /\ MaxLevels \in Nat \ {0}
                               /\ MaxChanges \in Nat /\ MaxUpdates \in Nat

Sides == {"bids", "asks"}
Levels == Sides \X Prices

VARIABLES exchange,    \* the exchange's book: a quantity for every level
          exchangeId,  \* its last update id
          published,   \* history: the number of updates it has published
          connected,   \* the feed is reading
          book,        \* the engine's OrderBook
          stale,       \* history: levels whose latest change did not arrive
          touched,     \* history: levels some applied update has set
          thisSession, \* history: levels set since the last connect
          missed,      \* history: an update was lost since the last applied one
          warned       \* the last applied update logged a sequence gap

vars == <<exchange, exchangeId, published, connected, book, stale, touched, thisSession,
          missed, warned>>

\* No bid at or above an ask.
Uncrossed(ex) == \A p, q \in Prices : ex[<<"bids", p>>] > 0 /\ ex[<<"asks", q>>] > 0 => p < q

Init == /\ exchange \in {ex \in [Levels -> 0..MaxQty] : Uncrossed(ex)}
        /\ exchangeId = 0
        /\ published = 0
        /\ connected = TRUE
        /\ book = EmptyBook
        /\ stale = {} /\ touched = {} /\ thisSession = {}
        /\ missed = FALSE /\ warned = FALSE

\* The changes one update may carry: it sets some levels and leaves the
\* exchange's book uncrossed.
After(changes) == [l \in Levels |-> IF l \in DOMAIN changes THEN changes[l] ELSE exchange[l]]
Changes == UNION {[S -> 0..MaxQty] : S \in {T \in SUBSET Levels : Cardinality(T) \in 1..MaxChanges}}

OnSide(side, levels) == {l \in levels : l[1] = side}

\* DepthParser::parse stops at MAX_LEVELS levels of a side: which levels of a
\* set of changes can be left.
Kept(levels) ==
    {K \in SUBSET levels :
        \A side \in Sides : Cardinality(OnSide(side, K)) =
                               Min({MaxLevels, Cardinality(OnSide(side, levels))})}

SideLevels(side, changes, kept) ==
    [p \in {l[2] : l \in OnSide(side, kept)} |-> changes[<<side, p>>]]

Publish(changes, ids) ==
    /\ published < MaxUpdates
    /\ Uncrossed(After(changes))
    /\ exchange' = After(changes)
    /\ exchangeId' = exchangeId + ids
    /\ published' = published + 1
    /\ UNCHANGED connected

\* The update arrives: parse, then apply_update.
Deliver(changes, ids) ==
    /\ connected
    /\ Publish(changes, ids)
    /\ \E kept \in Kept(DOMAIN changes) :
          LET update == [first |-> exchangeId + 1, last |-> exchangeId + ids,
                         bids |-> SideLevels("bids", changes, kept),
                         asks |-> SideLevels("asks", changes, kept)]
          IN /\ book' = ApplyUpdate(book, update)
             /\ warned' = Gap(book, update)
             /\ stale' = (stale \cup DOMAIN changes) \ kept
             /\ touched' = touched \cup kept
             /\ thisSession' = thisSession \cup kept
    /\ missed' = FALSE

\* The update does not arrive: queue full, parse error, or no connection.
Lose(changes, ids) ==
    /\ Publish(changes, ids)
    /\ stale' = stale \cup DOMAIN changes
    /\ missed' = TRUE
    /\ UNCHANGED <<book, touched, thisSession, warned>>

Disconnect == /\ connected
              /\ connected' = FALSE
              /\ UNCHANGED <<exchange, exchangeId, published, book, stale, touched, thisSession,
                             missed, warned>>

\* Mutant: reconnecting clears last_update_id_.
ReconnectForgets == /\ ~connected
                    /\ connected' = TRUE
                    /\ thisSession' = {}
                    /\ book' = [book EXCEPT !.lastId = 0]
                    /\ UNCHANGED <<exchange, exchangeId, published, stale, touched, missed, warned>>

\* A new session starts; the book is left as it is.
Reconnect == /\ ~connected
             /\ connected' = TRUE
             /\ thisSession' = {}
             /\ UNCHANGED <<exchange, exchangeId, published, book, stale, touched, missed, warned>>

Next == \/ \E changes \in Changes, ids \in 1..2 : Deliver(changes, ids) \/ Lose(changes, ids)
        \/ Disconnect
        \/ Reconnect

Spec == Init /\ [][Next]_vars

--------------------------------------------------------------------------------
Held(side, p) == IF p \in DOMAIN book[side] THEN book[side][p] ELSE 0

\* A book has only positive quantities at prices that were sent, and its ids and
\* counts are not ahead of the exchange.
TypeOK == /\ exchange \in [Levels -> 0..MaxQty] /\ exchangeId \in Nat
          /\ published \in 0..MaxUpdates
          /\ connected \in BOOLEAN /\ missed \in BOOLEAN /\ warned \in BOOLEAN
          /\ \A side \in Sides : /\ DOMAIN book[side] \subseteq Prices
                                 /\ book[side] \in [DOMAIN book[side] -> 1..MaxQty]
          /\ book.lastId \in 0..exchangeId /\ book.count \in 0..published
          /\ stale \subseteq Levels /\ touched \subseteq Levels /\ thisSession \subseteq touched

\* The book is wrong only where something was lost: a level whose latest change
\* arrived has the exchange's quantity, whatever was lost before, on other
\* levels or in earlier sessions; and the book has no level it was never sent.
WrongOnlyWhereLost ==
    \A side \in Sides, p \in Prices :
        /\ (<<side, p>> \in touched /\ <<side, p>> \notin stale)
              => Held(side, p) = exchange[<<side, p>>]
        /\ <<side, p>> \notin touched => p \notin DOMAIN book[side]

\* While nothing was lost or cut off, bids and asks do not cross, so spread()
\* is positive or a side is empty.
UncrossedWhileInSync ==
    stale = {} => OneSided(book) \/ Spread(book) > 0

\* last_update_id_ is behind the exchange exactly when updates were lost since
\* the last one apply_update saw, and is 0 exactly before the first one.
LastIdShowsLoss ==
    /\ book.count > 0 <=> book.lastId > 0
    /\ book.count > 0 => (missed <=> book.lastId < exchangeId)

\* The inductive invariant of the book: the exchange never crosses its own book,
\* and last_update_id_ tells what the gap warning needs to know.
SyncInvariant == TypeOK /\ Uncrossed(exchange) /\ WrongOnlyWhereLost /\ LastIdShowsLoss

\* The gap warning is exact: apply_update warns if and only if updates were lost
\* since the last one it applied (and there was one), reconnections included.
GapWarningExact ==
    [][book' # book => (warned' <=> missed /\ book.count > 0)]_vars

\* "Reset the entire book (e.g., on reconnect or snapshot)": once a session has
\* delivered an update, the book holds only levels received in that session.
FreshAfterReconnect ==
    thisSession # {} => \A side \in Sides : \A p \in DOMAIN book[side] : <<side, p>> \in thisSession
================================================================================
