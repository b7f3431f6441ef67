----------------------------- MODULE BookSync_proofs -----------------------------
(***************************************************************************)
(* Proofs about BookSync for any set of prices, any quantities and any      *)
(* number of updates: where the book can be wrong, when it can cross, and   *)
(* what the gap warning knows.                                              *)
(***************************************************************************)
EXTENDS BookSync, LoopTheorems

\* A set of natural numbers below a bound has a greatest element.
LEMMA GreatestBelow ==
    ASSUME NEW T \in SUBSET Nat, T # {}, NEW b \in Nat, \A x \in T : x < b
    PROVE  \E x \in T : \A y \in T : x >= y
<1> DEFINE D == {b - x : x \in T}
<1>1. D \in SUBSET Nat /\ D # {}
  <2>1. ASSUME NEW x \in T PROVE b - x \in Nat
    <3>1. x \in Nat /\ x < b
      OBVIOUS
    <3> QED BY <3>1
  <2>2. PICK x \in T : TRUE
    OBVIOUS
  <2>3. b - x \in D
    OBVIOUS
  <2> QED BY <2>1, <2>3
<1>2. PICK d \in D : \A e \in D : d <= e
  <2> HIDE DEF D
  <2> QED BY <1>1, LeastNatural
<1>3. PICK x \in T : d = b - x
  BY <1>2
<1>4. ASSUME NEW y \in T PROVE x >= y
  <2>1. b - y \in D
    OBVIOUS
  <2>2. b - x <= b - y
    BY <1>2, <1>3, <2>1
  <2> QED BY <2>2
<1> QED BY <1>4

\* An update sets levels of the book to quantities.
LEMMA ChangesProperties ==
    ASSUME NEW changes \in Changes
    PROVE  /\ DOMAIN changes \subseteq Levels
           /\ \A l \in DOMAIN changes : changes[l] \in 0..MaxQty
BY DEF Changes

\* The levels of a side that the parser keeps, as apply_update gets them.
LEMMA SideLevelsProperties ==
    ASSUME NEW changes \in Changes, NEW kept \in SUBSET DOMAIN changes, NEW side \in Sides
    PROVE  /\ DOMAIN SideLevels(side, changes, kept) \subseteq Prices
           /\ \A p : p \in DOMAIN SideLevels(side, changes, kept) <=> <<side, p>> \in kept
           /\ \A p \in DOMAIN SideLevels(side, changes, kept) :
                 /\ SideLevels(side, changes, kept)[p] = changes[<<side, p>>]
                 /\ SideLevels(side, changes, kept)[p] \in 0..MaxQty
<1>1. kept \subseteq Levels
  BY ChangesProperties
<1>2. ASSUME NEW p PROVE p \in DOMAIN SideLevels(side, changes, kept) <=> <<side, p>> \in kept
  <2>1. p \in DOMAIN SideLevels(side, changes, kept) <=> \E l \in kept : l[1] = side /\ l[2] = p
    BY DEF SideLevels, OnSide
  <2>2. \A l \in kept : l = <<l[1], l[2]>>
    BY <1>1 DEF Levels
  <2> QED BY <2>1, <2>2
<1>3. ASSUME NEW p \in DOMAIN SideLevels(side, changes, kept)
      PROVE  /\ p \in Prices
             /\ SideLevels(side, changes, kept)[p] = changes[<<side, p>>]
             /\ SideLevels(side, changes, kept)[p] \in 0..MaxQty
  <2>1. <<side, p>> \in kept
    BY <1>2
  <2>2. p \in Prices
    BY <1>1, <2>1 DEF Levels
  <2>3. SideLevels(side, changes, kept)[p] = changes[<<side, p>>]
    BY DEF SideLevels
  <2> QED BY <2>1, <2>2, <2>3, ChangesProperties
<1> QED BY <1>2, <1>3

LEMMA SyncInit == Init => SyncInvariant
<1> SUFFICES ASSUME Init PROVE SyncInvariant
  OBVIOUS
<1> USE SyncBoundsAssumption DEF Init, EmptyBook, EmptySide
<1>1. TypeOK
  <2>1. \A side \in Sides : /\ DOMAIN book[side] \subseteq Prices
                            /\ book[side] \in [DOMAIN book[side] -> 1..MaxQty]
    <3>1. book.bids = EmptySide /\ book.asks = EmptySide
      OBVIOUS
    <3>2. EmptySide \in [{} -> 1..MaxQty] /\ DOMAIN EmptySide = {}
      OBVIOUS
    <3> QED BY <3>1, <3>2 DEF Sides
  <2>2. /\ book.lastId \in 0..exchangeId /\ book.count \in 0..published
        /\ published \in 0..MaxUpdates /\ exchangeId \in Nat
    OBVIOUS
  <2> QED BY <2>1, <2>2, Zenon DEF TypeOK
<1>2. Uncrossed(exchange)
  OBVIOUS
<1>3. WrongOnlyWhereLost
  BY DEF WrongOnlyWhereLost, Sides
<1>4. LastIdShowsLoss
  BY DEF LastIdShowsLoss
<1> QED BY <1>1, <1>2, <1>3, <1>4 DEF SyncInvariant

\* Publishing: the exchange's book and ids.
LEMMA PublishKeeps ==
    ASSUME TypeOK, NEW changes \in Changes, NEW ids \in 1..2, Publish(changes, ids)
    PROVE  /\ exchange' \in [Levels -> 0..MaxQty]
           /\ \A l \in DOMAIN changes : exchange'[l] = changes[l]
           /\ \A l \in Levels \ DOMAIN changes : exchange'[l] = exchange[l]
           /\ Uncrossed(exchange')
           /\ exchangeId' \in Nat /\ exchangeId' > exchangeId
           /\ published' \in 0..MaxUpdates /\ published' = published + 1
           /\ connected' \in BOOLEAN
<1>1. exchange' = After(changes) /\ Uncrossed(After(changes))
  BY DEF Publish
<1>2. After(changes) \in [Levels -> 0..MaxQty]
  BY ChangesProperties DEF After, TypeOK
<1>3. \A l \in Levels : After(changes)[l] = IF l \in DOMAIN changes THEN changes[l] ELSE exchange[l]
  BY DEF After
<1>4. /\ exchangeId' \in Nat /\ exchangeId' > exchangeId
      /\ published' \in 0..MaxUpdates /\ published' = published + 1
      /\ connected' \in BOOLEAN
  BY SyncBoundsAssumption DEF Publish, TypeOK
<1> QED BY <1>1, <1>2, <1>3, <1>4, ChangesProperties

\* An update arrives and is applied.
LEMMA DeliverKeeps ==
    ASSUME SyncInvariant, NEW changes \in Changes, NEW ids \in 1..2, Deliver(changes, ids)
    PROVE  SyncInvariant' /\ (warned' <=> missed /\ book.count > 0)
<1>1. PICK kept \in Kept(DOMAIN changes) :
        LET update == [first |-> exchangeId + 1, last |-> exchangeId + ids,
                       bids |-> SideLevels("bids", changes, kept),
                       asks |-> SideLevels("asks", changes, kept)]
        IN /\ book' = ApplyUpdate(book, update)
           /\ warned' = Gap(book, update)
           /\ stale' = (stale \cup DOMAIN changes) \ kept
           /\ touched' = touched \cup kept
           /\ thisSession' = thisSession \cup kept
  BY DEF Deliver
<1>2. kept \in SUBSET DOMAIN changes /\ kept \subseteq Levels
  BY ChangesProperties DEF Kept
<1>3. /\ TypeOK /\ WrongOnlyWhereLost /\ LastIdShowsLoss
      /\ Publish(changes, ids) /\ missed' = FALSE
  BY DEF SyncInvariant, Deliver
<1>4. /\ exchange' \in [Levels -> 0..MaxQty]
      /\ \A l \in DOMAIN changes : exchange'[l] = changes[l]
      /\ \A l \in Levels \ DOMAIN changes : exchange'[l] = exchange[l]
      /\ Uncrossed(exchange')
      /\ exchangeId' \in Nat
      /\ published' \in 0..MaxUpdates /\ published' = published + 1
      /\ connected' \in BOOLEAN
  BY <1>3, PublishKeeps
<1>5. exchangeId' = exchangeId + ids
  BY <1>3 DEF Publish
<1>6. /\ book'.lastId = exchangeId + ids /\ book'.count = book.count + 1
      /\ warned' = (book.lastId > 0 /\ exchangeId + 1 > book.lastId + 1)
  BY <1>1 DEF ApplyUpdate, Gap
<1>7. \A side \in Sides :
         book'[side] = ApplyLevels(book[side], SideLevels(side, changes, kept))
  BY <1>1 DEF ApplyUpdate, Sides
<1>8. ASSUME NEW side \in Sides, NEW p
      PROVE  /\ <<side, p>> \in kept => (p \in DOMAIN book'[side] <=> changes[<<side, p>>] # 0)
             /\ <<side, p>> \notin kept => (p \in DOMAIN book'[side] <=> p \in DOMAIN book[side])
             /\ p \in DOMAIN book'[side] =>
                   book'[side][p] = IF <<side, p>> \in kept THEN changes[<<side, p>>]
                                    ELSE book[side][p]
  <2> DEFINE levels == SideLevels(side, changes, kept)
  <2>1. /\ p \in DOMAIN levels <=> <<side, p>> \in kept
        /\ p \in DOMAIN levels => levels[p] = changes[<<side, p>>]
    BY <1>2, <1>8, SideLevelsProperties
  <2>2. book'[side] = ApplyLevels(book[side], levels)
    BY <1>7, <1>8
  <2> HIDE DEF levels
  <2>3. /\ p \in DOMAIN book'[side] <=>
              p \in DOMAIN book[side] \cup DOMAIN levels /\ (p \in DOMAIN levels => levels[p] # 0)
        /\ p \in DOMAIN book'[side] =>
              book'[side][p] = IF p \in DOMAIN levels THEN levels[p] ELSE book[side][p]
    <3> DEFINE old == book[side]
               new == book'[side]
    <3>1. new = ApplyLevels(old, levels)
      BY <2>2
    <3> HIDE DEF old, new
    <3>2. /\ p \in DOMAIN new <=>
                p \in DOMAIN old \cup DOMAIN levels /\ (p \in DOMAIN levels => levels[p] # 0)
          /\ p \in DOMAIN new => new[p] = IF p \in DOMAIN levels THEN levels[p] ELSE old[p]
      BY <3>1 DEF ApplyLevels
    <3> QED BY <3>2 DEF old, new
  <2> QED BY <2>1, <2>3
<1>9. \A side \in Sides : /\ DOMAIN book'[side] \subseteq Prices
                          /\ book'[side] \in [DOMAIN book'[side] -> 1..MaxQty]
  <2> SUFFICES ASSUME NEW side \in Sides
               PROVE  /\ DOMAIN book'[side] \subseteq Prices
                      /\ book'[side] \in [DOMAIN book'[side] -> 1..MaxQty]
    OBVIOUS
  <2>1. ASSUME NEW p \in DOMAIN book'[side] PROVE p \in Prices /\ book'[side][p] \in 1..MaxQty
    <3>1. CASE <<side, p>> \in kept
      <4>1. book'[side][p] = changes[<<side, p>>] /\ changes[<<side, p>>] # 0
        BY <1>8, <2>1, <3>1
      <4>2. p \in Prices /\ changes[<<side, p>>] \in 0..MaxQty
        BY <1>2, <3>1, ChangesProperties DEF Levels
      <4> QED BY <4>1, <4>2, SyncBoundsAssumption
    <3>2. CASE <<side, p>> \notin kept
      BY <1>3, <1>8, <2>1, <3>2 DEF TypeOK
    <3> QED BY <3>1, <3>2
  <2>2. book'[side] = [p \in DOMAIN book'[side] |-> book'[side][p]]
    BY <1>7 DEF ApplyLevels
  <2> QED BY <2>1, <2>2
<1>10. TypeOK'
  <2>1. book'.lastId \in 0..exchangeId'
    BY <1>4, <1>5, <1>6
  <2>4. book'.count \in 0..published'
    BY <1>3, <1>4, <1>6 DEF TypeOK
  <2>2. /\ stale' \subseteq Levels /\ touched' \subseteq Levels /\ thisSession' \subseteq touched'
    BY <1>1, <1>2, <1>3, ChangesProperties DEF TypeOK
  <2>3. warned' \in BOOLEAN
    BY <1>6, Zenon
  <2> QED BY <1>3, <1>4, <1>9, <2>1, <2>2, <2>3, <2>4 DEF TypeOK
<1>11. WrongOnlyWhereLost'
  <2> SUFFICES ASSUME NEW side \in Sides, NEW p \in Prices
               PROVE  /\ (<<side, p>> \in touched' /\ <<side, p>> \notin stale')
                            => Held(side, p)' = exchange'[<<side, p>>]
                      /\ <<side, p>> \notin touched' => p \notin DOMAIN book'[side]
    BY Zenon DEF WrongOnlyWhereLost
  <2>1. <<side, p>> \in Levels
    BY DEF Levels
  <2>2. Held(side, p)' = IF p \in DOMAIN book'[side] THEN book'[side][p] ELSE 0
    BY DEF Held
  <2>3. CASE <<side, p>> \in kept
    <3>1. exchange'[<<side, p>>] = changes[<<side, p>>]
      BY <1>2, <1>4, <2>3
    <3>2. Held(side, p)' = changes[<<side, p>>]
      BY <1>8, <2>2, <2>3
    <3> QED BY <1>1, <2>3, <3>1, <3>2
  <2>4. CASE <<side, p>> \notin kept
    <3>1. Held(side, p)' = Held(side, p)
      BY <1>8, <2>2, <2>4 DEF Held
    <3>2. <<side, p>> \in touched' <=> <<side, p>> \in touched
      BY <1>1, <2>4
    <3>3. <<side, p>> \notin stale' => <<side, p>> \notin stale /\ <<side, p>> \notin DOMAIN changes
      BY <1>1, <2>4
    <3>4. <<side, p>> \notin stale' => exchange'[<<side, p>>] = exchange[<<side, p>>]
      BY <1>4, <2>1, <3>3
    <3> QED BY <1>3, <1>8, <2>4, <3>1, <3>2, <3>3, <3>4 DEF WrongOnlyWhereLost
  <2> QED BY <2>3, <2>4
<1>12. LastIdShowsLoss'
  BY <1>3, <1>5, <1>6 DEF LastIdShowsLoss, TypeOK
<1>13. warned' <=> missed /\ book.count > 0
  <2>1. book.lastId > 0 /\ exchangeId + 1 > book.lastId + 1 <=> missed /\ book.count > 0
    BY <1>3 DEF LastIdShowsLoss, TypeOK
  <2> QED BY <1>6, <2>1
<1> QED BY <1>4, <1>10, <1>11, <1>12, <1>13 DEF SyncInvariant

\* An update is lost.
LEMMA LoseKeeps ==
    ASSUME SyncInvariant, NEW changes \in Changes, NEW ids \in 1..2, Lose(changes, ids)
    PROVE  SyncInvariant' /\ book' = book
<1>1. /\ TypeOK /\ WrongOnlyWhereLost /\ LastIdShowsLoss
      /\ Publish(changes, ids) /\ missed' = TRUE /\ stale' = stale \cup DOMAIN changes
      /\ book' = book /\ touched' = touched /\ thisSession' = thisSession /\ warned' = warned
  BY DEF SyncInvariant, Lose
<1>2. /\ exchange' \in [Levels -> 0..MaxQty]
      /\ \A l \in Levels \ DOMAIN changes : exchange'[l] = exchange[l]
      /\ Uncrossed(exchange')
      /\ exchangeId' \in Nat /\ exchangeId' > exchangeId
      /\ published' \in 0..MaxUpdates /\ published' = published + 1
      /\ connected' \in BOOLEAN
  BY <1>1, PublishKeeps
<1>3. TypeOK'
  <2>1. /\ book.lastId \in 0..exchangeId' /\ book.count \in 0..published'
        /\ missed' \in BOOLEAN /\ warned \in BOOLEAN
    BY <1>1, <1>2 DEF TypeOK
  <2>2. stale' \subseteq Levels
    BY <1>1, ChangesProperties DEF TypeOK
  <2> QED BY <1>1, <1>2, <2>1, <2>2 DEF TypeOK
<1>4. WrongOnlyWhereLost'
  <2> SUFFICES ASSUME NEW side \in Sides, NEW p \in Prices
               PROVE  /\ (<<side, p>> \in touched /\ <<side, p>> \notin stale')
                            => Held(side, p)' = exchange'[<<side, p>>]
                      /\ <<side, p>> \notin touched => p \notin DOMAIN book[side]
    BY <1>1, Zenon DEF WrongOnlyWhereLost
  <2>1. Held(side, p)' = Held(side, p)
    BY <1>1 DEF Held
  <2>2. <<side, p>> \notin stale' => <<side, p>> \notin stale /\ exchange'[<<side, p>>] = exchange[<<side, p>>]
    BY <1>1, <1>2 DEF Levels
  <2> QED BY <1>1, <2>1, <2>2 DEF WrongOnlyWhereLost
<1>5. LastIdShowsLoss'
  BY <1>1, <1>2 DEF LastIdShowsLoss, TypeOK
<1> QED BY <1>1, <1>2, <1>3, <1>4, <1>5 DEF SyncInvariant

\* The connection comes and goes.
LEMMA ConnectionKeeps ==
    ASSUME SyncInvariant, Disconnect \/ Reconnect \/ UNCHANGED vars
    PROVE  SyncInvariant' /\ book' = book
<1>1. /\ exchange' = exchange /\ exchangeId' = exchangeId /\ published' = published
      /\ book' = book /\ stale' = stale /\ touched' = touched
      /\ missed' = missed /\ warned' = warned
  BY DEF Disconnect, Reconnect, vars
<1>2. connected' \in BOOLEAN /\ thisSession' \subseteq touched
  BY DEF SyncInvariant, TypeOK, Disconnect, Reconnect, vars
<1>3. TypeOK'
  BY <1>1, <1>2 DEF SyncInvariant, TypeOK
<1>4. Uncrossed(exchange')
  BY <1>1 DEF SyncInvariant
<1>5. WrongOnlyWhereLost'
  BY <1>1 DEF SyncInvariant, WrongOnlyWhereLost, Held
<1>6. LastIdShowsLoss'
  BY <1>1 DEF SyncInvariant, LastIdShowsLoss
<1> QED BY <1>1, <1>3, <1>4, <1>5, <1>6 DEF SyncInvariant

\* A step that changes the book is an update, and it warns exactly after a loss.
LEMMA SyncStep ==
    ASSUME SyncInvariant, [Next]_vars
    PROVE  /\ SyncInvariant'
           /\ book' # book => (warned' <=> missed /\ book.count > 0)
<1>1. ASSUME NEW changes \in Changes, NEW ids \in 1..2, Deliver(changes, ids)
      PROVE  SyncInvariant' /\ (warned' <=> missed /\ book.count > 0)
  BY <1>1, DeliverKeeps
<1>2. ASSUME NEW changes \in Changes, NEW ids \in 1..2, Lose(changes, ids)
      PROVE  SyncInvariant' /\ book' = book
  BY <1>2, LoseKeeps
<1>3. ASSUME Disconnect \/ Reconnect \/ UNCHANGED vars
      PROVE  SyncInvariant' /\ book' = book
  BY <1>3, ConnectionKeeps
<1> QED BY <1>1, <1>2, <1>3, Zenon DEF Next

\* The inductive invariant of the book holds however updates are delivered, cut
\* short by the parser or lost, and however often the feed reconnects.
THEOREM SyncInvariantHolds == Spec => []SyncInvariant
<1>1. SyncInvariant /\ [Next]_vars => SyncInvariant'
  BY SyncStep
<1> QED BY SyncInit, <1>1, PTL DEF Spec

\* apply_update leaves the book wrong only where something was lost.
THEOREM WrongOnlyWhereLostHolds == Spec => []WrongOnlyWhereLost
<1>1. SyncInvariant => WrongOnlyWhereLost
  BY DEF SyncInvariant
<1> QED BY <1>1, SyncInvariantHolds, PTL

\* While nothing was lost spread() is positive or a side is empty.
THEOREM UncrossedHolds == Spec => []UncrossedWhileInSync
<1>1. SyncInvariant => UncrossedWhileInSync
  <2> SUFFICES ASSUME SyncInvariant, stale = {}, ~OneSided(book)
               PROVE  Spread(book) > 0
    BY DEF UncrossedWhileInSync
  <2> DEFINE B == DOMAIN book.bids
             A == DOMAIN book.asks
  <2>1. B \subseteq Nat /\ A \subseteq Nat /\ B \subseteq Prices /\ A \subseteq Prices
    BY PricesAssumption DEF SyncInvariant, TypeOK, Sides
  <2>2. B # {} /\ A # {}
    <3>1. /\ book.bids \in [B -> 1..MaxQty] /\ book.asks \in [A -> 1..MaxQty]
      BY DEF SyncInvariant, TypeOK, Sides
    <3>2. book.bids # EmptySide /\ book.asks # EmptySide
      BY DEF OneSided
    <3> QED BY <3>1, <3>2 DEF EmptySide
  <2>3. ASSUME NEW side \in Sides, NEW p \in DOMAIN book[side] PROVE exchange[<<side, p>>] > 0
    <3>1. p \in Prices /\ book[side][p] \in 1..MaxQty
      BY <2>3 DEF SyncInvariant, TypeOK
    <3>2. Held(side, p) = exchange[<<side, p>>]
      BY <2>3, <3>1 DEF SyncInvariant, WrongOnlyWhereLost
    <3> QED BY <2>3, <3>1, <3>2, SyncBoundsAssumption DEF Held
  <2>4. ASSUME NEW p \in B, NEW q \in A PROVE p < q
    <3>1. exchange[<<"bids", p>>] > 0 /\ exchange[<<"asks", q>>] > 0
      BY <2>3 DEF Sides
    <3> QED BY <2>1, <3>1 DEF SyncInvariant, Uncrossed
  <2>5. Min(A) \in A
    <3>1. \E x \in A : \A y \in A : x <= y
      <4> HIDE DEF A
      <4> QED BY <2>1, <2>2, LeastNatural
    <3> QED BY <3>1 DEF Min
  <2>6. Max(B) \in B
    <3>1. \A x \in B : x < Min(A)
      BY <2>4, <2>5
    <3>2. Min(A) \in Nat
      BY <2>1, <2>5
    <3>3. \E x \in B : \A y \in B : x >= y
      <4> HIDE DEF A, B
      <4> QED BY <2>1, <2>2, <3>1, <3>2, GreatestBelow
    <3> QED BY <3>3 DEF Max
  <2>7. Max(B) < Min(A)
    BY <2>4, <2>5, <2>6
  <2>8. Spread(book) = Min(A) - Max(B)
    BY DEF Spread, BestAsk, BestBid, OneSided
  <2> QED BY <2>1, <2>5, <2>6, <2>7, <2>8
<1> QED BY <1>1, SyncInvariantHolds, PTL

\* The sequence gap warning of apply_update is logged exactly when updates were
\* lost since the last one applied, reconnections included.
THEOREM GapWarningHolds == Spec => GapWarningExact
<1>1. SyncInvariant /\ [Next]_vars
        => [book' # book => (warned' <=> missed /\ book.count > 0)]_vars
  BY SyncStep
<1> QED BY <1>1, SyncInvariantHolds, PTL DEF Spec, GapWarningExact
================================================================================
