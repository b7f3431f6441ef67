---------------------------- MODULE TradeWindow_proofs ---------------------------
(***************************************************************************)
(* Proofs about TradeWindow for any window, any limit of the average and    *)
(* any number of trades and resets: the incremental figures of the trade    *)
(* aggregator equal their definitions over the whole history.               *)
(***************************************************************************)
EXTENDS TradeWindow, LoopTheorems, SequenceTheorems, FiniteSetTheorems

--------------------------------------------------------------------------------
(* Sums.                                                                   *)

\* The running totals of std::accumulate.
Totals(q, f) == /\ f \in [0..Len(q) -> Nat] /\ f[0] = 0
                /\ \A n \in 1..Len(q) : f[n] = f[n - 1] + q[n]

\* std::accumulate is a loop over its deque.
LEMMA AccumulateTurns ==
    ASSUME NEW q \in Seq(Nat)
    PROVE  \E f : Totals(q, f) /\ Accumulate(q) = f[Len(q)]
<1> DEFINE N == Len(q)
           Loop(H) == H = [n \in 0..N |-> IF n = 0 THEN 0 ELSE H[n - 1] + q[n]]
           total == CHOOSE H : Loop(H)
<1>1. Accumulate(q) = total[N]
  BY Zenon DEF Accumulate
<1>2. N \in Nat /\ \A i \in 1..N : q[i] \in Nat
  OBVIOUS
<1> HIDE DEF N
<1>3. \E G : Loop(G)
  <2> DEFINE turn == [n \in 1..N |-> [s \in Nat |-> s + q[n]]]
  <2>1. turn \in Turns(N, Nat)
    BY <1>2 DEF Turns
  <2>2. PICK G : LoopRuns(N, Nat, 0, turn, G)
    <3> HIDE DEF turn
    <3> QED BY <1>2, <2>1, LoopExists
  <2>3. ASSUME NEW n \in 1..N PROVE G[n] = G[n - 1] + q[n]
    <3>1. n - 1 \in 0..N /\ G[n - 1] \in Nat /\ G[n] = turn[n][G[n - 1]]
      <4> HIDE DEF turn
      <4> QED BY <1>2, <2>2 DEF LoopRuns
    <3> QED BY <3>1
  <2>4. G \in [0..N -> Nat] /\ G[0] = 0
    BY <2>2 DEF LoopRuns
  <2>5. ASSUME NEW n \in 0..N PROVE G[n] = IF n = 0 THEN 0 ELSE G[n - 1] + q[n]
    <3>1. CASE n = 0
      BY <2>4, <3>1
    <3>2. CASE n # 0
      BY <1>2, <2>3, <3>2
    <3> QED BY <3>1, <3>2
  <2>6. Loop(G)
    BY <2>4, <2>5
  <2> HIDE DEF Loop
  <2> QED BY <2>6
<1>4. Loop(total)
  <2> HIDE DEF Loop
  <2> QED BY <1>3
<1> HIDE DEF total
<1>5. total[0] = 0 /\ DOMAIN total = 0..N /\ \A n \in 1..N : total[n] = total[n - 1] + q[n]
  <2>1. \A n \in 0..N : total[n] = IF n = 0 THEN 0 ELSE total[n - 1] + q[n]
    BY <1>4, Zenon
  <2>2. 0 \in 0..N /\ \A n \in 1..N : n \in 0..N /\ n # 0
    BY <1>2
  <2>3. DOMAIN total = 0..N
    BY <1>4, Zenon
  <2> HIDE DEF Loop
  <2> QED BY <2>1, <2>2, <2>3
<1>6. total = [n \in 0..N |-> total[n]]
  <2>1. total = [n \in 0..N |-> IF n = 0 THEN 0 ELSE total[n - 1] + q[n]]
    BY <1>4
  <2> QED BY <2>1, <1>5
<1> HIDE DEF Loop
<1> DEFINE T == {n \in Nat : n <= N => total[n] \in Nat}
<1>7. 0 \in T
  BY <1>5
<1>8. ASSUME NEW n \in Nat, n \in T PROVE n + 1 \in T
  <2> SUFFICES ASSUME n + 1 <= N PROVE total[n + 1] \in Nat
    OBVIOUS
  <2>1. n + 1 \in 1..N /\ total[n] \in Nat /\ total[n + 1] = total[n] + q[n + 1]
    BY <1>2, <1>5, <1>8
  <2> QED BY <1>2, <2>1
<1> HIDE DEF T
<1>9. Nat \subseteq T
  BY <1>7, <1>8, InductionOnSet
<1>10. \A n \in 0..N : total[n] \in Nat
  BY <1>2, <1>9 DEF T
<1>11. total \in [0..N -> Nat]
  BY <1>6, <1>10
<1>12. Totals(q, total)
  BY <1>5, <1>11 DEF Totals, N
<1> QED BY <1>1, <1>12 DEF N

\* Two loops with the same numbers, the first behind k zeros.
LEMMA AccumulateBehindZeros ==
    ASSUME NEW q \in Seq(Nat), NEW r \in Seq(Nat), NEW k \in Nat, Len(q) = k + Len(r),
           \A i \in 1..k : q[i] = 0,
           \A i \in 1..Len(r) : q[k + i] = r[i]
    PROVE  Accumulate(q) = Accumulate(r)
<1>1. PICK f : Totals(q, f) /\ Accumulate(q) = f[Len(q)]
  BY AccumulateTurns
<1>2. PICK g : Totals(r, g) /\ Accumulate(r) = g[Len(r)]
  BY AccumulateTurns
<1> DEFINE N == Len(r)
<1>3. N \in Nat /\ Len(q) = k + N
  OBVIOUS
<1>4. /\ f[0] = 0 /\ \A n \in 1..(k + N) : f[n] = f[n - 1] + q[n]
      /\ g \in [0..N -> Nat] /\ g[0] = 0 /\ \A n \in 1..N : g[n] = g[n - 1] + r[n]
  BY <1>1, <1>2 DEF Totals
<1> HIDE DEF N
<1> DEFINE T == {n \in Nat : n <= k => f[n] = 0}
<1>5. 0 \in T
  BY <1>4
<1>6. ASSUME NEW n \in Nat, n \in T PROVE n + 1 \in T
  <2> SUFFICES ASSUME n + 1 <= k PROVE f[n + 1] = 0
    OBVIOUS
  <2>1. n + 1 \in 1..(k + N) /\ n + 1 \in 1..k /\ f[n] = 0 /\ (n + 1) - 1 = n
    BY <1>3, <1>6
  <2> QED BY <1>4, <2>1
<1> HIDE DEF T
<1>7. k \in T
  BY <1>5, <1>6, InductionOnSet
<1>8. f[k] = 0
  BY <1>7 DEF T
<1> DEFINE U == {n \in Nat : n <= N => f[k + n] = g[n]}
<1>9. 0 \in U
  BY <1>4, <1>8
<1>10. ASSUME NEW n \in Nat, n \in U PROVE n + 1 \in U
  <2> SUFFICES ASSUME n + 1 <= N PROVE f[k + (n + 1)] = g[n + 1]
    OBVIOUS
  <2>1. /\ k + (n + 1) \in 1..(k + N) /\ n + 1 \in 1..N /\ f[k + n] = g[n]
        /\ (n + 1) - 1 = n /\ (k + (n + 1)) - 1 = k + n
    BY <1>3, <1>10
  <2>2. f[k + (n + 1)] = f[k + n] + q[k + (n + 1)] /\ g[n + 1] = g[n] + r[n + 1]
    BY <1>4, <2>1
  <2>3. q[k + (n + 1)] = r[n + 1]
    BY <2>1 DEF N
  <2> QED BY <2>1, <2>2, <2>3
<1> HIDE DEF U
<1>11. N \in U
  BY <1>3, <1>9, <1>10, InductionOnSet
<1>12. f[k + N] = g[N]
  BY <1>3, <1>11 DEF U
<1> QED BY <1>1, <1>2, <1>3, <1>12 DEF N

\* One more number.
LEMMA AccumulateAppend ==
    ASSUME NEW q \in Seq(Nat), NEW r \in Seq(Nat), Len(r) = Len(q) + 1,
           \A i \in 1..Len(q) : r[i] = q[i]
    PROVE  /\ Accumulate(r) = Accumulate(q) + r[Len(r)]
           /\ Accumulate(q) \in Nat
<1>1. PICK f : Totals(q, f) /\ Accumulate(q) = f[Len(q)]
  BY AccumulateTurns
<1>2. PICK g : Totals(r, g) /\ Accumulate(r) = g[Len(r)]
  BY AccumulateTurns
<1> DEFINE N == Len(q)
<1>3. N \in Nat /\ Len(r) = N + 1
  OBVIOUS
<1>4. /\ f \in [0..N -> Nat] /\ f[0] = 0 /\ \A n \in 1..N : f[n] = f[n - 1] + q[n]
      /\ g[0] = 0 /\ \A n \in 1..(N + 1) : g[n] = g[n - 1] + r[n]
  BY <1>1, <1>2 DEF Totals
<1>5. \A i \in 1..N : r[i] = q[i]
  OBVIOUS
<1> HIDE DEF N
<1> DEFINE T == {n \in Nat : n <= N => f[n] = g[n]}
<1>6. 0 \in T
  BY <1>4
<1>7. ASSUME NEW n \in Nat, n \in T PROVE n + 1 \in T
  <2> SUFFICES ASSUME n + 1 <= N PROVE f[n + 1] = g[n + 1]
    OBVIOUS
  <2>1. N \in Nat /\ n <= N /\ f[n] = g[n]
    BY <1>3, <1>7
  <2>2. n + 1 \in 1..N /\ n + 1 \in 1..(N + 1) /\ (n + 1) - 1 = n
    BY <2>1
  <2> QED BY <1>4, <1>5, <2>1, <2>2
<1> HIDE DEF T
<1>8. N \in T
  BY <1>3, <1>6, <1>7, InductionOnSet
<1>9. f[N] = g[N] /\ f[N] \in Nat
  BY <1>3, <1>4, <1>8 DEF T
<1>10. g[N + 1] = g[N] + r[N + 1]
  <2>1. N + 1 \in 1..(N + 1) /\ (N + 1) - 1 = N
    BY <1>3
  <2> QED BY <1>4, <2>1
<1> QED BY <1>1, <1>2, <1>3, <1>9, <1>10 DEF N

\* The loop over sums of two numbers.
LEMMA AccumulateSums ==
    ASSUME NEW p \in Seq(Nat), NEW q \in Seq(Nat), NEW r \in Seq(Nat),
           Len(p) = Len(r), Len(q) = Len(r),
           \A i \in 1..Len(r) : r[i] = p[i] + q[i]
    PROVE  Accumulate(r) = Accumulate(p) + Accumulate(q)
<1>1. PICK f : Totals(p, f) /\ Accumulate(p) = f[Len(p)]
  BY AccumulateTurns
<1>2. PICK g : Totals(q, g) /\ Accumulate(q) = g[Len(q)]
  BY AccumulateTurns
<1>3. PICK h : Totals(r, h) /\ Accumulate(r) = h[Len(r)]
  BY AccumulateTurns
<1> DEFINE N == Len(r)
<1>4. /\ N \in Nat /\ Len(p) = N /\ Len(q) = N
      /\ \A i \in 1..N : p[i] \in Nat /\ q[i] \in Nat /\ r[i] = p[i] + q[i]
  OBVIOUS
<1>5. /\ f \in [0..N -> Nat] /\ f[0] = 0 /\ \A n \in 1..N : f[n] = f[n - 1] + p[n]
      /\ g \in [0..N -> Nat] /\ g[0] = 0 /\ \A n \in 1..N : g[n] = g[n - 1] + q[n]
      /\ h[0] = 0 /\ \A n \in 1..N : h[n] = h[n - 1] + r[n]
  BY <1>1, <1>2, <1>3 DEF Totals
<1> HIDE DEF N
<1> DEFINE T == {n \in Nat : n <= N => h[n] = f[n] + g[n]}
<1>6. 0 \in T
  BY <1>5
<1>7. ASSUME NEW n \in Nat, n \in T PROVE n + 1 \in T
  <2> SUFFICES ASSUME n + 1 <= N PROVE h[n + 1] = f[n + 1] + g[n + 1]
    OBVIOUS
  <2>1. n + 1 \in 1..N /\ n \in 0..N /\ h[n] = f[n] + g[n] /\ (n + 1) - 1 = n
    BY <1>4, <1>7
  <2>2. /\ h[n + 1] = h[n] + r[n + 1] /\ f[n + 1] = f[n] + p[n + 1] /\ g[n + 1] = g[n] + q[n + 1]
        /\ f[n] \in Nat /\ g[n] \in Nat
    BY <1>5, <2>1
  <2>3. p[n + 1] \in Nat /\ q[n + 1] \in Nat /\ r[n + 1] = p[n + 1] + q[n + 1]
    BY <1>4, <2>1
  <2>4. h[n + 1] = (f[n] + g[n]) + (p[n + 1] + q[n + 1])
    BY <2>1, <2>2, <2>3, Zenon
  <2>5. (f[n] + g[n]) + (p[n + 1] + q[n + 1]) = (f[n] + p[n + 1]) + (g[n] + q[n + 1])
    <3> DEFINE a == f[n]
               b == g[n]
               c == p[n + 1]
               d == q[n + 1]
    <3>1. a \in Nat /\ b \in Nat /\ c \in Nat /\ d \in Nat
      BY <2>2, <2>3
    <3> HIDE DEF a, b, c, d
    <3>2. (a + b) + (c + d) = (a + c) + (b + d)
      BY <3>1
    <3> QED BY <3>2 DEF a, b, c, d
  <2> QED BY <2>2, <2>4, <2>5, Zenon
<1> HIDE DEF T
<1>8. N \in T
  BY <1>4, <1>6, <1>7, InductionOnSet
<1> QED BY <1>1, <1>2, <1>3, <1>4, <1>8 DEF T, N

--------------------------------------------------------------------------------
(* Volumes.                                                                *)

Quantity(trades, places) == [i \in 1..Len(trades) |-> IF i \in places THEN trades[i].qty ELSE 0]

LEMMA QuantityTyped ==
    ASSUME NEW trades \in Seq(Entries), NEW places
    PROVE  /\ Quantity(trades, places) \in Seq(Nat)
           /\ Len(Quantity(trades, places)) = Len(trades)
           /\ Len(trades) \in Nat
           /\ \A i \in 1..Len(trades) : trades[i] \in Entries /\ trades[i].qty \in Nat
           /\ Volume(trades, places) = Accumulate(Quantity(trades, places))
<1>1. /\ Len(trades) \in Nat
      /\ \A i \in 1..Len(trades) : trades[i] \in Entries /\ trades[i].qty \in Nat
  <2>1. Len(trades) \in Nat /\ \A i \in 1..Len(trades) : trades[i] \in Entries
    OBVIOUS
  <2>2. \A t \in Entries : t.qty \in Nat
    BY DEF Entries
  <2> QED BY <2>1, <2>2
<1>2. Quantity(trades, places) \in [1..Len(trades) -> Nat]
  BY <1>1 DEF Quantity
<1>3. Quantity(trades, places) \in Seq(Nat) /\ Len(Quantity(trades, places)) = Len(trades)
  BY <1>1, <1>2, SeqDef
<1>4. Volume(trades, places) = Accumulate(Quantity(trades, places))
  BY Zenon DEF Volume, Quantity
<1> QED BY <1>1, <1>3, <1>4

\* A further trade adds its quantity where it is asked for.
LEMMA VolumeAppend ==
    ASSUME NEW trades \in Seq(Entries), NEW t \in Entries, NEW P, NEW Q,
           \A i \in 1..Len(trades) : i \in P <=> i \in Q
    PROVE  /\ Volume(Append(trades, t), Q)
                = Volume(trades, P) + (IF Len(trades) + 1 \in Q THEN t.qty ELSE 0)
           /\ Volume(trades, P) \in Nat
<1> DEFINE more == Append(trades, t)
           p == Quantity(trades, P)
           q == Quantity(more, Q)
<1>1. /\ more \in Seq(Entries) /\ Len(more) = Len(trades) + 1 /\ more[Len(trades) + 1] = t
      /\ \A i \in 1..Len(trades) : more[i] = trades[i]
  OBVIOUS
<1> HIDE DEF more
<1>2. /\ p \in Seq(Nat) /\ Len(p) = Len(trades) /\ Volume(trades, P) = Accumulate(p)
      /\ Len(trades) \in Nat
  BY QuantityTyped
<1>3. q \in Seq(Nat) /\ Len(q) = Len(trades) + 1 /\ Volume(more, Q) = Accumulate(q)
  BY <1>1, QuantityTyped
<1>4. \A i \in 1..Len(p) : q[i] = p[i]
  BY <1>1, <1>2 DEF Quantity
<1>5. q[Len(q)] = IF Len(trades) + 1 \in Q THEN t.qty ELSE 0
  BY <1>1, <1>2, <1>3 DEF Quantity
<1> HIDE DEF p, q
<1>6. Accumulate(q) = Accumulate(p) + q[Len(q)] /\ Accumulate(p) \in Nat
  BY <1>2, <1>3, <1>4, AccumulateAppend
<1> QED BY <1>2, <1>3, <1>5, <1>6 DEF more

\* A place counts once.
LEMMA VolumeUnion ==
    ASSUME NEW trades \in Seq(Entries), NEW P, NEW Q, NEW R,
           \A i \in 1..Len(trades) : /\ i \in R <=> i \in P \/ i \in Q
                                     /\ ~(i \in P /\ i \in Q)
    PROVE  Volume(trades, R) = Volume(trades, P) + Volume(trades, Q)
<1> DEFINE p == Quantity(trades, P)
           q == Quantity(trades, Q)
           r == Quantity(trades, R)
<1>1. /\ p \in Seq(Nat) /\ Len(p) = Len(trades) /\ Volume(trades, P) = Accumulate(p)
      /\ q \in Seq(Nat) /\ Len(q) = Len(trades) /\ Volume(trades, Q) = Accumulate(q)
      /\ r \in Seq(Nat) /\ Len(r) = Len(trades) /\ Volume(trades, R) = Accumulate(r)
  BY QuantityTyped
<1>2. \A i \in 1..Len(trades) : trades[i].qty \in Nat
  BY QuantityTyped
<1>3. \A i \in 1..Len(r) : r[i] = p[i] + q[i]
  BY <1>1, <1>2 DEF Quantity
<1> HIDE DEF p, q, r
<1> QED BY <1>1, <1>3, AccumulateSums

\* Trades at the front that are not asked for do not matter.
LEMMA VolumeSuffix ==
    ASSUME NEW trades \in Seq(Entries), NEW k \in Nat, k <= Len(trades), NEW P, NEW Q,
           \A i \in 1..k : i \notin P,
           \A i \in 1..(Len(trades) - k) : i \in Q <=> k + i \in P
    PROVE  Volume(SubSeq(trades, k + 1, Len(trades)), Q) = Volume(trades, P)
<1> DEFINE rest == SubSeq(trades, k + 1, Len(trades))
           p == Quantity(trades, P)
           q == Quantity(rest, Q)
<1>1. /\ rest \in Seq(Entries) /\ Len(rest) = Len(trades) - k
      /\ \A i \in 1..(Len(trades) - k) : rest[i] = trades[k + i]
  OBVIOUS
<1> HIDE DEF rest
<1>2. /\ p \in Seq(Nat) /\ Len(p) = Len(trades) /\ Volume(trades, P) = Accumulate(p)
      /\ q \in Seq(Nat) /\ Len(q) = Len(trades) - k /\ Volume(rest, Q) = Accumulate(q)
      /\ Len(trades) \in Nat
  BY <1>1, QuantityTyped
<1>3. ASSUME NEW i \in 1..k PROVE p[i] = 0
  <2>1. i \in 1..Len(trades) /\ i \notin P
    BY <1>2
  <2> QED BY <2>1 DEF Quantity
<1>4. \A i \in 1..Len(q) : p[k + i] = q[i]
  BY <1>1, <1>2 DEF Quantity
<1>5. Len(p) = k + Len(q)
  BY <1>2
<1> HIDE DEF p, q
<1> QED BY <1>2, <1>3, <1>4, <1>5, AccumulateBehindZeros DEF rest

--------------------------------------------------------------------------------
(* The sliding window.                                                     *)

LEMMA SuffixProperties ==
    ASSUME NEW q \in Seq(Entries), NEW k \in 0..Len(q)
    PROVE  LET rest == SubSeq(q, k + 1, Len(q))
           IN /\ rest \in Seq(Entries) /\ Len(rest) = Len(q) - k
              /\ \A i \in 1..(Len(q) - k) : rest[i] = q[k + i]
OBVIOUS

\* expire_old pops the trades older than the cutoff from the front.
LEMMA ExpireOldProperties ==
    ASSUME NEW trades \in Seq(Entries), NEW cutoff \in Nat
    PROVE  \E n \in 0..Len(trades) :
              /\ ExpireOld(trades, cutoff) = SubSeq(trades, n + 1, Len(trades))
              /\ \A i \in 1..n : trades[i].time < cutoff
              /\ n < Len(trades) => ~(trades[n + 1].time < cutoff)
<1> DEFINE expired(n) == \A i \in 1..n : trades[i].time < cutoff
           Right(n) == expired(n) /\ (n < Len(trades) => ~expired(n + 1))
           n0 == CHOOSE n \in 0..Len(trades) : Right(n)
<1>1. ExpireOld(trades, cutoff) = SubSeq(trades, n0 + 1, Len(trades))
  BY Zenon DEF ExpireOld
<1>2. \E n \in 0..Len(trades) : Right(n)
  <2> DEFINE T == {n \in Nat : n <= Len(trades) /\ (n < Len(trades) => ~(trades[n + 1].time < cutoff))}
  <2>1. T \in SUBSET Nat /\ Len(trades) \in T
    OBVIOUS
  <2>2. PICK x \in T : \A y \in T : x <= y
    <3> HIDE DEF T
    <3> QED BY <2>1, LeastNatural
  <2>3. ASSUME NEW i \in 1..x PROVE trades[i].time < cutoff
    <3>1. i - 1 \in Nat /\ i - 1 < x /\ x <= Len(trades) /\ (i - 1) + 1 = i
      BY <2>2
    <3>2. i - 1 \notin T
      <4>1. x \in Nat
        BY <2>2
      <4> HIDE DEF T
      <4> QED BY <2>2, <3>1, <4>1
    <3> QED BY <3>1, <3>2
  <2>4. x \in 0..Len(trades) /\ (x < Len(trades) => ~(trades[x + 1].time < cutoff))
    BY <2>2
  <2>5. x < Len(trades) => x + 1 \in 1..(x + 1)
    BY <2>4
  <2>6. Right(x)
    BY <2>3, <2>4, <2>5
  <2> HIDE DEF Right
  <2> QED BY <2>4, <2>6
<1>3. n0 \in 0..Len(trades) /\ Right(n0)
  <2> HIDE DEF Right
  <2> QED BY <1>2
<1> HIDE DEF n0
<1>4. n0 < Len(trades) => ~(trades[n0 + 1].time < cutoff)
  <2> SUFFICES ASSUME n0 < Len(trades), trades[n0 + 1].time < cutoff PROVE FALSE
    OBVIOUS
  <2>1. \A i \in 1..(n0 + 1) : i \in 1..n0 \/ i = n0 + 1
    BY <1>3
  <2>2. expired(n0 + 1)
    BY <1>3, <2>1
  <2> QED BY <1>3, <2>2
<1> QED BY <1>1, <1>3, <1>4

LEMMA CutoffProperties ==
    ASSUME NEW t \in Nat, NEW u \in Nat, t <= u, NEW W \in Nat
    PROVE  /\ Cutoff(t, W) \in Nat /\ Cutoff(u, W) \in Nat
           /\ Cutoff(t, W) <= Cutoff(u, W) /\ Cutoff(t, W) <= t
BY DEF Cutoff

LEMMA CutoffExact ==
    ASSUME NEW t \in Nat, NEW W \in Nat, NEW x \in Nat
    PROVE  x >= t - W <=> x >= Cutoff(t, W)
BY DEF Cutoff

LEMMA ShiftedPlace ==
    ASSUME NEW n \in Nat, NEW m \in 0..n, NEW i \in 1..(n - m + 1), i # n - m + 1
    PROVE  i \in 1..(n - m) /\ m + i \in 1..n
OBVIOUS

Ordered(h) == \A i, j \in 1..Len(h) : i <= j => h[i].time <= h[j].time

\* The deque after a trade starts at the first trade that is not older than the
\* cutoff, if what it lacked of the history before was older.
LEMMA DequeStep ==
    ASSUME NEW h \in Seq(Entries), NEW t \in Entries, Ordered(h), NEW W \in Nat,
           NEW deque, NEW k \in 0..Len(h), deque = SubSeq(h, k + 1, Len(h)),
           \A i \in 1..k : h[i].time < Cutoff(t.time, W)
    PROVE  LET more == Append(h, t)
           IN \E n \in 0..Len(h) :
                /\ Append(ExpireOld(deque, Cutoff(t.time, W)), t) = SubSeq(more, n + 1, Len(more))
                /\ \A i \in 1..Len(more) : i > n <=> more[i].time >= Cutoff(t.time, W)
<1> DEFINE more == Append(h, t)
           c == Cutoff(t.time, W)
           left == ExpireOld(deque, c)
<1>1. /\ Len(h) \in Nat /\ Len(more) = Len(h) + 1 /\ more[Len(h) + 1] = t
      /\ more \in Seq(Entries) /\ \A i \in 1..Len(h) : more[i] = h[i]
  OBVIOUS
<1>2. t.time \in Nat /\ c \in Nat /\ t.time >= c
  <2>1. t.time \in Nat /\ t.time <= t.time
    BY DEF Entries
  <2>2. Cutoff(t.time, W) \in Nat /\ Cutoff(t.time, W) <= t.time
    BY <2>1, CutoffProperties
  <2> QED BY <2>1, <2>2
<1>3. /\ deque \in Seq(Entries) /\ Len(deque) = Len(h) - k
      /\ \A i \in 1..(Len(h) - k) : deque[i] = h[k + i]
  OBVIOUS
<1>4. \A i \in 1..Len(h) : h[i].time \in Nat
  <2>1. \A i \in 1..Len(h) : h[i] \in Entries
    OBVIOUS
  <2>2. \A e \in Entries : e.time \in Nat
    BY DEF Entries
  <2> QED BY <2>1, <2>2
<1>5. \A i \in 1..k : h[i].time < c
  OBVIOUS
<1> HIDE DEF c, more
<1>6. PICK n \in 0..Len(deque) : /\ left = SubSeq(deque, n + 1, Len(deque))
                                 /\ \A i \in 1..n : deque[i].time < c
                                 /\ n < Len(deque) => ~(deque[n + 1].time < c)
  BY <1>2, <1>3, ExpireOldProperties
<1> HIDE DEF left
<1> DEFINE m == k + n
<1>7. m \in 0..Len(h) /\ Len(left) = Len(h) - m /\ left \in Seq(Entries)
  BY <1>1, <1>3, <1>6
<1>8. ASSUME NEW i \in 1..(Len(h) - m) PROVE left[i] = h[m + i]
  <2>1. i \in 1..(Len(deque) - n) /\ n + i \in 1..(Len(h) - k) /\ k + (n + i) = m + i
    BY <1>1, <1>3, <1>6
  <2>2. left[i] = deque[n + i]
    BY <1>3, <1>6, <2>1, SuffixProperties
  <2> QED BY <1>3, <2>1, <2>2
<1>9. Append(left, t) = SubSeq(more, m + 1, Len(more))
  <2> DEFINE a == Append(left, t)
             b == SubSeq(more, m + 1, Len(more))
  <2>1. /\ a \in Seq(Entries) /\ Len(a) = Len(h) - m + 1 /\ a[Len(h) - m + 1] = t
        /\ \A i \in 1..(Len(h) - m) : a[i] = left[i]
    BY <1>7
  <2>2. /\ b \in Seq(Entries) /\ Len(b) = Len(h) - m + 1
        /\ \A i \in 1..(Len(h) - m + 1) : b[i] = more[m + i]
    <3>1. more \in Seq(Entries) /\ Len(more) = Len(h) + 1 /\ m \in 0..Len(more)
          /\ Len(more) - m = Len(h) - m + 1
      BY <1>1, <1>7
    <3> HIDE DEF m
    <3> QED BY <3>1, SuffixProperties
  <2> HIDE DEF a, b, m
  <2>3. ASSUME NEW i \in 1..(Len(h) - m + 1) PROVE a[i] = b[i]
    <3>1. CASE i = Len(h) - m + 1
      <4>1. m + i = Len(h) + 1
        BY <1>1, <1>7, <3>1
      <4> QED BY <1>1, <2>1, <2>2, <3>1, <4>1
    <3>2. CASE i # Len(h) - m + 1
      <4>3. Len(h) \in Nat /\ m \in Nat /\ m <= Len(h)
        BY <1>1, <1>7
      <4>1. i \in 1..(Len(h) - m) /\ m + i \in 1..Len(h)
        BY <1>7, <3>2, <4>3, ShiftedPlace
      <4> QED BY <1>1, <1>8, <2>1, <2>2, <4>1
    <3> QED BY <3>1, <3>2
  <2>4. a = b
    BY <2>1, <2>2, <2>3, SeqEqual
  <2> QED BY <2>4 DEF a, b
<1>10. ASSUME NEW i \in 1..Len(more) PROVE i > m <=> more[i].time >= c
  <2>1. CASE i = Len(h) + 1
    BY <1>1, <1>2, <1>7, <2>1
  <2>2. CASE i \in 1..k
    <3>1. i \in 1..Len(h) /\ ~(i > m)
      BY <1>1, <1>6, <2>2
    <3>2. more[i] = h[i] /\ h[i].time < c /\ h[i].time \in Nat
      BY <1>1, <1>4, <1>5, <2>2, <3>1
    <3> QED BY <1>2, <3>1, <3>2
  <2>3. CASE i > k /\ i <= m
    <3>1. i - k \in 1..n /\ i \in 1..Len(h) /\ i - k \in 1..(Len(h) - k) /\ k + (i - k) = i
      BY <1>1, <1>3, <1>6, <2>3
    <3>2. h[i].time < c
      BY <1>3, <1>6, <3>1
    <3>3. more[i] = h[i] /\ h[i].time \in Nat /\ ~(i > m)
      BY <1>1, <1>4, <1>7, <2>3, <3>1
    <3> QED BY <1>2, <3>2, <3>3
  <2>4. CASE i > m /\ i <= Len(h)
    <3>1. /\ n < Len(deque) /\ n + 1 \in 1..(Len(h) - k) /\ k + (n + 1) = m + 1
          /\ m + 1 \in 1..Len(h) /\ i \in 1..Len(h) /\ m + 1 <= i
      <4>1. /\ Len(h) \in Nat /\ n \in Nat /\ k \in Nat /\ i \in Nat /\ Len(deque) = Len(h) - k
            /\ m < Len(h) /\ m < i /\ i <= Len(h)
        BY <1>1, <1>3, <1>6, <1>7, <2>4
      <4> QED BY <4>1
    <3>2. ~(h[m + 1].time < c)
      BY <1>3, <1>6, <3>1
    <3>3. h[m + 1].time <= h[i].time
      BY <3>1 DEF Ordered
    <3>4. more[i] = h[i] /\ h[i].time \in Nat /\ h[m + 1].time \in Nat /\ i > m
      BY <1>1, <1>4, <2>4, <3>1
    <3>5. ASSUME NEW x \in Nat, NEW y \in Nat, NEW z \in Nat, ~(x < z), x <= y PROVE y >= z
      BY <3>5
    <3>6. h[i].time >= c
      BY <1>2, <3>2, <3>3, <3>4, <3>5, Zenon
    <3> QED BY <3>4, <3>6
  <2>5. i = Len(h) + 1 \/ i \in 1..k \/ (i > k /\ i <= m) \/ (i > m /\ i <= Len(h))
    BY <1>1, <1>7
  <2> QED BY <2>1, <2>2, <2>3, <2>4, <2>5
<1> HIDE DEF m
<1> QED BY <1>7, <1>9, <1>10 DEF more, c, left

\* What recompute counts in such a deque is what the history has of the window.
LEMMA SlidingFigures ==
    ASSUME NEW h \in Seq(Entries), NEW W \in Nat, NEW k \in 0..(Len(h) - 1),
           \A i \in 1..Len(h) : i > k <=> h[i].time >= Cutoff(h[Len(h)].time, W)
    PROVE  LET deque == SubSeq(h, k + 1, Len(h))
               recent == {i \in 1..Len(h) : h[i].time >= h[Len(h)].time - W}
           IN /\ Volume(deque, Buys(deque)) = Volume(h, recent \cap Buys(h))
              /\ Volume(deque, Sells(deque)) = Volume(h, recent \cap Sells(h))
              /\ Len(deque) = Cardinality(recent)
<1> DEFINE deque == SubSeq(h, k + 1, Len(h))
           recent == {i \in 1..Len(h) : h[i].time >= h[Len(h)].time - W}
<1>1. /\ Len(h) \in Nat /\ k \in Nat /\ k < Len(h)
      /\ deque \in Seq(Entries) /\ Len(deque) = Len(h) - k
      /\ \A i \in 1..(Len(h) - k) : deque[i] = h[k + i]
  OBVIOUS
<1>2. \A i \in 1..Len(h) : h[i].time \in Nat
  <2>1. \A i \in 1..Len(h) : h[i] \in Entries
    OBVIOUS
  <2>2. \A e \in Entries : e.time \in Nat
    BY DEF Entries
  <2> QED BY <2>1, <2>2
<1>3. h[Len(h)].time \in Nat
  <2>1. Len(h) \in 1..Len(h)
    BY <1>1
  <2> QED BY <1>2, <2>1
<1>4. \A x \in Nat : x >= h[Len(h)].time - W <=> x >= Cutoff(h[Len(h)].time, W)
  BY <1>3, CutoffExact
<1>5. \A i \in 1..Len(h) : i \in recent <=> i > k
  BY <1>2, <1>4
<1>6. recent = (k + 1)..Len(h)
  <2>1. recent \subseteq 1..Len(h)
    OBVIOUS
  <2> HIDE DEF recent
  <2>2. ASSUME NEW i PROVE i \in recent <=> i \in (k + 1)..Len(h)
    <3>1. i \in (k + 1)..Len(h) => i \in 1..Len(h) /\ i > k
      BY <1>1
    <3>2. i \in 1..Len(h) /\ i > k => i \in (k + 1)..Len(h)
      BY <1>1
    <3> QED BY <1>5, <2>1, <3>1, <3>2
  <2> QED BY <2>2
<1> HIDE DEF recent, deque
<1>7. Cardinality(recent) = Len(deque)
  BY <1>1, <1>6, FS_Interval
<1>8. \A i \in 1..k : i \notin recent
  BY <1>1, <1>5
<1>9. ASSUME NEW i \in 1..(Len(h) - k)
      PROVE  /\ i \in Buys(deque) <=> k + i \in recent \cap Buys(h)
             /\ i \in Sells(deque) <=> k + i \in recent \cap Sells(h)
  <2>1. i \in 1..Len(deque) /\ k + i \in 1..Len(h) /\ k + i > k /\ deque[i] = h[k + i]
    BY <1>1
  <2> QED BY <1>5, <2>1 DEF Buys, Sells
<1>10. Volume(deque, Buys(deque)) = Volume(h, recent \cap Buys(h))
  <2>1. \A i \in 1..k : i \notin recent \cap Buys(h)
    BY <1>8
  <2> QED BY <1>1, <1>9, <2>1, VolumeSuffix, SMTT(30) DEF deque
<1>11. Volume(deque, Sells(deque)) = Volume(h, recent \cap Sells(h))
  <2>1. \A i \in 1..k : i \notin recent \cap Sells(h)
    BY <1>8
  <2> QED BY <1>1, <1>9, <2>1, VolumeSuffix, SMTT(30) DEF deque
<1> QED BY <1>7, <1>10, <1>11 DEF deque, recent

--------------------------------------------------------------------------------
(* The fixed windows.                                                      *)

LEMMA TimesMonotone == ASSUME NEW W \in Nat, NEW a \in Nat, NEW b \in Nat, a <= b
                       PROVE  W * a \in Nat /\ W * b \in Nat /\ W * a <= W * b
<1>1. b - a \in Nat /\ W * (b - a) \in Nat /\ W * a \in Nat /\ W * b \in Nat
  OBVIOUS
<1>2. W * b = W * a + W * (b - a)
  OBVIOUS
<1> QED BY <1>1, <1>2

\* Division by the window, and the remainder.
LEMMA Quotient ==
    ASSUME NEW t \in Nat, NEW W \in Nat \ {0}
    PROVE  /\ t \div W \in Nat /\ t % W \in 0..(W - 1)
           /\ W * (t \div W) \in Nat /\ t - (t % W) = W * (t \div W)
           /\ W * (t \div W) <= t /\ t < W * (t \div W) + W
<1>1. t \div W \in Nat /\ t % W \in 0..(W - 1) /\ t = W * (t \div W) + (t % W)
  OBVIOUS
<1>2. W * (t \div W) \in Nat
  BY <1>1
<1> DEFINE a == W * (t \div W)
           b == t % W
<1>3. a \in Nat /\ b \in 0..(W - 1) /\ t = a + b
  BY <1>1, <1>2
<1> HIDE DEF a, b
<1>4. t - b = a /\ a <= t /\ t < a + W
  BY <1>3
<1> QED BY <1>1, <1>2, <1>4 DEF a, b

\* A time behind a multiple of the window is in its window or a later one.
LEMMA QuotientReaches ==
    ASSUME NEW t \in Nat, NEW W \in Nat \ {0}, NEW d \in Nat
    PROVE  W * d \in Nat /\ (t >= W * d <=> t \div W >= d)
<1> DEFINE e == t \div W
<1>1. e \in Nat /\ W * e \in Nat /\ W * e <= t /\ t < W * e + W
  BY Quotient
<1> HIDE DEF e
<1>2. W * d \in Nat
  OBVIOUS
<1>3. ASSUME e >= d PROVE t >= W * d
  <2>1. W * d <= W * e
    BY <1>1, <1>3, TimesMonotone
  <2> QED BY <1>1, <1>2, <2>1
<1>4. ASSUME ~(e >= d) PROVE ~(t >= W * d)
  <2>1. e + 1 <= d /\ e + 1 \in Nat
    BY <1>1, <1>4
  <2>2. W * (e + 1) <= W * d
    BY <2>1, TimesMonotone
  <2>3. W * (e + 1) = W * e + W
    BY <1>1
  <2> QED BY <1>1, <1>2, <2>2, <2>3
<1> QED BY <1>2, <1>3, <1>4 DEF e

WindowAt(first, t, W) == IF t < first + W THEN 0 ELSE t \div W
StartOf(first, w, W) == IF w = 0 THEN first ELSE W * w

\* Times at and behind the end of the first window are in windows from 1 on.
LEMMA WindowAtProperties ==
    ASSUME NEW first \in Nat \ {0}, NEW t \in Nat, NEW u \in Nat, t <= u, NEW W \in Nat \ {0}
    PROVE  /\ WindowAt(first, t, W) \in Nat /\ WindowAt(first, u, W) \in Nat
           /\ WindowAt(first, t, W) <= WindowAt(first, u, W)
           /\ WindowAt(first, t, W) = 0 <=> t < first + W
           /\ WindowAt(first, first, W) = 0
<1>1. t \div W \in Nat /\ u \div W \in Nat
  BY Quotient
<1>2. t \div W <= u \div W
  <2>1. W * (t \div W) <= t /\ W * (t \div W) \in Nat
    BY Quotient
  <2>2. u >= W * (t \div W)
    BY <2>1
  <2> QED BY <1>1, <2>2, QuotientReaches
<1>3. t >= first + W => t \div W >= 1
  <2>1. W * 1 = W
    OBVIOUS
  <2>2. t >= first + W => t >= W * 1
    BY <2>1
  <2> QED BY <2>2, QuotientReaches
<1> QED BY <1>1, <1>2, <1>3 DEF WindowAt

\* update archives the window exactly when the trade is in a later one, and then
\* starts at the later one's start.
LEMMA WindowCrossing ==
    ASSUME NEW first \in Nat \ {0}, NEW t \in Nat, NEW u \in Nat, t <= u, NEW W \in Nat \ {0}
    PROVE  LET v == WindowAt(first, t, W)
               w == WindowAt(first, u, W)
           IN /\ StartOf(first, v, W) \in Nat \ {0}
              /\ u >= StartOf(first, v, W) + W <=> w # v
              /\ w # v => u - (u % W) = StartOf(first, w, W)
<1> DEFINE v == WindowAt(first, t, W)
           w == WindowAt(first, u, W)
<1>1. /\ v \in Nat /\ w \in Nat /\ v <= w
      /\ v = 0 <=> t < first + W
  BY WindowAtProperties
<1>2. w = 0 <=> u < first + W
  BY WindowAtProperties
<1>3. w # 0 => w = u \div W
  BY <1>2 DEF WindowAt
<1> HIDE DEF v, w
<1>4. w # v => u - (u % W) = StartOf(first, w, W)
  <2>1. w # v => w # 0
    BY <1>1
  <2>2. u - (u % W) = W * (u \div W)
    BY Quotient
  <2> QED BY <1>3, <2>1, <2>2 DEF StartOf
<1>5. CASE v = 0
  <2>1. StartOf(first, v, W) = first
    BY <1>5 DEF StartOf
  <2> QED BY <1>1, <1>2, <1>4, <1>5, <2>1 DEF v, w
<1>6. CASE v # 0
  <2>1. StartOf(first, v, W) = W * v /\ w # 0 /\ w = u \div W
    BY <1>1, <1>3, <1>6 DEF StartOf
  <2>2. W * v \in Nat /\ W * v >= W
    <3>1. W * 1 <= W * v /\ W * v \in Nat /\ W * 1 = W
      BY <1>1, <1>6, TimesMonotone
    <3> QED BY <3>1
  <2>3. W * (v + 1) = W * v + W
    BY <1>1
  <2>4. u >= W * (v + 1) <=> u \div W >= v + 1
    BY <1>1, QuotientReaches
  <2>5. u >= W * v + W <=> w # v
    BY <1>1, <2>1, <2>3, <2>4
  <2>6. W * v \in Nat \ {0}
    BY <2>2
  <2> QED BY <1>4, <2>1, <2>5, <2>6 DEF v, w
<1> QED BY <1>5, <1>6

--------------------------------------------------------------------------------
(* The completed windows.                                                  *)

Rest(order, k, c) == {order[i] : i \in (k + 1)..c}
Later(S, w) == {v \in S : v >= w}

\* The last elements of an increasing enumeration.
LEMMA IncreasingCounts ==
    ASSUME NEW c \in Nat, NEW S, NEW order \in [1..c -> S], S \subseteq Nat,
           \A i, j \in 1..c : i < j => order[i] < order[j], NEW k \in 0..c
    PROVE  Cardinality(Rest(order, k, c)) = c - k
<1> DEFINE n == c - k
           R == {order[i] : i \in (k + 1)..c}
           b == [i \in 1..n |-> order[k + i]]
<1>1. n \in Nat /\ \A i \in 1..n : k + i \in (k + 1)..c /\ k + i \in 1..c
  OBVIOUS
<1>2. \A i \in (k + 1)..c : i - k \in 1..n /\ k + (i - k) = i
  OBVIOUS
<1> HIDE DEF n
<1>3. b \in [1..n -> R]
  BY <1>1
<1>4. ASSUME NEW i \in 1..n, NEW j \in 1..n, b[i] = b[j] PROVE i = j
  <2>1. k + i \in 1..c /\ k + j \in 1..c /\ order[k + i] = order[k + j]
    BY <1>1, <1>4
  <2>2. order[k + i] \in Nat /\ order[k + j] \in Nat
    BY <2>1
  <2>3. ~(k + i < k + j) /\ ~(k + j < k + i)
    BY <2>1, <2>2
  <2> QED BY <1>1, <2>3
<1>5. ASSUME NEW x \in R PROVE \E i \in 1..n : b[i] = x
  <2>1. PICK i \in (k + 1)..c : x = order[i]
    OBVIOUS
  <2>2. i - k \in 1..n /\ b[i - k] = x
    BY <1>2, <2>1
  <2> QED BY <2>2
<1> HIDE DEF R, b
<1>6. b \in Bijection(1..n, R)
  BY <1>3, <1>4, <1>5 DEF Bijection, Injection, Surjection, IsInjective
<1>7. ExistsBijection(1..n, R)
  BY <1>6 DEF ExistsBijection
<1>8. Cardinality(R) = n
  BY <1>1, <1>7, FS_CountingElements
<1> QED BY <1>8 DEF R, n, Rest

\* The windows of a history's trades, the newest trade's, and their volumes.
WindowIn(h, i) == WindowAt(h[1].time, h[i].time, Window)
Windows(h) == {WindowIn(h, i) : i \in 1..Len(h)}
Newest(h) == WindowIn(h, Len(h))
Done(h) == Windows(h) \ {Newest(h)}
PlacesIn(h, S) == {i \in 1..Len(h) : WindowIn(h, i) \in S}
VolumeIn(h, extra, S) == Volume(h, PlacesIn(h, S)) + (IF 0 \in S THEN extra ELSE 0)

LEMMA TimesTyped ==
    ASSUME NEW h \in Seq(Entries)
    PROVE  Len(h) \in Nat /\ \A i \in 1..Len(h) : h[i].time \in Nat \ {0} /\ h[i].time \in Nat
<1>1. Len(h) \in Nat /\ \A i \in 1..Len(h) : h[i] \in Entries
  OBVIOUS
<1>2. \A e \in Entries : e.time \in Nat \ {0}
  BY DEF Entries
<1> QED BY <1>1, <1>2

\* The newest trade's window is the last one.
LEMMA WindowsProperties ==
    ASSUME NEW h \in Seq(Entries), h # <<>>, Ordered(h)
    PROVE  /\ Windows(h) \subseteq Nat /\ Newest(h) \in Windows(h)
           /\ \A w \in Windows(h) : w <= Newest(h)
           /\ \A i \in 1..Len(h) : WindowIn(h, i) \in Windows(h)
<1>1. /\ Len(h) \in Nat /\ 1 \in 1..Len(h) /\ Len(h) \in 1..Len(h)
      /\ \A i \in 1..Len(h) : h[i].time \in Nat \ {0} /\ h[i].time \in Nat
  BY TimesTyped
<1>2. ASSUME NEW i \in 1..Len(h) PROVE WindowIn(h, i) \in Nat /\ WindowIn(h, i) <= Newest(h)
  <2>1. h[i].time <= h[Len(h)].time
    BY <1>1 DEF Ordered
  <2> QED BY <1>1, <2>1, WindowAtProperties, TradeWindowAssumption DEF WindowIn, Newest
<1> QED BY <1>1, <1>2 DEF Windows, Newest

LEMMA VolumeInTyped ==
    ASSUME NEW h \in Seq(Entries), NEW extra \in Nat, NEW S
    PROVE  VolumeIn(h, extra, S) \in Nat
<1>1. PICK t : t \in Entries
  <2>1. [time |-> 1, qty |-> 0, buy |-> TRUE] \in Entries
    BY DEF Entries
  <2> QED BY <2>1
<1>2. Volume(h, PlacesIn(h, S)) \in Nat
  BY <1>1, VolumeAppend
<1> QED BY <1>2 DEF VolumeIn

\* No trade, no volume.
LEMMA VolumeOfNone ==
    ASSUME NEW h \in Seq(Entries), NEW P, \A i \in 1..Len(h) : i \notin P
    PROVE  Volume(h, P) = 0
<1>1. Volume(h, P) = Volume(h, P) + Volume(h, P)
  BY VolumeUnion
<1>2. Volume(h, P) \in Nat
  <2>1. [time |-> 1, qty |-> 0, buy |-> TRUE] \in Entries
    BY DEF Entries
  <2> QED BY <2>1, VolumeAppend
<1> QED BY <1>1, <1>2

\* A further trade is in the last window or opens a later one.
LEMMA HistoryStep ==
    ASSUME NEW h \in Seq(Entries), h # <<>>, Ordered(h), NEW t \in Entries,
           h[Len(h)].time <= t.time
    PROVE  /\ Append(h, t) \in Seq(Entries) /\ Append(h, t) # <<>> /\ Ordered(Append(h, t))
           /\ Append(h, t)[1] = h[1] /\ Append(h, t)[Len(Append(h, t))] = t
           /\ Newest(Append(h, t)) = WindowAt(h[1].time, t.time, Window)
           /\ Newest(Append(h, t)) \in Nat /\ Newest(h) <= Newest(Append(h, t))
           /\ Windows(Append(h, t)) = Windows(h) \cup {Newest(Append(h, t))}
<1> DEFINE N == Len(h)
           more == Append(h, t)
<1>1. /\ more \in Seq(Entries) /\ N \in Nat /\ N > 0 /\ Len(more) = N + 1 /\ more[N + 1] = t
      /\ \A i \in 1..N : more[i] = h[i]
  OBVIOUS
<1>2. more # <<>> /\ more[1] = h[1] /\ more[Len(more)] = t
  BY <1>1
<1> HIDE DEF more
<1>3. /\ t.time \in Nat /\ t.qty \in Nat
      /\ \A i \in 1..N : h[i].time \in Nat \ {0} /\ h[i].time \in Nat
  <2>1. t.time \in Nat /\ t.qty \in Nat
    BY DEF Entries
  <2> QED BY <2>1, TimesTyped
<1>4. \A i \in 1..N : h[i].time <= t.time
  <2>1. N \in 1..N
    BY <1>1
  <2>2. \A i \in 1..N : h[i].time <= h[N].time
    BY <1>1, <2>1 DEF Ordered
  <2> QED BY <1>3, <2>1, <2>2
<1>5. Ordered(more)
  <2> SUFFICES ASSUME NEW i \in 1..(N + 1), NEW j \in 1..(N + 1), i <= j
               PROVE  more[i].time <= more[j].time
    BY <1>1 DEF Ordered
  <2>1. CASE j \in 1..N
    <3>1. i \in 1..N
      BY <1>1, <2>1
    <3> QED BY <1>1, <2>1, <3>1 DEF Ordered
  <2>2. CASE j = N + 1
    <3>1. CASE i \in 1..N
      BY <1>1, <1>4, <2>2, <3>1
    <3>2. CASE i = N + 1
      BY <1>1, <1>3, <2>2, <3>2
    <3> QED BY <1>1, <3>1, <3>2
  <2> QED BY <1>1, <2>1, <2>2
<1>6. /\ WindowIn(more, N + 1) = Newest(more)
      /\ Newest(more) = WindowAt(h[1].time, t.time, Window)
      /\ \A i \in 1..N : WindowIn(more, i) = WindowIn(h, i)
  BY <1>1, <1>2 DEF Newest, WindowIn
<1>7. Newest(more) \in Nat /\ Newest(h) <= Newest(more)
  <2>1. h[1].time \in Nat \ {0} /\ h[N].time \in Nat
    BY <1>1, <1>3
  <2>2. WindowAt(h[1].time, h[N].time, Window) <= WindowAt(h[1].time, t.time, Window)
        /\ WindowAt(h[1].time, t.time, Window) \in Nat
    BY <1>3, <2>1, WindowAtProperties, TradeWindowAssumption
  <2> QED BY <1>6, <2>2 DEF Newest, WindowIn
<1>8. 1..(N + 1) = 1..N \cup {N + 1}
  BY <1>1
<1>9. Windows(more) = Windows(h) \cup {Newest(more)}
  BY <1>1, <1>6, <1>8 DEF Windows
<1> QED BY <1>1, <1>2, <1>5, <1>6, <1>7, <1>9 DEF more

\* It adds its quantity to the volume of its window.
LEMMA HistoryVolume ==
    ASSUME NEW h \in Seq(Entries), h # <<>>, Ordered(h), NEW t \in Entries,
           h[Len(h)].time <= t.time, NEW extra \in Nat, NEW w
    PROVE  VolumeIn(Append(h, t), extra, {w})
              = IF w = Newest(Append(h, t)) THEN VolumeIn(h, extra, {w}) + t.qty
                                            ELSE VolumeIn(h, extra, {w})
<1> DEFINE S == {w}
           more == Append(h, t)
           N == Len(h)
<1>1. /\ N \in Nat /\ N > 0 /\ Len(more) = N + 1 /\ more[N + 1] = t /\ t.qty \in Nat
      /\ more[1] = h[1] /\ \A i \in 1..N : more[i] = h[i]
  BY DEF Entries
<1> HIDE DEF more, S
<1>2. /\ WindowIn(more, N + 1) = Newest(more)
      /\ \A i \in 1..N : WindowIn(more, i) = WindowIn(h, i)
  BY <1>1 DEF Newest, WindowIn
<1>3. 1..(N + 1) = 1..N \cup {N + 1}
  BY <1>1
<1>4. VolumeIn(more, extra, S)
         = VolumeIn(h, extra, S) + (IF Newest(more) \in S THEN t.qty ELSE 0)
  <2> DEFINE P == PlacesIn(h, S)
             Q == PlacesIn(more, S)
             add == IF N + 1 \in Q THEN t.qty ELSE 0
  <2>1. \A i \in 1..Len(h) : i \in P <=> i \in Q
    BY <1>1, <1>2, <1>3 DEF PlacesIn
  <2>2. N + 1 \in Q <=> Newest(more) \in S
    BY <1>1, <1>2, <1>3 DEF PlacesIn
  <2> HIDE DEF P, Q
  <2>3. Volume(more, Q) = Volume(h, P) + add /\ Volume(h, P) \in Nat
    BY <2>1, VolumeAppend DEF more
  <2>4. add \in Nat
    BY <1>1
  <2> HIDE DEF add
  <2>5. \A a, b, c \in Nat : (a + b) + c = (a + c) + b
    OBVIOUS
  <2>6. VolumeIn(more, extra, S) = VolumeIn(h, extra, S) + add
    <3> DEFINE e == IF 0 \in S THEN extra ELSE 0
    <3>1. e \in Nat
      OBVIOUS
    <3>2. VolumeIn(more, extra, S) = Volume(more, Q) + e /\ VolumeIn(h, extra, S) = Volume(h, P) + e
      BY DEF VolumeIn, P, Q
    <3> HIDE DEF e
    <3> QED BY <2>3, <2>4, <2>5, <3>1, <3>2
  <2> QED BY <2>2, <2>6 DEF add
<1>5. VolumeIn(h, extra, S) \in Nat
  BY VolumeInTyped
<1>6. Newest(more) \in S <=> w = Newest(more)
  BY DEF S
<1> QED BY <1>4, <1>5, <1>6 DEF more, S

\* A window that it opens had no volume before.
LEMMA HistoryOpens ==
    ASSUME NEW h \in Seq(Entries), h # <<>>, Ordered(h), NEW t \in Entries,
           h[Len(h)].time <= t.time, NEW extra \in Nat, Newest(Append(h, t)) # Newest(h)
    PROVE  VolumeIn(h, extra, {Newest(Append(h, t))}) = 0
<1> DEFINE N == Len(h)
           more == Append(h, t)
<1>1. Newest(more) \in Nat /\ Newest(h) <= Newest(more)
  BY HistoryStep
<1>2. Newest(more) # Newest(h)
  OBVIOUS
<1> HIDE DEF more
<1>3. VolumeIn(h, extra, {Newest(more)}) = 0
  <2>1. /\ \A w \in Windows(h) : w \in Nat /\ w <= Newest(h)
        /\ \A i \in 1..N : WindowIn(h, i) \in Windows(h)
        /\ Newest(h) \in Nat
    BY WindowsProperties
  <2>2. Newest(h) < Newest(more)
    BY <1>2, <1>1, <2>1
  <2>3. \A i \in 1..N : WindowIn(h, i) # Newest(more)
    BY <1>1, <2>1, <2>2
  <2>4. Volume(h, PlacesIn(h, {Newest(more)})) = 0
    BY <2>3, VolumeOfNone DEF PlacesIn
  <2>5. Newest(more) # 0
    BY <2>1, <2>2
  <2> QED BY <2>4, <2>5 DEF VolumeIn
<1> QED BY <1>3 DEF more

\* order lists the windows in S, and the archived volumes q are those of the last
\* of its c windows.
Lists(order, c, S) == /\ order \in [1..c -> S]
                      /\ \A i, j \in 1..c : i < j => order[i] < order[j]
                      /\ \A w \in S : \E i \in 1..c : order[i] = w
Archived(q, c, order, h, extra) ==
    LET dropped == c - Len(q)
    IN /\ dropped >= 0 /\ (dropped > 0 => Len(q) = SmaWindows)
       /\ \A i \in 1..Len(q) : q[i] = VolumeIn(h, extra, {order[dropped + i]})

\* A trade of the same window leaves the completed ones as they are.
LEMMA ArchiveStays ==
    ASSUME NEW h \in Seq(Entries), h # <<>>, Ordered(h), NEW t \in Entries,
           h[Len(h)].time <= t.time, NEW extra \in Nat,
           NEW c \in Nat, NEW order, Lists(order, c, Done(h)),
           NEW q \in Seq(Nat), Archived(q, c, order, h, extra),
           Newest(Append(h, t)) = Newest(h)
    PROVE  /\ Done(Append(h, t)) = Done(h)
           /\ Archived(q, c, order, Append(h, t), extra)
<1> DEFINE more == Append(h, t)
<1>1. Windows(more) = Windows(h) \cup {Newest(more)}
  BY HistoryStep
<1>2. Newest(more) = Newest(h)
  OBVIOUS
<1> HIDE DEF more
<1>3. Newest(h) \in Windows(h)
  BY WindowsProperties
<1>4. Done(more) = Done(h)
  BY <1>1, <1>2, <1>3 DEF Done
<1> DEFINE dropped == c - Len(q)
<1>5. /\ dropped >= 0 /\ (dropped > 0 => Len(q) = SmaWindows)
      /\ \A i \in 1..Len(q) : q[i] = VolumeIn(h, extra, {order[dropped + i]})
      /\ dropped \in Nat /\ Len(q) \in Nat /\ c = dropped + Len(q)
  BY DEF Archived
<1> HIDE DEF dropped
<1>6. ASSUME NEW i \in 1..Len(q) PROVE q[i] = VolumeIn(more, extra, {order[dropped + i]})
  <2>1. dropped + i \in 1..c
    BY <1>5
  <2>2. order[dropped + i] \in Done(h)
    BY <2>1 DEF Lists
  <2>3. Newest(more) \notin {order[dropped + i]}
    BY <1>2, <2>2 DEF Done
  <2>4. VolumeIn(more, extra, {order[dropped + i]}) = VolumeIn(h, extra, {order[dropped + i]})
    <3>1. order[dropped + i] # Newest(more)
      BY <2>3
    <3> QED BY <3>1, HistoryVolume, ZenonT(30) DEF more
  <2> QED BY <1>5, <2>4
<1>7. Archived(q, c, order, more, extra)
  BY <1>5, <1>6 DEF Archived, dropped
<1> QED BY <1>4, <1>7 DEF more

\* push_back and pop_front of the archived volumes.
LEMMA RollVolumes ==
    ASSUME NEW q \in Seq(Nat), NEW x \in Nat, NEW limit \in Nat \ {0}, Len(q) <= limit
    PROVE  LET r == Roll(q, x, limit)
           IN /\ r \in Seq(Nat) /\ Len(r) <= limit /\ r # <<>>
              /\ Len(r) = IF Len(q) < limit THEN Len(q) + 1 ELSE Len(q)
              /\ r[Len(r)] = x
              /\ Len(q) < limit => \A i \in 1..Len(q) : r[i] = q[i]
              /\ Len(q) = limit => \A i \in 1..(Len(q) - 1) : r[i] = q[i + 1]
<1> DEFINE longer == Append(q, x)
<1>1. /\ longer \in Seq(Nat) /\ Len(longer) = Len(q) + 1 /\ longer[Len(q) + 1] = x
      /\ Len(q) \in Nat /\ longer # <<>> /\ \A i \in 1..Len(q) : longer[i] = q[i]
  OBVIOUS
<1>2. Roll(q, x, limit) = IF Len(longer) > limit THEN Tail(longer) ELSE longer
  BY DEF Roll
<1> HIDE DEF longer
<1>3. CASE Len(q) < limit
  <2>1. Roll(q, x, limit) = longer
    BY <1>1, <1>2, <1>3
  <2> QED BY <1>1, <1>3, <2>1
<1>4. CASE Len(q) = limit
  <2>1. Roll(q, x, limit) = Tail(longer)
    BY <1>1, <1>2, <1>4
  <2>2. /\ Tail(longer) \in Seq(Nat) /\ Len(Tail(longer)) = Len(q)
        /\ \A i \in 1..Len(q) : Tail(longer)[i] = longer[i + 1]
    BY <1>1
  <2>3. Tail(longer) # <<>> /\ Tail(longer)[Len(q)] = x
    <3>1. Len(q) \in 1..Len(q) /\ Len(q) # 0
      BY <1>1, <1>4
    <3>2. Tail(longer)[Len(q)] = x
      BY <1>1, <2>2, <3>1
    <3>3. Len(<<>>) = 0
      OBVIOUS
    <3> QED BY <2>2, <3>1, <3>2, <3>3
  <2>4. \A i \in 1..(Len(q) - 1) : Tail(longer)[i] = q[i + 1]
    BY <1>1, <2>2
  <2> QED BY <1>1, <1>4, <2>1, <2>2, <2>3, <2>4
<1> QED BY <1>1, <1>3, <1>4

\* A trade of a later window archives the volume of the one before.
LEMMA ArchiveAdvances ==
    ASSUME NEW h \in Seq(Entries), h # <<>>, Ordered(h), NEW t \in Entries,
           h[Len(h)].time <= t.time, NEW extra \in Nat,
           NEW c \in Nat, NEW order, Lists(order, c, Done(h)),
           NEW q \in Seq(Nat), Len(q) <= SmaWindows, Archived(q, c, order, h, extra),
           Newest(Append(h, t)) # Newest(h)
    PROVE  LET more == Append(h, t)
               r == Roll(q, VolumeIn(h, extra, {Newest(h)}), SmaWindows)
           IN \E next : Lists(next, c + 1, Done(more)) /\ Archived(r, c + 1, next, more, extra)
<1> DEFINE more == Append(h, t)
           last == Newest(h)
           x == VolumeIn(h, extra, {last})
           r == Roll(q, x, SmaWindows)
           next == [i \in 1..(c + 1) |-> IF i = c + 1 THEN last ELSE order[i]]
<1>1. /\ Windows(more) = Windows(h) \cup {Newest(more)}
      /\ Newest(more) \in Nat /\ last <= Newest(more)
  BY HistoryStep
<1>2. Newest(more) # last
  OBVIOUS
<1> HIDE DEF more
<1>3. Windows(h) \subseteq Nat /\ last \in Windows(h) /\ \A w \in Windows(h) : w <= last
  BY WindowsProperties
<1>4. Done(h) = Windows(h) \ {last}
  BY DEF Done
<1> HIDE DEF last
<1>5. Newest(more) \notin Windows(h)
  BY <1>1, <1>2, <1>3
<1>6. Done(more) = Windows(h) /\ Windows(h) = Done(h) \cup {last}
  BY <1>1, <1>3, <1>4, <1>5 DEF Done
<1>7. /\ order \in [1..c -> Done(h)]
      /\ \A i, j \in 1..c : i < j => order[i] < order[j]
      /\ \A w \in Done(h) : \E i \in 1..c : order[i] = w
  BY DEF Lists
<1>8. next[c + 1] = last /\ \A i \in 1..c : next[i] = order[i] /\ order[i] \in Done(h)
  BY <1>7
<1>9. Lists(next, c + 1, Done(more))
  <2>1. next \in [1..(c + 1) -> Done(more)]
    <3>1. \A i \in 1..(c + 1) : i = c + 1 \/ i \in 1..c
      OBVIOUS
    <3> QED BY <1>6, <1>7, <3>1
  <2> HIDE DEF next
  <2>2. ASSUME NEW i \in 1..(c + 1), NEW j \in 1..(c + 1), i < j PROVE next[i] < next[j]
    <3>1. i \in 1..c
      BY <2>2
    <3>2. CASE j = c + 1
      <4>1. order[i] \in Nat /\ order[i] <= last /\ order[i] # last /\ last \in Nat
        BY <1>3, <1>4, <1>8, <3>1
      <4> QED BY <1>8, <3>1, <3>2, <4>1
    <3>3. CASE j # c + 1
      <4>1. j \in 1..c
        BY <3>3
      <4> QED BY <1>7, <1>8, <2>2, <3>1, <4>1
    <3> QED BY <3>2, <3>3
  <2>3. ASSUME NEW w \in Done(more) PROVE \E i \in 1..(c + 1) : next[i] = w
    <3>1. CASE w = last
      BY <1>8, <3>1
    <3>2. CASE w # last
      <4>1. PICK i \in 1..c : order[i] = w
        BY <1>6, <1>7, <3>2
      <4>2. i \in 1..(c + 1) /\ next[i] = w
        BY <1>8, <4>1
      <4> QED BY <4>2
    <3> QED BY <3>1, <3>2
  <2> QED BY <2>1, <2>2, <2>3 DEF Lists
<1> HIDE DEF next
<1>10. x \in Nat
  BY VolumeInTyped
<1> DEFINE d == c - Len(q)
<1>11. /\ d \in Nat /\ Len(q) \in Nat /\ c = d + Len(q) /\ (d > 0 => Len(q) = SmaWindows)
       /\ \A i \in 1..Len(q) : q[i] = VolumeIn(h, extra, {order[d + i]})
  BY DEF Archived
<1> HIDE DEF d
<1>12. ASSUME NEW w \in Windows(h) PROVE VolumeIn(more, extra, {w}) = VolumeIn(h, extra, {w})
  <2>1. Newest(more) \notin {w}
    BY <1>5
  <2>2. VolumeIn(more, extra, {w}) = VolumeIn(h, extra, {w})
    <3>1. w # Newest(more)
      BY <2>1
    <3> QED BY <3>1, HistoryVolume, ZenonT(30) DEF more
  <2> QED BY <2>2
<1>13. VolumeIn(more, extra, {next[c + 1]}) = x
  BY <1>3, <1>8, <1>12 DEF x
<1>14. ASSUME NEW i \in 1..Len(q) PROVE q[i] = VolumeIn(more, extra, {next[d + i]})
  <2>1. d + i \in 1..c
    BY <1>11
  <2>2. next[d + i] = order[d + i] /\ order[d + i] \in Windows(h)
    BY <1>6, <1>8, <2>1
  <2> QED BY <1>11, <1>12, <2>2
<1> HIDE DEF x
<1>15. /\ r \in Seq(Nat) /\ r[Len(r)] = x
       /\ Len(r) = IF Len(q) < SmaWindows THEN Len(q) + 1 ELSE Len(q)
       /\ Len(q) < SmaWindows => \A i \in 1..Len(q) : r[i] = q[i]
       /\ Len(q) = SmaWindows => \A i \in 1..(Len(q) - 1) : r[i] = q[i + 1]
       /\ SmaWindows \in Nat \ {0}
  BY <1>10, RollVolumes, TradeWindowAssumption
<1> HIDE DEF r
<1>16. Archived(r, c + 1, next, more, extra)
  <2>1. CASE Len(q) < SmaWindows
    <3>1. d = 0 /\ c = Len(q) /\ Len(r) = c + 1 /\ (c + 1) - Len(r) = 0
      BY <1>11, <1>15, <2>1
    <3>2. ASSUME NEW i \in 1..(c + 1) PROVE r[i] = VolumeIn(more, extra, {next[0 + i]})
      <4>1. CASE i = c + 1
        BY <1>13, <1>15, <3>1, <4>1
      <4>2. CASE i # c + 1
        <5>1. i \in 1..Len(q) /\ d + i = 0 + i
          BY <3>1, <4>2
        <5> QED BY <1>14, <1>15, <2>1, <5>1
      <4> QED BY <4>1, <4>2
    <3> QED BY <3>1, <3>2 DEF Archived
  <2>2. CASE Len(q) = SmaWindows
    <3>1. /\ Len(r) = Len(q) /\ (c + 1) - Len(r) = d + 1 /\ Len(r) = SmaWindows
          /\ (d + 1) + Len(r) = c + 1
      BY <1>11, <1>15, <2>2
    <3>2. ASSUME NEW i \in 1..Len(r) PROVE r[i] = VolumeIn(more, extra, {next[(d + 1) + i]})
      <4>1. CASE i = Len(r)
        BY <1>13, <1>15, <3>1, <4>1
      <4>2. CASE i # Len(r)
        <5>1. i \in 1..(Len(q) - 1) /\ i + 1 \in 1..Len(q) /\ d + (i + 1) = (d + 1) + i
          <6>1. i \in 1..Len(q) /\ i # Len(q) /\ Len(q) \in Nat /\ d \in Nat
            BY <1>11, <3>1, <4>2
          <6> QED BY <6>1
        <5>2. r[i] = q[i + 1]
          BY <1>15, <2>2, <5>1
        <5> QED BY <1>14, <5>1, <5>2
      <4> QED BY <4>1, <4>2
    <3>3. (c + 1) - Len(r) >= 0
      BY <1>11, <3>1
    <3> QED BY <3>1, <3>2, <3>3 DEF Archived
  <2> QED BY <1>11, <1>15, <2>1, <2>2
<1>17. Lists(next, c + 1, Done(more)) /\ Archived(r, c + 1, next, more, extra)
  BY <1>9, <1>16
<1> QED BY <1>17 DEF more, r, x, last

--------------------------------------------------------------------------------
(* The average of the completed windows.                                   *)

\* A window counts once.
LEMMA VolumeInUnion ==
    ASSUME NEW h \in Seq(Entries), NEW extra \in Nat, NEW S, NEW w, w \notin S, NEW R,
           R = S \cup {w}
    PROVE  VolumeIn(h, extra, R) = VolumeIn(h, extra, S) + VolumeIn(h, extra, {w})
<1> DEFINE P == PlacesIn(h, S)
           Q == PlacesIn(h, {w})
           U == PlacesIn(h, R)
           e(X) == IF 0 \in X THEN extra ELSE 0
<1>1. \A i \in 1..Len(h) : (i \in U <=> i \in P \/ i \in Q) /\ ~(i \in P /\ i \in Q)
  BY DEF PlacesIn
<1>2. e(R) = e(S) + e({w}) /\ e(S) \in Nat /\ e({w}) \in Nat
  OBVIOUS
<1>3. /\ VolumeIn(h, extra, R) = Volume(h, U) + e(R)
      /\ VolumeIn(h, extra, S) = Volume(h, P) + e(S)
      /\ VolumeIn(h, extra, {w}) = Volume(h, Q) + e({w})
  BY DEF VolumeIn
<1> HIDE DEF P, Q, U, e
<1>4. Volume(h, U) = Volume(h, P) + Volume(h, Q)
  BY <1>1, VolumeUnion
<1>5. Volume(h, P) \in Nat /\ Volume(h, Q) \in Nat
  <2>1. [time |-> 1, qty |-> 0, buy |-> TRUE] \in Entries
    BY DEF Entries
  <2> QED BY <2>1, VolumeAppend
<1>6. \A a, b, x, y \in Nat : (a + b) + (x + y) = (a + x) + (b + y)
  OBVIOUS
<1> QED BY <1>2, <1>3, <1>4, <1>5, <1>6

Increasing(order, c) == /\ \A i \in 1..c : order[i] \in Nat
                        /\ \A i, j \in 1..c : i < j => order[i] < order[j]
VolumesFrom(q, d, order, h, extra) ==
    \A i \in 1..Len(q) : q[i] = VolumeIn(h, extra, {order[d + i]})

\* The archived volumes add up to the volume of the windows they are of.
LEMMA ArchivedVolumes ==
    ASSUME NEW h \in Seq(Entries), NEW extra \in Nat, NEW q \in Seq(Nat), NEW d \in Nat,
           NEW c, c = d + Len(q), NEW order, Increasing(order, c),
           VolumesFrom(q, d, order, h, extra)
    PROVE  Accumulate(q) = VolumeIn(h, extra, Rest(order, d, c))
<1> DEFINE N == Len(q)
           First(n) == {order[i] : i \in (d + 1)..(d + n)}
<1>1. PICK f : Totals(q, f) /\ Accumulate(q) = f[Len(q)]
  BY AccumulateTurns
<1>2. /\ f \in [0..N -> Nat] /\ f[0] = 0 /\ N \in Nat /\ c = d + N
      /\ \A n \in 1..N : f[n] = f[n - 1] + q[n]
  BY <1>1 DEF Totals
<1>3. \A i \in 1..N : q[i] = VolumeIn(h, extra, {order[d + i]})
  BY DEF VolumesFrom
<1>4. /\ \A i, j \in 1..c : i < j => order[i] < order[j]
      /\ \A i \in 1..c : order[i] \in Nat
  BY DEF Increasing
<1> HIDE DEF N
<1> DEFINE V == {n \in Nat : n <= N => f[n] = VolumeIn(h, extra, First(n))}
<1>5. 0 \in V
  <2>1. First(0) = {}
    OBVIOUS
  <2>2. \A i \in 1..Len(h) : i \notin PlacesIn(h, {})
    BY DEF PlacesIn
  <2>3. Volume(h, PlacesIn(h, {})) = 0
    BY <2>2, VolumeOfNone
  <2>4. VolumeIn(h, extra, {}) = 0
    BY <2>3 DEF VolumeIn
  <2> HIDE DEF First
  <2> QED BY <1>2, <2>1, <2>4
<1>6. ASSUME NEW n \in Nat, n \in V PROVE n + 1 \in V
  <2> SUFFICES ASSUME n + 1 <= N PROVE f[n + 1] = VolumeIn(h, extra, First(n + 1))
    OBVIOUS
  <2>1. /\ n + 1 \in 1..N /\ (n + 1) - 1 = n /\ d + (n + 1) \in 1..c
        /\ (d + 1)..(d + (n + 1)) = ((d + 1)..(d + n)) \cup {d + (n + 1)}
        /\ \A i \in (d + 1)..(d + n) : i \in 1..c /\ i < d + (n + 1)
    <3>1. N \in Nat /\ c = d + N
      BY <1>2
    <3>2. n + 1 \in 1..N /\ (n + 1) - 1 = n /\ d + (n + 1) \in 1..c
      BY <3>1
    <3>3. (d + 1)..(d + (n + 1)) = ((d + 1)..(d + n)) \cup {d + (n + 1)}
      <4>1. \A a \in Nat, b \in Nat : a <= b + 1 => a..(b + 1) = (a..b) \cup {b + 1}
        OBVIOUS
      <4>2. d + 1 \in Nat /\ d + n \in Nat /\ d + 1 <= (d + n) + 1 /\ (d + n) + 1 = d + (n + 1)
        OBVIOUS
      <4> QED BY <4>1, <4>2
    <3>4. \A i \in (d + 1)..(d + n) : i \in 1..c /\ i < d + (n + 1)
      BY <3>1
    <3> QED BY <3>2, <3>3, <3>4
  <2> DEFINE w == order[d + (n + 1)]
  <2>2. First(n + 1) = First(n) \cup {w}
    BY <2>1
  <2>3. w \notin First(n)
    <3>1. w \in Nat /\ \A i \in (d + 1)..(d + n) : order[i] < w /\ order[i] \in Nat
      BY <1>4, <2>1
    <3> HIDE DEF w
    <3> QED BY <3>1
  <2>4. f[n] = VolumeIn(h, extra, First(n))
    BY <1>2, <1>6
  <2> HIDE DEF First
  <2>5. f[n + 1] = f[n] + VolumeIn(h, extra, {w})
    BY <1>2, <1>3, <2>1
  <2> HIDE DEF w
  <2>6. VolumeIn(h, extra, First(n + 1)) = VolumeIn(h, extra, First(n)) + VolumeIn(h, extra, {w})
    BY <2>2, <2>3, VolumeInUnion
  <2> QED BY <2>4, <2>5, <2>6
<1> HIDE DEF V, First
<1>7. N \in V
  BY <1>2, <1>5, <1>6, InductionOnSet
<1>8. f[N] = VolumeIn(h, extra, First(N))
  BY <1>2, <1>7 DEF V
<1> QED BY <1>1, <1>2, <1>8 DEF First, Rest, N

Counted(order, c, S) == /\ Cardinality(S) = c
                        /\ \A i \in 1..c : Cardinality(Later(S, order[i])) = c - i + 1

\* Which of the listed windows are among the last SmaWindows.
LEMMA ListedCounts ==
    ASSUME NEW c \in Nat, NEW order, NEW S, S \subseteq Nat, Lists(order, c, S)
    PROVE  Counted(order, c, S)
<1>1. /\ order \in [1..c -> S] /\ \A i, j \in 1..c : i < j => order[i] < order[j]
      /\ \A w \in S : \E i \in 1..c : order[i] = w
      /\ \A i \in 1..c : order[i] \in Nat /\ order[i] \in S
  BY DEF Lists
<1>2. \A k \in 0..c : Cardinality(Rest(order, k, c)) = c - k
  BY <1>1, IncreasingCounts
<1>3. S = Rest(order, 0, c)
  <2>1. (0 + 1)..c = 1..c
    OBVIOUS
  <2> QED BY <1>1, <2>1 DEF Rest
<1>4. ASSUME NEW i \in 1..c PROVE Later(S, order[i]) = Rest(order, i - 1, c)
  <2>1. (i - 1) + 1 = i /\ i..c \subseteq 1..c
    OBVIOUS
  <2>2. ASSUME NEW j \in 1..c PROVE order[j] >= order[i] <=> j \in i..c
    <3>1. order[i] \in Nat /\ order[j] \in Nat
      BY <1>1
    <3>2. CASE j < i
      BY <1>1, <3>1, <3>2
    <3>3. CASE j = i
      BY <3>1, <3>3
    <3>4. CASE j > i
      BY <1>1, <3>1, <3>4
    <3> QED BY <3>2, <3>3, <3>4
  <2>3. Rest(order, i - 1, c) = {order[j] : j \in i..c}
    BY <2>1 DEF Rest
  <2>4. Later(S, order[i]) = {order[j] : j \in i..c}
    BY <1>1, <2>1, <2>2 DEF Later
  <2> QED BY <2>3, <2>4
<1>5. Cardinality(S) = c
  <2>1. 0 \in 0..c /\ c - 0 = c
    OBVIOUS
  <2> QED BY <1>2, <1>3, <2>1
<1>6. ASSUME NEW i \in 1..c PROVE Cardinality(Later(S, order[i])) = c - i + 1
  <2>1. i - 1 \in 0..c /\ c - (i - 1) = c - i + 1
    OBVIOUS
  <2>2. Cardinality(Later(S, order[i])) = Cardinality(Rest(order, i - 1, c))
    BY <1>4
  <2> QED BY <1>2, <2>1, <2>2
<1> QED BY <1>5, <1>6 DEF Counted

Averaged(S) == {w \in S : Cardinality(Later(S, w)) <= SmaWindows}

\* The average over the archived volumes is the one over the last SmaWindows
\* completed windows.
LEMMA AverageIs ==
    ASSUME NEW h \in Seq(Entries), h # <<>>, Ordered(h), NEW extra \in Nat, NEW c \in Nat,
           NEW order, Lists(order, c, Done(h)),
           NEW q \in Seq(Nat), Len(q) <= SmaWindows, Archived(q, c, order, h, extra)
    PROVE  /\ Cardinality(Done(h)) = c
           /\ Mean(q) = <<VolumeIn(h, extra, Averaged(Done(h))), Cardinality(Averaged(Done(h)))>>
           /\ q = <<>> <=> Done(h) = {}
<1> DEFINE S == Done(h)
           d == c - Len(q)
<1>1. S \subseteq Nat /\ Lists(order, c, S)
  BY WindowsProperties DEF Done
<1>2. /\ d \in Nat /\ d \in 0..c /\ c = d + Len(q) /\ Len(q) \in Nat
      /\ d > 0 => Len(q) = SmaWindows
      /\ VolumesFrom(q, d, order, h, extra)
  BY DEF Archived, VolumesFrom
<1> HIDE DEF S, d
<1>3. Cardinality(S) = c /\ \A i \in 1..c : Cardinality(Later(S, order[i])) = c - i + 1
  <2>1. Counted(order, c, S)
    BY <1>1, ListedCounts, Zenon
  <2> QED BY <2>1, Zenon DEF Counted
<1>4. /\ order \in [1..c -> S] /\ \A i, j \in 1..c : i < j => order[i] < order[j]
      /\ \A w \in S : \E i \in 1..c : order[i] = w
  BY <1>1 DEF Lists
<1>5. Averaged(S) = Rest(order, d, c)
  <2>1. ASSUME NEW i \in 1..c PROVE order[i] \in Averaged(S) <=> i \in (d + 1)..c
    <3>1. order[i] \in Averaged(S) <=> c - i + 1 <= SmaWindows
      <4>1. order[i] \in S
        BY <1>4
      <4>2. order[i] \in Averaged(S) <=> Cardinality(Later(S, order[i])) <= SmaWindows
        BY <4>1 DEF Averaged
      <4> QED BY <1>3, <4>2
    <3>2. c - i + 1 <= SmaWindows <=> i \in (d + 1)..c
      BY <1>2, TradeWindowAssumption
    <3> QED BY <3>1, <3>2
  <2>2. Averaged(S) \subseteq S
    BY DEF Averaged
  <2>3. (d + 1)..c \subseteq 1..c
    BY <1>2
  <2>4. ASSUME NEW w \in Averaged(S) PROVE w \in Rest(order, d, c)
    <3>1. PICK i \in 1..c : order[i] = w
      BY <1>4, <2>2
    <3>2. i \in (d + 1)..c
      BY <2>1, <3>1
    <3> QED BY <3>1, <3>2 DEF Rest
  <2>5. ASSUME NEW w \in Rest(order, d, c) PROVE w \in Averaged(S)
    <3>1. PICK i \in (d + 1)..c : order[i] = w
      BY DEF Rest
    <3> QED BY <2>1, <2>3, <3>1
  <2> QED BY <2>4, <2>5
<1>6. Cardinality(Rest(order, d, c)) = Len(q)
  <2>1. Cardinality(Rest(order, d, c)) = c - d
    BY <1>1, <1>2, <1>4, IncreasingCounts
  <2> QED BY <1>2, <2>1
<1>7. Accumulate(q) = VolumeIn(h, extra, Rest(order, d, c))
  <2>1. Increasing(order, c)
    BY <1>1, <1>4 DEF Increasing
  <2> QED BY <1>2, <2>1, ArchivedVolumes
<1>8. Mean(q) = <<VolumeIn(h, extra, Averaged(S)), Cardinality(Averaged(S))>>
  BY <1>5, <1>6, <1>7 DEF Mean
<1>9. q = <<>> <=> S = {}
  <2>1. q = <<>> <=> Len(q) = 0
    OBVIOUS
  <2>2. Len(q) = 0 <=> c = 0
    BY <1>2, TradeWindowAssumption
  <2>3. c = 0 => S = {}
    BY <1>4
  <2>4. c # 0 => S # {}
    <3>1. c # 0 => 1 \in 1..c
      OBVIOUS
    <3> QED BY <1>4, <3>1
  <2> QED BY <2>1, <2>2, <2>3, <2>4
<1> QED BY <1>3, <1>8, <1>9 DEF S

--------------------------------------------------------------------------------
(* update, field by field.                                                 *)

States == [trades : Seq(Entries), completed : Seq(Nat), start : Nat, current : Nat,
           snapshot : Snapshots]

LEMMA FiguresTyped ==
    ASSUME NEW trades \in Seq(Entries), NEW places, NEW q \in Seq(Nat)
    PROVE  Volume(trades, places) \in Nat /\ Mean(q) \in Nat \X Nat
<1>1. Volume(trades, places) \in Nat
  <2>1. [time |-> 1, qty |-> 0, buy |-> TRUE] \in Entries
    BY DEF Entries
  <2> QED BY <2>1, VolumeAppend
<1>2. PICK f : Totals(q, f) /\ Accumulate(q) = f[Len(q)]
  BY AccumulateTurns
<1>3. Accumulate(q) \in Nat
  BY <1>2 DEF Totals
<1> QED BY <1>1, <1>3 DEF Mean

\* The archiving branch.
LEMMA ArchiveFields ==
    ASSUME NEW s \in States, Len(s.completed) <= SmaWindows, NEW at \in Nat
    PROVE  LET a == Archive(s, at, Window, SmaWindows)
           IN /\ a \in States /\ Len(a.completed) <= SmaWindows
              /\ a.trades = s.trades /\ a.current = 0 /\ a.start = at - (at % Window)
              /\ a.completed = Roll(s.completed, s.current, SmaWindows)
              /\ a.snapshot.windows = s.snapshot.windows + 1
              /\ a.snapshot.volumeSma = s.snapshot.volumeSma
<1> DEFINE a == Archive(s, at, Window, SmaWindows)
           rolled == Roll(s.completed, s.current, SmaWindows)
           start == at - (at % Window)
<1>1. rolled \in Seq(Nat) /\ Len(rolled) <= SmaWindows
  BY RollVolumes, TradeWindowAssumption DEF States
<1>2. start \in Nat
  <2>1. at - (at % Window) = Window * (at \div Window) /\ Window * (at \div Window) \in Nat
    BY Quotient, TradeWindowAssumption
  <2> QED BY <2>1
<1>3. a = [s EXCEPT !.completed = rolled, !.snapshot.windows = @ + 1, !.current = 0, !.start = start]
  BY DEF Archive
<1> HIDE DEF a, rolled, start
<1> DEFINE snap == [s.snapshot EXCEPT !.windows = @ + 1]
<1>4. s.snapshot \in Snapshots
  BY DEF States
<1>5. snap \in Snapshots
  <2>1. s.snapshot.windows \in Nat
    BY <1>4 DEF Snapshots
  <2>2. s.snapshot.windows + 1 \in Nat
    BY <2>1
  <2> QED BY <1>4, <2>2 DEF Snapshots
<1>6. /\ snap.windows = s.snapshot.windows + 1
      /\ snap.volumeSma = s.snapshot.volumeSma
  BY <1>4 DEF Snapshots
<1>7. a.snapshot = snap
  BY <1>3 DEF States
<1> HIDE DEF snap
<1>8. a = [trades |-> s.trades, completed |-> rolled, start |-> start, current |-> 0, snapshot |-> snap]
  BY <1>3, <1>7 DEF States
<1>9. /\ a \in States /\ a.trades = s.trades /\ a.current = 0 /\ a.start = start
      /\ a.completed = rolled
  BY <1>1, <1>2, <1>5, <1>8 DEF States
<1> QED BY <1>1, <1>6, <1>7, <1>9 DEF a, rolled, start

LEMMA RecomputeFields ==
    ASSUME NEW s \in States
    PROVE  LET r == Recompute(s)
           IN /\ r \in States /\ r.trades = s.trades /\ r.completed = s.completed
              /\ r.start = s.start /\ r.current = s.current
              /\ r.snapshot.windows = s.snapshot.windows
              /\ r.snapshot.buy = Volume(s.trades, Buys(s.trades))
              /\ r.snapshot.sell = Volume(s.trades, Sells(s.trades))
              /\ r.snapshot.count = Len(s.trades)
              /\ r.snapshot.volumeSma = IF s.completed = <<>> THEN s.snapshot.volumeSma
                                        ELSE Mean(s.completed)
<1> DEFINE r == Recompute(s)
           buy == Volume(s.trades, Buys(s.trades))
           sell == Volume(s.trades, Sells(s.trades))
           count == Len(s.trades)
           sma == IF s.completed = <<>> THEN s.snapshot.volumeSma ELSE Mean(s.completed)
<1>1. s.trades \in Seq(Entries) /\ s.completed \in Seq(Nat) /\ s.snapshot \in Snapshots
  BY DEF States
<1>2. buy \in Nat /\ sell \in Nat /\ count \in Nat /\ sma \in Nat \X Nat
  <2>1. s.snapshot.volumeSma \in Nat \X Nat
    BY <1>1 DEF Snapshots
  <2>2. buy \in Nat /\ sell \in Nat /\ Mean(s.completed) \in Nat \X Nat
    BY <1>1, FiguresTyped
  <2> QED BY <1>1, <2>1, <2>2
<1>3. r = [s EXCEPT !.snapshot.buy = buy, !.snapshot.sell = sell, !.snapshot.count = count,
                    !.snapshot.volumeSma = sma]
  BY DEF Recompute
<1> HIDE DEF r, buy, sell, count, sma
<1> DEFINE snap == [buy |-> buy, sell |-> sell, count |-> count, volumeSma |-> sma,
                    windows |-> s.snapshot.windows]
<1>5. r.snapshot = snap
  BY <1>1, <1>3 DEF Snapshots, States
<1>6. s.snapshot.windows \in Nat
  BY <1>1 DEF Snapshots
<1>7. snap \in Snapshots
  BY <1>2, <1>6 DEF Snapshots
<1>8. r = [trades |-> s.trades, completed |-> s.completed, start |-> s.start,
           current |-> s.current, snapshot |-> snap]
  BY <1>3, <1>5 DEF States
<1>4. /\ r \in States /\ r.trades = s.trades /\ r.completed = s.completed
      /\ r.start = s.start /\ r.current = s.current
      /\ r.snapshot.windows = s.snapshot.windows
      /\ r.snapshot.buy = buy /\ r.snapshot.sell = sell /\ r.snapshot.count = count
      /\ r.snapshot.volumeSma = sma
  BY <1>1, <1>5, <1>7, <1>8 DEF States
<1> QED BY <1>4 DEF r, buy, sell, count, sma

\* When a trade ends the window, and which deques it leaves.
Opened(s, t) == IF s.start = 0 THEN t.time ELSE s.start
Over(s, t) == t.time >= Opened(s, t) + Window
NextDeque(s, t) == Append(ExpireOld(s.trades, Cutoff(t.time, Window)), t)
NextCompleted(s, t) == IF Over(s, t) THEN Roll(s.completed, s.current, SmaWindows) ELSE s.completed

LEMMA UpdateFields ==
    ASSUME NEW s \in States, Len(s.completed) <= SmaWindows, NEW t \in Entries
    PROVE  LET u == UpdateTrades(s, t, Window, SmaWindows)
           IN /\ u \in States /\ Len(u.completed) <= SmaWindows
              /\ u.trades = NextDeque(s, t) /\ u.completed = NextCompleted(s, t)
              /\ u.start = IF Over(s, t) THEN t.time - (t.time % Window) ELSE Opened(s, t)
              /\ u.current = (IF Over(s, t) THEN 0 ELSE s.current) + t.qty
              /\ u.snapshot.windows = s.snapshot.windows + (IF Over(s, t) THEN 1 ELSE 0)
              /\ u.snapshot.volumeSma = IF u.completed = <<>> THEN s.snapshot.volumeSma
                                        ELSE Mean(u.completed)
              /\ u.snapshot.buy = Volume(u.trades, Buys(u.trades))
              /\ u.snapshot.sell = Volume(u.trades, Sells(u.trades))
              /\ u.snapshot.count = Len(u.trades)
<1> DEFINE at == t.time
           opened == IF s.start = 0 THEN [s EXCEPT !.start = at] ELSE s
           inWindow == IF at >= opened.start + Window
                       THEN Archive(opened, at, Window, SmaWindows) ELSE opened
           taken == [inWindow EXCEPT !.trades = Append(ExpireOld(@, Cutoff(at, Window)), t),
                                     !.current = @ + t.qty]
<1>1. at \in Nat /\ t.qty \in Nat
  BY DEF Entries
<1>2. UpdateTrades(s, t, Window, SmaWindows) = Recompute(taken)
  BY DEF UpdateTrades
<1> HIDE DEF at
<1>3. /\ opened \in States /\ opened.start = Opened(s, t) /\ opened.trades = s.trades
      /\ opened.completed = s.completed /\ opened.current = s.current
      /\ opened.snapshot = s.snapshot
  <2>1. at = t.time
    BY DEF at
  <2> QED BY <1>1, <2>1 DEF States, Opened
<1> HIDE DEF opened
<1>4. /\ s.trades \in Seq(Entries) /\ s.snapshot.windows \in Nat /\ s.current \in Nat
      /\ opened.snapshot.windows = s.snapshot.windows
      /\ opened.snapshot.volumeSma = s.snapshot.volumeSma
  BY <1>3 DEF States, Snapshots
<1>5. /\ inWindow \in States /\ Len(inWindow.completed) <= SmaWindows
      /\ inWindow.trades = s.trades /\ inWindow.completed = NextCompleted(s, t)
      /\ inWindow.start = IF Over(s, t) THEN t.time - (t.time % Window) ELSE Opened(s, t)
      /\ inWindow.current = IF Over(s, t) THEN 0 ELSE s.current
      /\ inWindow.snapshot.windows = s.snapshot.windows + (IF Over(s, t) THEN 1 ELSE 0)
      /\ inWindow.snapshot.volumeSma = s.snapshot.volumeSma
  <2>1. Over(s, t) <=> at >= opened.start + Window
    BY <1>3 DEF Over, at
  <2>2. CASE Over(s, t)
    <3>1. inWindow = Archive(opened, at, Window, SmaWindows)
      BY <2>1, <2>2
    <3> HIDE DEF inWindow
    <3>2. /\ inWindow \in States /\ Len(inWindow.completed) <= SmaWindows
          /\ inWindow.trades = opened.trades /\ inWindow.current = 0
          /\ inWindow.start = at - (at % Window)
          /\ inWindow.completed = Roll(opened.completed, opened.current, SmaWindows)
          /\ inWindow.snapshot.windows = opened.snapshot.windows + 1
          /\ inWindow.snapshot.volumeSma = opened.snapshot.volumeSma
      BY <1>1, <1>3, <3>1, ArchiveFields
    <3> QED BY <1>3, <1>4, <2>2, <3>2 DEF NextCompleted, at
  <2>3. CASE ~Over(s, t)
    <3>1. inWindow = opened
      BY <2>1, <2>3
    <3> HIDE DEF inWindow
    <3> QED BY <1>3, <1>4, <2>3, <3>1 DEF NextCompleted
  <2> QED BY <2>2, <2>3
<1> HIDE DEF inWindow
<1>6. NextDeque(s, t) \in Seq(Entries)
  <2>1. Cutoff(t.time, Window) \in Nat
    BY <1>1, TradeWindowAssumption DEF Cutoff, at
  <2>2. PICK n \in 0..Len(s.trades) :
           ExpireOld(s.trades, Cutoff(t.time, Window)) = SubSeq(s.trades, n + 1, Len(s.trades))
    BY <1>4, <2>1, ExpireOldProperties
  <2>3. SubSeq(s.trades, n + 1, Len(s.trades)) \in Seq(Entries)
    BY <1>4, SuffixProperties
  <2> QED BY <2>2, <2>3 DEF NextDeque
<1>7. /\ taken \in States /\ taken.trades = NextDeque(s, t)
      /\ taken.completed = inWindow.completed /\ taken.start = inWindow.start
      /\ taken.current = inWindow.current + t.qty /\ taken.snapshot = inWindow.snapshot
  <2> DEFINE deque == Append(ExpireOld(inWindow.trades, Cutoff(at, Window)), t)
  <2>1. deque = NextDeque(s, t)
    BY <1>5 DEF NextDeque, at
  <2>2. taken = [inWindow EXCEPT !.trades = deque, !.current = @ + t.qty]
    OBVIOUS
  <2> HIDE DEF taken, deque
  <2>3. taken = [trades |-> deque, completed |-> inWindow.completed, start |-> inWindow.start,
                 current |-> inWindow.current + t.qty, snapshot |-> inWindow.snapshot]
    BY <1>5, <2>2 DEF States
  <2>4. /\ inWindow.completed \in Seq(Nat) /\ inWindow.start \in Nat
        /\ inWindow.current + t.qty \in Nat /\ inWindow.snapshot \in Snapshots
        /\ deque \in Seq(Entries)
    BY <1>1, <1>5, <1>6, <2>1 DEF States
  <2> QED BY <2>1, <2>3, <2>4 DEF States
<1> HIDE DEF taken
<1> DEFINE u == Recompute(taken)
<1>8. /\ u \in States /\ u.trades = taken.trades /\ u.completed = taken.completed
      /\ u.start = taken.start /\ u.current = taken.current
      /\ u.snapshot.windows = taken.snapshot.windows
      /\ u.snapshot.buy = Volume(taken.trades, Buys(taken.trades))
      /\ u.snapshot.sell = Volume(taken.trades, Sells(taken.trades))
      /\ u.snapshot.count = Len(taken.trades)
      /\ u.snapshot.volumeSma = IF taken.completed = <<>> THEN taken.snapshot.volumeSma
                                ELSE Mean(taken.completed)
  BY <1>7, RecomputeFields
<1> HIDE DEF u
<1>9. UpdateTrades(s, t, Window, SmaWindows) = u
  BY <1>2 DEF u
<1> QED BY <1>5, <1>7, <1>8, <1>9

--------------------------------------------------------------------------------
(* The parts of the invariant as predicates of an aggregator s, a history h *)
(* and the volume extra carried over a reset().                            *)

DequeIs(s, h) ==
    \E k \in 0..(Len(h) - 1) :
        /\ s.trades = SubSeq(h, k + 1, Len(h))
        /\ \A i \in 1..Len(h) : i > k <=> h[i].time >= Cutoff(h[Len(h)].time, Window)

RecentIn(h) == {i \in 1..Len(h) : h[i].time >= h[Len(h)].time - Window}
FiguresAre(s, h) == /\ s.snapshot.buy = Volume(h, RecentIn(h) \cap Buys(h))
                    /\ s.snapshot.sell = Volume(h, RecentIn(h) \cap Sells(h))
                    /\ s.snapshot.count = Cardinality(RecentIn(h))

AverageFollows(s) ==
    s.snapshot.volumeSma = IF s.completed = <<>> THEN <<0, 1>> ELSE Mean(s.completed)

ArchiveIs(s, h, extra) ==
    /\ s.start = StartOf(h[1].time, Newest(h), Window)
    /\ s.current = VolumeIn(h, extra, {Newest(h)})
    /\ \E order : /\ Lists(order, s.snapshot.windows, Done(h))
                  /\ Archived(s.completed, s.snapshot.windows, order, h, extra)
    /\ AverageFollows(s)

Typed(s, h, extra) == /\ s \in States /\ Len(s.completed) <= SmaWindows
                      /\ h \in Seq(Entries) /\ extra \in Nat

\* The deque and its figures after a trade.
LEMMA DequeKept ==
    ASSUME NEW h \in Seq(Entries), Ordered(h), NEW t \in Entries, NEW s \in States,
           Len(s.completed) <= SmaWindows,
           NEW k \in 0..Len(h), s.trades = SubSeq(h, k + 1, Len(h)),
           \A i \in 1..k : h[i].time < Cutoff(t.time, Window)
    PROVE  LET u == UpdateTrades(s, t, Window, SmaWindows)
           IN DequeIs(u, Append(h, t)) /\ FiguresAre(u, Append(h, t))
<1> DEFINE u == UpdateTrades(s, t, Window, SmaWindows)
           more == Append(h, t)
<1>1. /\ u.trades = Append(ExpireOld(s.trades, Cutoff(t.time, Window)), t)
      /\ u.snapshot.buy = Volume(u.trades, Buys(u.trades))
      /\ u.snapshot.sell = Volume(u.trades, Sells(u.trades))
      /\ u.snapshot.count = Len(u.trades)
  BY UpdateFields DEF NextDeque
<1>2. PICK n \in 0..Len(h) :
         /\ Append(ExpireOld(s.trades, Cutoff(t.time, Window)), t) = SubSeq(more, n + 1, Len(more))
         /\ \A i \in 1..Len(more) : i > n <=> more[i].time >= Cutoff(t.time, Window)
  BY DequeStep, TradeWindowAssumption
<1>3. /\ more \in Seq(Entries) /\ Len(more) = Len(h) + 1 /\ more[Len(more)] = t
      /\ n \in 0..(Len(more) - 1)
  OBVIOUS
<1> HIDE DEF u, more
<1>4. \A i \in 1..Len(more) : i > n <=> more[i].time >= Cutoff(more[Len(more)].time, Window)
  BY <1>2, <1>3
<1>5. DequeIs(u, more)
  BY <1>1, <1>2, <1>3, <1>4 DEF DequeIs
<1> DEFINE deque == SubSeq(more, n + 1, Len(more))
<1>6. /\ Volume(deque, Buys(deque)) = Volume(more, RecentIn(more) \cap Buys(more))
      /\ Volume(deque, Sells(deque)) = Volume(more, RecentIn(more) \cap Sells(more))
      /\ Len(deque) = Cardinality(RecentIn(more))
  BY <1>3, <1>4, SlidingFigures, TradeWindowAssumption DEF RecentIn
<1>7. u.trades = deque
  BY <1>1, <1>2
<1> HIDE DEF deque
<1>8. FiguresAre(u, more)
  BY <1>1, <1>6, <1>7 DEF FiguresAre
<1> QED BY <1>5, <1>8 DEF u, more

\* The archive after a further trade.
LEMMA ArchiveKept ==
    ASSUME NEW s, NEW h, NEW extra, Typed(s, h, extra), h # <<>>, Ordered(h),
           ArchiveIs(s, h, extra), NEW t \in Entries, h[Len(h)].time <= t.time
    PROVE  ArchiveIs(UpdateTrades(s, t, Window, SmaWindows), Append(h, t), extra)
<1> DEFINE u == UpdateTrades(s, t, Window, SmaWindows)
           more == Append(h, t)
           c == s.snapshot.windows
           q == s.completed
<1>1. /\ s \in States /\ Len(q) <= SmaWindows /\ h \in Seq(Entries) /\ extra \in Nat
      /\ c \in Nat /\ q \in Seq(Nat)
  BY DEF Typed, States, Snapshots
<1>2. PICK order : Lists(order, c, Done(h)) /\ Archived(q, c, order, h, extra)
  BY DEF ArchiveIs
<1>3. /\ s.start = StartOf(h[1].time, Newest(h), Window)
      /\ s.current = VolumeIn(h, extra, {Newest(h)})
      /\ AverageFollows(s)
  BY DEF ArchiveIs
<1>4. /\ u.completed = NextCompleted(s, t)
      /\ u.start = IF Over(s, t) THEN t.time - (t.time % Window) ELSE Opened(s, t)
      /\ u.current = (IF Over(s, t) THEN 0 ELSE s.current) + t.qty
      /\ u.snapshot.windows = c + (IF Over(s, t) THEN 1 ELSE 0)
      /\ u.snapshot.volumeSma = IF u.completed = <<>> THEN s.snapshot.volumeSma
                                ELSE Mean(u.completed)
  BY <1>1, UpdateFields
<1> HIDE DEF u
<1>5. /\ more[1] = h[1] /\ Newest(more) = WindowAt(h[1].time, t.time, Window)
      /\ Newest(more) \in Nat
  BY <1>1, HistoryStep
<1>6. h[1].time \in Nat \ {0} /\ h[Len(h)].time \in Nat /\ t.time \in Nat /\ t.qty \in Nat
  <2>1. 1 \in 1..Len(h) /\ Len(h) \in 1..Len(h)
    BY <1>1
  <2>2. t.time \in Nat /\ t.qty \in Nat
    BY DEF Entries
  <2> QED BY <1>1, <2>1, <2>2, TimesTyped
<1>7. /\ s.start \in Nat \ {0}
      /\ t.time >= s.start + Window <=> Newest(more) # Newest(h)
      /\ Newest(more) # Newest(h)
            => t.time - (t.time % Window) = StartOf(h[1].time, Newest(more), Window)
  <2>1. Newest(h) = WindowAt(h[1].time, h[Len(h)].time, Window)
    BY DEF Newest, WindowIn
  <2> DEFINE first == h[1].time
             last == h[Len(h)].time
             time == t.time
             v == WindowAt(first, last, Window)
             w == WindowAt(first, time, Window)
  <2>2. /\ first \in Nat \ {0} /\ last \in Nat /\ time \in Nat /\ last <= time
        /\ Window \in Nat \ {0}
    BY <1>6, TradeWindowAssumption
  <2>3. /\ Newest(h) = v /\ Newest(more) = w /\ s.start = StartOf(first, Newest(h), Window)
    BY <1>3, <1>5, <2>1
  <2> HIDE DEF first, last, time
  <2>4. /\ StartOf(first, v, Window) \in Nat \ {0}
        /\ time >= StartOf(first, v, Window) + Window <=> w # v
        /\ w # v => time - (time % Window) = StartOf(first, w, Window)
    <3>1. StartOf(first, v, Window) \in Nat \ {0}
      BY <2>2, WindowCrossing
    <3>2. time >= StartOf(first, v, Window) + Window <=> w # v
      BY <2>2, WindowCrossing
    <3>3. w # v => time - (time % Window) = StartOf(first, w, Window)
      BY <2>2, WindowCrossing
    <3> QED BY <3>1, <3>2, <3>3
  <2> HIDE DEF v, w
  <2> QED BY <2>3, <2>4, Zenon DEF first, time
<1>8. Opened(s, t) = s.start /\ (Over(s, t) <=> Newest(more) # Newest(h))
  BY <1>7 DEF Over, Opened
<1>9. u.start = StartOf(more[1].time, Newest(more), Window)
  BY <1>3, <1>4, <1>5, <1>7, <1>8
<1>10. u.current = VolumeIn(more, extra, {Newest(more)})
  <2>1. VolumeIn(more, extra, {Newest(more)}) = VolumeIn(h, extra, {Newest(more)}) + t.qty
    BY <1>1, HistoryVolume
  <2>2. CASE Newest(more) = Newest(h)
    BY <1>3, <1>4, <1>8, <2>1, <2>2
  <2>3. CASE Newest(more) # Newest(h)
    <3>1. VolumeIn(h, extra, {Newest(more)}) = 0
      BY <1>1, <2>3, HistoryOpens
    <3> QED BY <1>4, <1>8, <2>1, <2>3, <3>1
  <2> QED BY <2>2, <2>3
<1>11. \E next : /\ Lists(next, u.snapshot.windows, Done(more))
                 /\ Archived(u.completed, u.snapshot.windows, next, more, extra)
  <2>1. CASE Newest(more) = Newest(h)
    <3>1. u.snapshot.windows = c /\ u.completed = q
      BY <1>1, <1>4, <1>8, <2>1 DEF NextCompleted
    <3>2. Done(more) = Done(h) /\ Archived(q, c, order, more, extra)
      BY <1>1, <1>2, <2>1, ArchiveStays
    <3> QED BY <1>2, <3>1, <3>2
  <2>2. CASE Newest(more) # Newest(h)
    <3> DEFINE r == Roll(q, VolumeIn(h, extra, {Newest(h)}), SmaWindows)
    <3>1. u.snapshot.windows = c + 1 /\ u.completed = r
      BY <1>1, <1>3, <1>4, <1>8, <2>2 DEF NextCompleted
    <3>2. PICK next : Lists(next, c + 1, Done(more)) /\ Archived(r, c + 1, next, more, extra)
      BY <1>1, <1>2, <2>2, ArchiveAdvances
    <3> HIDE DEF r
    <3> QED BY <3>1, <3>2
  <2> QED BY <2>1, <2>2
<1>12. AverageFollows(u)
  <2>1. CASE u.completed = <<>>
    <3>1. ~Over(s, t)
      <4> SUFFICES ASSUME Over(s, t) PROVE FALSE
        OBVIOUS
      <4>1. u.completed = Roll(q, s.current, SmaWindows)
        BY <1>4 DEF NextCompleted
      <4>2. s.current \in Nat
        BY <1>1 DEF States
      <4>3. Roll(q, s.current, SmaWindows) # <<>>
        BY <1>1, <4>2, RollVolumes, TradeWindowAssumption
      <4> QED BY <2>1, <4>1, <4>3
    <3>2. q = <<>>
      BY <1>4, <2>1, <3>1 DEF NextCompleted
    <3> QED BY <1>3, <1>4, <2>1, <3>2 DEF AverageFollows
  <2>2. CASE u.completed # <<>>
    BY <1>4, <2>2 DEF AverageFollows
  <2> QED BY <2>1, <2>2
<1> HIDE DEF more
<1> QED BY <1>9, <1>10, <1>11, <1>12 DEF ArchiveIs, u, more

\* The invariant, and what it says of the average.
Follows(s, h, extra) == DequeIs(s, h) /\ ArchiveIs(s, h, extra) /\ FiguresAre(s, h)
Holds(s, h, extra) ==
    /\ Typed(s, h, extra) /\ Ordered(h)
    /\ IF h = <<>> THEN s = [EmptyTrades EXCEPT !.current = extra] ELSE Follows(s, h, extra)
SmaIs(s, h, extra) ==
    /\ s.current = VolumeIn(h, extra, {Newest(h)})
    /\ s.snapshot.windows = Cardinality(Done(h))
    /\ s.snapshot.volumeSma = IF Done(h) = {} THEN <<0, 1>>
                              ELSE <<VolumeIn(h, extra, Averaged(Done(h))),
                                     Cardinality(Averaged(Done(h)))>>

LEMMA AverageHolds ==
    ASSUME NEW s, NEW h, NEW extra, Holds(s, h, extra), h # <<>>
    PROVE  SmaIs(s, h, extra)
<1>1. /\ Len(s.completed) <= SmaWindows /\ h \in Seq(Entries) /\ extra \in Nat
      /\ s.completed \in Seq(Nat) /\ s.snapshot.windows \in Nat /\ Ordered(h)
  BY DEF Holds, Typed, States, Snapshots
<1>2. ArchiveIs(s, h, extra)
  BY DEF Holds, Follows
<1>3. PICK order : /\ Lists(order, s.snapshot.windows, Done(h))
                   /\ Archived(s.completed, s.snapshot.windows, order, h, extra)
  BY <1>2 DEF ArchiveIs
<1>4. /\ Cardinality(Done(h)) = s.snapshot.windows
      /\ Mean(s.completed) = <<VolumeIn(h, extra, Averaged(Done(h))),
                               Cardinality(Averaged(Done(h)))>>
      /\ s.completed = <<>> <=> Done(h) = {}
  BY <1>1, <1>3, AverageIs
<1> QED BY <1>2, <1>4 DEF ArchiveIs, AverageFollows, SmaIs

LEMMA FurtherTrade ==
    ASSUME NEW s, NEW h, NEW extra, Holds(s, h, extra), h # <<>>,
           NEW t \in Entries, h[Len(h)].time <= t.time
    PROVE  Holds(UpdateTrades(s, t, Window, SmaWindows), Append(h, t), extra)
<1> DEFINE u == UpdateTrades(s, t, Window, SmaWindows)
<1>1. /\ s \in States /\ Len(s.completed) <= SmaWindows /\ h \in Seq(Entries) /\ extra \in Nat
      /\ Ordered(h) /\ Typed(s, h, extra)
  BY DEF Holds, Typed
<1>2. DequeIs(s, h) /\ ArchiveIs(s, h, extra)
  BY DEF Holds, Follows
<1>3. ArchiveIs(u, Append(h, t), extra)
  BY <1>1, <1>2, ArchiveKept
<1>4. PICK k \in 0..(Len(h) - 1) :
         /\ s.trades = SubSeq(h, k + 1, Len(h))
         /\ \A i \in 1..Len(h) : i > k <=> h[i].time >= Cutoff(h[Len(h)].time, Window)
  BY <1>2 DEF DequeIs
<1>5. k \in 0..Len(h) /\ \A i \in 1..k : i \in 1..Len(h) /\ ~(i > k)
  BY <1>1, <1>4
<1>6. ASSUME NEW i \in 1..k PROVE h[i].time < Cutoff(t.time, Window)
  <2>1. /\ h[i].time \in Nat /\ h[Len(h)].time \in Nat /\ t.time \in Nat
    <3>1. i \in 1..Len(h) /\ Len(h) \in 1..Len(h)
      BY <1>1, <1>5
    <3>2. t.time \in Nat
      BY DEF Entries
    <3> QED BY <1>1, <3>1, <3>2, TimesTyped
  <2>2. ~(h[i].time >= Cutoff(h[Len(h)].time, Window))
    BY <1>4, <1>5
  <2>3. /\ Cutoff(h[Len(h)].time, Window) \in Nat /\ Cutoff(t.time, Window) \in Nat
        /\ Cutoff(h[Len(h)].time, Window) <= Cutoff(t.time, Window)
    BY <2>1, CutoffProperties, TradeWindowAssumption
  <2> QED BY <2>1, <2>2, <2>3
<1>7. DequeIs(u, Append(h, t)) /\ FiguresAre(u, Append(h, t))
  BY <1>1, <1>4, <1>5, <1>6, DequeKept
<1>8. u \in States /\ Len(u.completed) <= SmaWindows
  BY <1>1, UpdateFields
<1> HIDE DEF u
<1>9. Append(h, t) \in Seq(Entries) /\ Append(h, t) # <<>> /\ Ordered(Append(h, t))
  BY <1>1, HistoryStep
<1>10. Typed(u, Append(h, t), extra)
  BY <1>1, <1>8, <1>9 DEF Typed
<1> QED BY <1>3, <1>7, <1>9, <1>10 DEF Holds, Follows, u

\* An aggregator as constructed, or as reset() leaves it.
LEMMA ResetFields ==
    ASSUME NEW extra \in Nat
    PROVE  LET s == [EmptyTrades EXCEPT !.current = extra]
           IN /\ s \in States /\ s.completed = <<>> /\ s.start = 0 /\ s.current = extra
              /\ s.trades = <<>> /\ s.snapshot.windows = 0 /\ s.snapshot.volumeSma = <<0, 1>>
              /\ Holds(s, <<>>, extra)
<1> DEFINE s == [EmptyTrades EXCEPT !.current = extra]
<1>1. s = [trades |-> <<>>, completed |-> <<>>, start |-> 0, current |-> extra,
           snapshot |-> EmptyTradeSnapshot]
  BY DEF EmptyTrades
<1>2. /\ EmptyTradeSnapshot \in Snapshots
      /\ EmptyTradeSnapshot.windows = 0 /\ EmptyTradeSnapshot.volumeSma = <<0, 1>>
  BY DEF EmptyTradeSnapshot, Snapshots
<1>3. s = [EmptyTrades EXCEPT !.current = extra]
  OBVIOUS
<1> HIDE DEF s
<1>4. /\ s \in States /\ s.completed = <<>> /\ s.start = 0 /\ s.current = extra
      /\ s.trades = <<>> /\ s.snapshot.windows = 0 /\ s.snapshot.volumeSma = <<0, 1>>
  BY <1>1, <1>2 DEF States
<1>5. Typed(s, <<>>, extra)
  BY <1>4, TradeWindowAssumption DEF Typed
<1>6. Ordered(<<>>)
  BY DEF Ordered
<1>7. Holds(s, <<>>, extra)
  BY <1>3, <1>5, <1>6, Zenon DEF Holds
<1> QED BY <1>4, <1>7 DEF s

LEMMA FirstTrade ==
    ASSUME NEW extra \in Nat, NEW t \in Entries
    PROVE  Holds(UpdateTrades([EmptyTrades EXCEPT !.current = extra], t, Window, SmaWindows),
                 Append(<<>>, t), extra)
<1> DEFINE s == [EmptyTrades EXCEPT !.current = extra]
           h == Append(<<>>, t)
           u == UpdateTrades(s, t, Window, SmaWindows)
<1>1. /\ s \in States /\ s.completed = <<>> /\ s.start = 0 /\ s.current = extra /\ s.trades = <<>>
      /\ s.snapshot.windows = 0 /\ s.snapshot.volumeSma = <<0, 1>>
  BY ResetFields
<1> HIDE DEF s
<1>2. /\ h \in Seq(Entries) /\ Len(h) = 1 /\ h[1] = t /\ h # <<>>
      /\ <<>> \in Seq(Entries) /\ Len(<<>>) = 0
      /\ t.time \in Nat \ {0} /\ t.time \in Nat /\ t.qty \in Nat
  BY DEF Entries
<1>3. Len(s.completed) <= SmaWindows /\ Window \in Nat \ {0}
  BY <1>1, <1>2, TradeWindowAssumption
<1>4. Opened(s, t) = t.time /\ ~Over(s, t)
  BY <1>1, <1>2, <1>3 DEF Opened, Over
<1>5. /\ u \in States /\ Len(u.completed) <= SmaWindows /\ u.completed = NextCompleted(s, t)
      /\ u.start = IF Over(s, t) THEN t.time - (t.time % Window) ELSE Opened(s, t)
      /\ u.current = (IF Over(s, t) THEN 0 ELSE s.current) + t.qty
      /\ u.snapshot.windows = s.snapshot.windows + (IF Over(s, t) THEN 1 ELSE 0)
      /\ u.snapshot.volumeSma = IF u.completed = <<>> THEN s.snapshot.volumeSma
                                ELSE Mean(u.completed)
  BY <1>1, <1>3, UpdateFields
<1>6. DequeIs(u, h) /\ FiguresAre(u, h)
  <2>1. Ordered(<<>>)
    BY <1>2 DEF Ordered
  <2>2. 0 \in 0..Len(<<>>) /\ SubSeq(<<>>, 0 + 1, Len(<<>>)) = <<>>
    BY <1>2
  <2>3. \A i \in 1..0 : <<>>[i].time < Cutoff(t.time, Window)
    OBVIOUS
  <2> QED BY <1>1, <1>2, <1>3, <2>1, <2>2, <2>3, DequeKept
<1> HIDE DEF u
<1>7. /\ u.completed = <<>> /\ u.start = t.time /\ u.current = extra + t.qty
      /\ u.snapshot.windows = 0 /\ u.snapshot.volumeSma = <<0, 1>>
  BY <1>1, <1>4, <1>5 DEF NextCompleted
<1>8. Newest(h) = 0 /\ Windows(h) = {0} /\ Done(h) = {}
  <2>1. WindowIn(h, 1) = 0
    BY <1>2, <1>3 DEF WindowIn, WindowAt
  <2>2. 1..Len(h) = {1}
    BY <1>2
  <2> HIDE DEF h
  <2> QED BY <1>2, <2>1, <2>2 DEF Newest, Windows, Done
<1>9. VolumeIn(h, extra, {0}) = extra + t.qty
  <2> DEFINE P == PlacesIn(h, {0})
  <2>1. 1 \in P
    BY <1>2, <1>8 DEF PlacesIn, Newest
  <2> DEFINE e == <<>>
             none == {}
  <2>2. e \in Seq(Entries) /\ Len(e) = 0 /\ h = Append(e, t) /\ \A i \in 1..Len(e) : i \notin none
    BY <1>2
  <2> HIDE DEF P, e, none, h
  <2>3. Volume(e, none) = 0
    BY <2>2, VolumeOfNone
  <2>4. Volume(Append(e, t), P) = Volume(e, none) + (IF Len(e) + 1 \in P THEN t.qty ELSE 0)
    <3>1. \A i \in 1..Len(e) : i \in none <=> i \in P
      BY <2>2
    <3>2. e \in Seq(Entries)
      BY <2>2
    <3> QED BY <3>1, <3>2, VolumeAppend
  <2>5. Volume(h, P) = t.qty
    BY <1>2, <2>1, <2>2, <2>3, <2>4
  <2> QED BY <1>2, <2>5 DEF VolumeIn, P
<1>10. ArchiveIs(u, h, extra)
  <2> DEFINE order == [i \in 1..0 |-> 0]
  <2>1. Lists(order, 0, {})
    BY DEF Lists
  <2>2. Archived(<<>>, 0, order, h, extra)
    BY <1>2 DEF Archived
  <2> HIDE DEF order, h
  <2>3. \E o : Lists(o, u.snapshot.windows, Done(h)) /\ Archived(u.completed, u.snapshot.windows, o, h, extra)
    BY <1>7, <1>8, <2>1, <2>2
  <2>4. u.start = StartOf(h[1].time, Newest(h), Window)
    BY <1>2, <1>7, <1>8 DEF StartOf
  <2>5. AverageFollows(u)
    BY <1>7 DEF AverageFollows
  <2> QED BY <1>7, <1>8, <1>9, <2>3, <2>4, <2>5 DEF ArchiveIs
<1>11. Ordered(h)
  BY <1>2 DEF Ordered
<1>12. Typed(u, h, extra)
  BY <1>2, <1>5 DEF Typed
<1> HIDE DEF h
<1>13. Holds(u, h, extra)
  BY <1>2, <1>6, <1>10, <1>11, <1>12 DEF Holds, Follows
<1> QED BY <1>13 DEF u, h, s

--------------------------------------------------------------------------------
(* TradeWindow's definitions in these terms, and the theorems.             *)

LEMMA WindowsAre ==
    /\ Completed = Done(history) /\ WindowOf(now) = Newest(history)
    /\ \A S : VolumeOf(S) = VolumeIn(history, carried, S)
<1>1. \A i : WindowOf(history[i].time) = WindowIn(history, i)
  BY DEF WindowOf, WindowIn, WindowAt
<1>2. WindowOf(now) = Newest(history)
  BY <1>1 DEF now, Newest
<1>3. Completed = Done(history)
  BY <1>1, <1>2 DEF Completed, Done, Windows
<1>4. ASSUME NEW S PROVE VolumeOf(S) = VolumeIn(history, carried, S)
  <2>1. {i \in 1..Len(history) : WindowOf(history[i].time) \in S} = PlacesIn(history, S)
    BY <1>1 DEF PlacesIn
  <2> QED BY <2>1, Zenon DEF VolumeOf, VolumeIn
<1> QED BY <1>2, <1>3, <1>4

LEMMA ArchiveAgrees ==
    history # <<>> => (ArchiveFollows <=> ArchiveIs(state, history, carried))
<1> DEFINE c == state.snapshot.windows
           q == state.completed
           Orders == [1..c -> Completed]
           Good(order) == /\ \A i, j \in 1..c : i < j => order[i] < order[j]
                          /\ \A w \in Completed : \E i \in 1..c : order[i] = w
                          /\ LET dropped == c - Len(q)
                             IN /\ dropped >= 0 /\ (dropped > 0 => Len(q) = SmaWindows)
                                /\ \A i \in 1..Len(q) : q[i] = VolumeOf({order[dropped + i]})
<1>1. /\ Completed = Done(history) /\ WindowOf(now) = Newest(history)
      /\ \A S : VolumeOf(S) = VolumeIn(history, carried, S)
  BY WindowsAre
<1>2. \A order : order \in Orders /\ Good(order)
                   <=> Lists(order, c, Done(history)) /\ Archived(q, c, order, history, carried)
  BY <1>1 DEF Lists, Archived
<1>3. ArchiveFollows <=>
         /\ state.start = IF WindowOf(now) = 0 THEN history[1].time ELSE Window * WindowOf(now)
         /\ state.current = VolumeOf({WindowOf(now)})
         /\ \E order \in Orders : Good(order)
         /\ state.snapshot.volumeSma = IF q = <<>> THEN <<0, 1>> ELSE Mean(q)
  BY Zenon DEF ArchiveFollows
<1> HIDE DEF Orders, Good, c, q
<1>4. /\ (IF WindowOf(now) = 0 THEN history[1].time ELSE Window * WindowOf(now))
            = StartOf(history[1].time, Newest(history), Window)
      /\ VolumeOf({WindowOf(now)}) = VolumeIn(history, carried, {Newest(history)})
  BY <1>1 DEF StartOf
<1>5. (\E order \in Orders : Good(order))
         <=> \E order : Lists(order, c, Done(history)) /\ Archived(q, c, order, history, carried)
  BY <1>2, Zenon
<1> QED BY <1>3, <1>4, <1>5, Zenon DEF ArchiveIs, AverageFollows, c, q

LEMMA InvariantIs == TradeInvariant <=> Holds(state, history, carried) /\ before \in Nat
<1>1. TypeOK <=> Typed(state, history, carried) /\ before \in Nat
  BY Zenon DEF TypeOK, Typed, States
<1>2. (\A i, j \in 1..Len(history) : i <= j => history[i].time <= history[j].time)
         <=> Ordered(history)
  BY DEF Ordered
<1>3. DequeFollows <=> DequeIs(state, history)
  BY Zenon DEF DequeFollows, DequeIs, now
<1>4. history # <<>> => (SlidingWindowExact <=> FiguresAre(state, history))
  BY Zenon DEF SlidingWindowExact, FiguresAre, RecentIn, Recent, now
<1>5. history # <<>> => (ArchiveFollows <=> ArchiveIs(state, history, carried))
  BY ArchiveAgrees
<1> QED BY <1>1, <1>2, <1>3, <1>4, <1>5, Zenon DEF TradeInvariant, Holds, Follows

LEMMA SmaAgrees == (history # <<>> => SmaIs(state, history, carried)) => VolumeSmaExact
<1>1. /\ Completed = Done(history) /\ WindowOf(now) = Newest(history)
      /\ \A S : VolumeOf(S) = VolumeIn(history, carried, S)
  BY WindowsAre
<1>2. {w \in Completed : Cardinality({v \in Completed : v >= w}) <= SmaWindows}
         = Averaged(Done(history))
  BY <1>1 DEF Averaged, Later
<1> QED BY <1>1, <1>2, Zenon DEF SmaIs, VolumeSmaExact

\* Every reachable state of the trade aggregator satisfies the inductive
\* invariant: what update() and reset() leave in the deques, the window start
\* and the snapshot follows from the trades since the last reset() and the
\* volume that one left in place.
THEOREM TradeInvariantHolds == Spec => []TradeInvariant
<1>1. Init => TradeInvariant
  <2> SUFFICES ASSUME Init PROVE TradeInvariant
    OBVIOUS
  <2>1. /\ state = [EmptyTrades EXCEPT !.current = 0] /\ history = <<>>
        /\ before \in Nat /\ carried = 0 /\ 0 \in Nat
    BY DEF Init, EmptyTrades
  <2>2. Holds([EmptyTrades EXCEPT !.current = 0], <<>>, 0)
    BY ResetFields
  <2> QED BY <2>1, <2>2, InvariantIs, Zenon
<1>2. TradeInvariant /\ [Next]_vars => TradeInvariant'
  <2> SUFFICES ASSUME TradeInvariant, [Next]_vars PROVE TradeInvariant'
    OBVIOUS
  <2>1. /\ Holds(state, history, carried) /\ before \in Nat
        /\ history \in Seq(Entries) /\ Len(history) \in Nat /\ carried \in Nat /\ state \in States
    <3>1. Holds(state, history, carried) /\ before \in Nat
      BY InvariantIs
    <3> QED BY <3>1 DEF Holds, Typed
  <2>2. Holds(state', history', carried') /\ before' \in Nat => TradeInvariant'
    <3>1. (Holds(state, history, carried) /\ before \in Nat)' => TradeInvariant'
      BY InvariantIs, PTL
    <3> QED BY <3>1
  <2>3. ASSUME NEW t \in Times, NEW amount \in Quantities, NEW buy \in BOOLEAN,
               Update([time |-> t, qty |-> amount, buy |-> buy])
        PROVE  TradeInvariant'
    <3> DEFINE trade == [time |-> t, qty |-> amount, buy |-> buy]
    <3>1. /\ state' = UpdateTrades(state, trade, Window, SmaWindows)
          /\ history' = Append(history, trade) /\ before' = before /\ carried' = carried
      BY <2>3 DEF Update
    <3>2. CASE history = <<>>
      <4>1. trade \in Entries
        BY <3>2, TradeWindowAssumption DEF Times, Entries
      <4>2. state = [EmptyTrades EXCEPT !.current = carried]
        BY <2>1, <3>2 DEF Holds
      <4> HIDE DEF trade
      <4>3. Holds(UpdateTrades([EmptyTrades EXCEPT !.current = carried], trade, Window, SmaWindows),
                  Append(<<>>, trade), carried)
        BY <2>1, <4>1, FirstTrade
      <4>4. Holds(state', history', carried')
        BY <3>1, <3>2, <4>2, <4>3, Zenon
      <4> QED BY <2>1, <2>2, <3>1, <4>4
    <3>3. CASE history # <<>>
      <4>1. history[Len(history)].time \in Nat \ {0}
        <5>1. Len(history) \in 1..Len(history)
          BY <2>1, <3>3
        <5> QED BY <2>1, <5>1, TimesTyped
      <4>2. t \in history[Len(history)].time..(history[Len(history)].time + MaxStep)
        BY <3>3 DEF Times
      <4>3. trade \in Entries /\ history[Len(history)].time <= trade.time
        BY <4>1, <4>2, TradeWindowAssumption DEF Entries
      <4> HIDE DEF trade
      <4>4. Holds(UpdateTrades(state, trade, Window, SmaWindows), Append(history, trade), carried)
        BY <2>1, <3>3, <4>3, FurtherTrade
      <4>5. Holds(state', history', carried')
        BY <3>1, <4>4, Zenon
      <4> QED BY <2>1, <2>2, <3>1, <4>5
    <3> QED BY <3>2, <3>3
  <2>4. CASE Reset
    <3>1. /\ state' = [EmptyTrades EXCEPT !.current = state.current] /\ history' = <<>>
          /\ carried' = state.current /\ before' = before + Len(history)
      BY <2>4 DEF Reset, ResetTrades
    <3>2. state.current \in Nat
      BY <2>1 DEF States
    <3>3. Holds([EmptyTrades EXCEPT !.current = state.current], <<>>, state.current)
      BY <3>2, ResetFields
    <3>4. Holds(state', history', carried')
      BY <3>1, <3>3, Zenon
    <3>5. before' \in Nat
      BY <2>1, <3>1
    <3> QED BY <2>2, <3>4, <3>5
  <2>5. CASE UNCHANGED vars
    <3>1. state' = state /\ history' = history /\ before' = before /\ carried' = carried
      BY <2>5 DEF vars
    <3>2. Holds(state', history', carried') /\ before' \in Nat
      BY <2>1, <3>1, Zenon
    <3> QED BY <2>2, <3>2
  <2> QED BY <2>3, <2>4, <2>5 DEF Next
<1> QED BY <1>1, <1>2, PTL DEF Spec

\* The snapshot's buy and sell volumes and its trade count are those of the last
\* window of event time: expire_old, which only pops from the front, loses no
\* trade of the window and keeps none older.
THEOREM SlidingWindowHolds == Spec => []SlidingWindowExact
<1>1. TradeInvariant => SlidingWindowExact
  BY DEF TradeInvariant, SlidingWindowExact
<1> QED BY <1>1, TradeInvariantHolds, PTL

\* The volume SMA is the mean over the last SmaWindows completed fixed windows
\* that had trades, and the window that update() is filling has the volume of the
\* newest trade's window: no trade is lost or counted twice between windows.
THEOREM VolumeSmaHolds == Spec => []VolumeSmaExact
<1>1. TradeInvariant => VolumeSmaExact
  <2> SUFFICES ASSUME TradeInvariant PROVE VolumeSmaExact
    OBVIOUS
  <2>1. Holds(state, history, carried)
    BY InvariantIs
  <2>2. history # <<>> => SmaIs(state, history, carried)
    BY <2>1, AverageHolds
  <2> QED BY <2>2, SmaAgrees
<1> QED BY <1>1, TradeInvariantHolds, PTL
================================================================================
