------------------------- MODULE ProcessingEngine_proofs -------------------------
(***************************************************************************)
(* Proofs about ProcessingEngine for any symbols, conditions, thresholds,   *)
(* cooldowns and window sizes and any number of messages: the cooldown is   *)
(* honoured and is the only thing that silences a condition, the statistics *)
(* tested are those of the symbol's own history, and the trade aggregator   *)
(* of every symbol implements TradeWindow.                                  *)
(***************************************************************************)
EXTENDS ProcessingEngine, LoopTheorems, SequenceTheorems

--------------------------------------------------------------------------------
(* Sequences.                                                              *)

LEMMA SequenceOfRange == ASSUME NEW S, NEW q \in Seq(S) PROVE IsSequence(q)
<1>1. /\ Len(q) \in Nat /\ DOMAIN q = 1..Len(q) /\ q \in [1..Len(q) -> S]
  OBVIOUS
<1>2. \A i \in 1..Len(q) : q[i] \in Range(q)
  BY <1>1 DEF Range
<1> QED BY <1>1, <1>2 DEF IsSequence

LEMMA AppendSequence ==
    ASSUME NEW q, IsSequence(q), NEW x
    PROVE  /\ IsSequence(Append(q, x)) /\ Len(Append(q, x)) = Len(q) + 1 /\ Len(q) \in Nat
           /\ DOMAIN q = 1..Len(q)
           /\ \A i \in 1..Len(q) : Append(q, x)[i] = q[i]
           /\ Append(q, x)[Len(q) + 1] = x
<1> DEFINE S == Range(q) \cup {x}
<1>1. q \in Seq(S) /\ x \in S
  BY DEF IsSequence
<1> HIDE DEF S
<1>2. Append(q, x) \in Seq(S)
  BY <1>1
<1>3. /\ Len(Append(q, x)) = Len(q) + 1 /\ Len(q) \in Nat
      /\ DOMAIN q = 1..Len(q)
      /\ \A i \in 1..Len(q) : Append(q, x)[i] = q[i]
      /\ Append(q, x)[Len(q) + 1] = x
  BY <1>1
<1> QED BY <1>2, <1>3, SequenceOfRange

\* A bounded deque stays a deque within its limit.
LEMMA RollProperties ==
    ASSUME NEW q, IsSequence(q), NEW x, NEW limit \in Nat \ {0}, Len(q) <= limit
    PROVE  IsSequence(Roll(q, x, limit)) /\ Len(Roll(q, x, limit)) <= limit
<1> DEFINE r == Append(q, x)
<1>1. IsSequence(r) /\ Len(r) = Len(q) + 1 /\ Len(q) \in Nat
  BY AppendSequence
<1> HIDE DEF r
<1>2. Len(r) > limit => IsSequence(Tail(r)) /\ Len(Tail(r)) = Len(r) - 1
  <2> SUFFICES ASSUME Len(r) > limit PROVE IsSequence(Tail(r)) /\ Len(Tail(r)) = Len(r) - 1
    OBVIOUS
  <2>1. r \in Seq(Range(r)) /\ r # <<>>
    BY <1>1 DEF IsSequence
  <2>2. Tail(r) \in Seq(Range(r)) /\ Len(Tail(r)) = Len(r) - 1
    BY <2>1
  <2> QED BY <2>2, SequenceOfRange
<1>3. Roll(q, x, limit) = IF Len(r) > limit THEN Tail(r) ELSE r
  BY DEF Roll, r
<1> QED BY <1>1, <1>2, <1>3

LEMMA SuffixProperties ==
    ASSUME NEW S, NEW q \in Seq(S), NEW n \in Nat, n = Len(q), NEW from \in 1..(n + 1)
    PROVE  /\ SubSeq(q, from, n) \in Seq(S) /\ Len(SubSeq(q, from, n)) = n - from + 1
           /\ \A i \in 1..(n - from + 1) : SubSeq(q, from, n)[i] = q[from + i - 1]
<1>1. \A i \in from..n : q[i] \in S
  OBVIOUS
<1>2. /\ SubSeq(q, from, n) \in Seq(S)
      /\ Len(SubSeq(q, from, n)) = IF from <= n THEN n - from + 1 ELSE 0
      /\ \A i \in 1..(n - from + 1) : SubSeq(q, from, n)[i] = q[from + i - 1]
  BY <1>1, SubSeqProperties
<1> QED BY <1>2

\* Keeping the last ones at every step is keeping the last ones at the end.
LEMMA RollKeepsLast ==
    ASSUME NEW q, IsSequence(q), NEW x, NEW limit \in Nat \ {0}
    PROVE  Roll(LastN(q, limit), x, limit) = LastN(Append(q, x), limit)
<1> DEFINE S == Range(q) \cup {x}
           n == Len(q)
           r == Append(q, x)
           p == LastN(q, limit)
           from == IF n > limit THEN n - limit + 1 ELSE 1
           t == Append(p, x)
           rest == LastN(r, limit)
           start == IF n + 1 > limit THEN n + 1 - limit + 1 ELSE 1
<1>1. /\ q \in Seq(S) /\ x \in S /\ n \in Nat
      /\ r \in Seq(S) /\ Len(r) = n + 1 /\ r[n + 1] = x
      /\ \A i \in 1..n : r[i] = q[i]
  <2>1. q \in Seq(S) /\ x \in S
    BY DEF IsSequence
  <2> HIDE DEF S
  <2> QED BY <2>1
<1> HIDE DEF S, n, r
<1>2. /\ from \in 1..(n + 1) /\ start \in 1..(n + 1)
      /\ start = IF n >= limit THEN from + 1 ELSE from
  BY <1>1
<1>3. /\ p \in Seq(S) /\ Len(p) = n - from + 1
      /\ \A i \in 1..(n - from + 1) : p[i] = q[from + i - 1]
  <2>1. p = SubSeq(q, from, n)
    BY DEF LastN, n
  <2> HIDE DEF from, p
  <2> QED BY <1>1, <1>2, <2>1, SuffixProperties DEF n
<1>4. /\ rest \in Seq(S) /\ Len(rest) = (n + 1) - start + 1
      /\ \A i \in 1..((n + 1) - start + 1) : rest[i] = r[start + i - 1]
  <2>1. rest = SubSeq(r, start, n + 1)
    BY <1>1 DEF LastN
  <2> HIDE DEF start, rest
  <2> DEFINE m == n + 1
  <2>2. m \in Nat /\ m = Len(r) /\ start \in 1..(m + 1)
    BY <1>1, <1>2
  <2> HIDE DEF m
  <2>3. /\ SubSeq(r, start, m) \in Seq(S) /\ Len(SubSeq(r, start, m)) = m - start + 1
        /\ \A i \in 1..(m - start + 1) : SubSeq(r, start, m)[i] = r[start + i - 1]
    BY <1>1, <2>2, SuffixProperties
  <2> QED BY <2>1, <2>3 DEF m
<1> HIDE DEF p, rest, from, start
<1>5. /\ t \in Seq(S) /\ Len(t) = n - from + 2 /\ t[n - from + 2] = x
      /\ \A i \in 1..(n - from + 1) : t[i] = p[i]
  <2>1. /\ t \in Seq(S) /\ Len(t) = Len(p) + 1 /\ t[Len(p) + 1] = x
        /\ \A i \in 1..Len(p) : t[i] = p[i]
    BY <1>1, <1>3, AppendProperties
  <2>2. n - from + 1 + 1 = n - from + 2
    BY <1>1, <1>2
  <2> HIDE DEF t
  <2> QED BY <1>3, <2>1, <2>2
<1> HIDE DEF t
<1>6. \A i \in 1..(n - from + 2) : t[i] = r[from + i - 1]
  <2> SUFFICES ASSUME NEW i \in 1..(n - from + 2) PROVE t[i] = r[from + i - 1]
    OBVIOUS
  <2>1. CASE i = n - from + 2
    <3>1. from + i - 1 = n + 1
      BY <1>1, <1>2, <2>1
    <3> QED BY <1>1, <1>5, <2>1, <3>1
  <2>2. CASE i # n - from + 2
    <3>1. i \in 1..(n - from + 1) /\ from + i - 1 \in 1..n
      BY <1>1, <1>2, <2>2
    <3> QED BY <1>1, <1>3, <1>5, <3>1
  <2> QED BY <2>1, <2>2
<1>7. Roll(p, x, limit) = IF Len(t) > limit THEN Tail(t) ELSE t
  BY DEF Roll, t
<1>8. CASE n >= limit
  <2>1. from = n - limit + 1 /\ start = from + 1 /\ Len(t) = limit + 1
    BY <1>1, <1>2, <1>5, <1>8 DEF from
  <2>2. /\ Tail(t) \in Seq(S) /\ Len(Tail(t)) = limit
        /\ \A i \in 1..limit : Tail(t)[i] = t[i + 1]
    <3>1. t # <<>>
      BY <2>1
    <3> QED BY <1>5, <2>1, <3>1
  <2>3. Len(rest) = limit
    BY <1>1, <1>4, <2>1
  <2>4. ASSUME NEW i \in 1..limit PROVE Tail(t)[i] = rest[i]
    <3>1. /\ i + 1 \in 1..(n - from + 2) /\ i \in 1..((n + 1) - start + 1)
          /\ from + (i + 1) - 1 = start + i - 1
      BY <1>1, <2>1
    <3> QED BY <1>4, <1>6, <2>2, <3>1
  <2>5. Tail(t) = rest
    BY <1>4, <2>2, <2>3, <2>4, SeqEqual
  <2> QED BY <1>7, <2>1, <2>5 DEF p, rest, r
<1>9. CASE ~(n >= limit)
  <2>1. from = 1 /\ start = 1 /\ Len(t) = n + 1 /\ Len(rest) = n + 1
    BY <1>1, <1>2, <1>4, <1>5, <1>9 DEF from
  <2>2. ASSUME NEW i \in 1..(n + 1) PROVE t[i] = rest[i]
    BY <1>1, <1>4, <1>6, <2>1
  <2>3. t = rest
    BY <1>4, <1>5, <2>1, <2>2, SeqEqual
  <2> QED BY <1>1, <1>7, <1>9, <2>1, <2>3 DEF p, rest, r
<1> QED BY <1>8, <1>9

--------------------------------------------------------------------------------
(* The statistics.                                                         *)

TakeMid(mids, figure) == IF figure.mid > 0 THEN Append(mids, figure.mid) ELSE mids

\* MidsOf is a loop over the figures, whose results are sequences.
LEMMA MidsTurns ==
    ASSUME NEW all, IsSequence(all)
    PROVE  \E mids : /\ mids[0] = <<>>
                     /\ \A n \in 1..Len(all) : mids[n] = TakeMid(mids[n - 1], all[n])
                     /\ MidsOf(all) = mids[Len(all)]
                     /\ IsSequence(mids[Len(all)])
<1> DEFINE N == Len(all)
           Turn(n, s) == IF all[n].mid > 0 THEN Append(s, all[n].mid) ELSE s
           Loop(H) == H = [n \in 0..N |-> IF n = 0 THEN <<>>
                                          ELSE IF all[n].mid > 0 THEN Append(H[n - 1], all[n].mid)
                                          ELSE H[n - 1]]
           mids == CHOOSE H : Loop(H)
           E == {all[n].mid : n \in 1..N}
           V == Seq(E)
<1>1. MidsOf(all) = mids[N]
  BY Zenon DEF MidsOf
<1>2. N \in Nat /\ \A i \in 1..N : all[i].mid \in E
  BY DEF IsSequence
<1> HIDE DEF N, E
<1>3. Loop(mids)
  <2> DEFINE none == <<>>
             turn == [n \in 1..N |-> [s \in V |-> Turn(n, s)]]
  <2>1. turn \in Turns(N, V) /\ none \in V
    BY <1>2 DEF Turns
  <2>2. PICK G : LoopRuns(N, V, none, turn, G)
    <3> HIDE DEF turn, V, none
    <3> QED BY <1>2, <2>1, LoopExists
  <2>3. G \in [0..N -> V] /\ G[0] = <<>> /\ \A n \in 1..N : G[n] = Turn(n, G[n - 1])
    <3>1. ASSUME NEW n \in 1..N PROVE G[n] = Turn(n, G[n - 1])
      <4> HIDE DEF V, none, Turn, turn
      <4>1. n - 1 \in 0..N /\ G[n - 1] \in V /\ G[n] = turn[n][G[n - 1]]
        BY <1>2, <2>2 DEF LoopRuns
      <4> QED BY <4>1 DEF turn
    <3> QED BY <2>2, <3>1 DEF LoopRuns
  <2>4. Loop(G)
    <3>1. ASSUME NEW n \in 0..N
          PROVE  G[n] = IF n = 0 THEN <<>> ELSE IF all[n].mid > 0
                        THEN Append(G[n - 1], all[n].mid) ELSE G[n - 1]
      <4> HIDE DEF V
      <4>1. CASE n = 0
        BY <2>3, <4>1
      <4>2. CASE n # 0
        <5>1. n \in 1..N
          BY <1>2, <4>2
        <5> QED BY <2>3, <4>2, <5>1
      <4> QED BY <4>1, <4>2
    <3> HIDE DEF V
    <3> QED BY <2>3, <3>1
  <2> HIDE DEF Loop
  <2> QED BY <2>4
<1> HIDE DEF mids
<1>4. mids[0] = <<>> /\ \A n \in 1..N : mids[n] = Turn(n, mids[n - 1])
  <2>1. ASSUME NEW n \in 0..N
        PROVE  mids[n] = IF n = 0 THEN <<>> ELSE IF all[n].mid > 0
                         THEN Append(mids[n - 1], all[n].mid) ELSE mids[n - 1]
    BY <1>3, Zenon
  <2>2. 0 \in 0..N /\ \A n \in 1..N : n \in 0..N /\ n # 0
    BY <1>2
  <2> HIDE DEF Loop
  <2> QED BY <2>1, <2>2
<1> HIDE DEF Loop
<1>5. \A n \in 1..N : mids[n] = TakeMid(mids[n - 1], all[n])
  BY <1>4 DEF TakeMid
<1>6. mids[N] \in V
  <2> DEFINE T == {n \in Nat : n <= N => mids[n] \in V}
  <2>1. 0 \in T
    <3>1. <<>> \in V
      OBVIOUS
    <3> HIDE DEF V, Turn
    <3> QED BY <1>4, <3>1
  <2>2. ASSUME NEW n \in Nat, n \in T PROVE n + 1 \in T
    <3> SUFFICES ASSUME n + 1 <= N PROVE mids[n + 1] \in V
      OBVIOUS
    <3>1. n + 1 \in 1..N /\ mids[n] \in V /\ mids[n + 1] = Turn(n + 1, mids[n])
      BY <1>2, <1>4, <2>2
    <3> QED BY <1>2, <3>1
  <2> HIDE DEF T
  <2>3. N \in T
    BY <1>2, <2>1, <2>2, InductionOnSet
  <2> QED BY <1>2, <2>3 DEF T
<1>7. IsSequence(mids[N])
  BY <1>6, SequenceOfRange
<1> QED BY <1>1, <1>4, <1>5, <1>7, Zenon DEF N

\* A further figure adds its mid price, if it has one.
LEMMA MidsAppend ==
    ASSUME NEW all, IsSequence(all), NEW x
    PROVE  /\ MidsOf(Append(all, x)) = TakeMid(MidsOf(all), x)
           /\ IsSequence(MidsOf(all))
<1> DEFINE N == Len(all)
           more == Append(all, x)
<1>1. /\ IsSequence(more) /\ N \in Nat /\ Len(more) = N + 1
      /\ \A n \in 1..N : more[n] = all[n]
      /\ more[N + 1] = x
  BY AppendSequence
<1> HIDE DEF more
<1>2. PICK f : /\ f[0] = <<>>
               /\ \A n \in 1..Len(all) : f[n] = TakeMid(f[n - 1], all[n])
               /\ MidsOf(all) = f[Len(all)]
               /\ IsSequence(f[Len(all)])
  BY MidsTurns
<1>3. PICK g : /\ g[0] = <<>>
               /\ \A n \in 1..Len(more) : g[n] = TakeMid(g[n - 1], more[n])
               /\ MidsOf(more) = g[Len(more)]
  BY <1>1, MidsTurns
<1> HIDE DEF N
<1> DEFINE T == {n \in Nat : n <= N => f[n] = g[n]}
<1>4. 0 \in T
  BY <1>2, <1>3
<1>5. ASSUME NEW n \in Nat, n \in T PROVE n + 1 \in T
  <2> SUFFICES ASSUME n + 1 <= N PROVE f[n + 1] = g[n + 1]
    OBVIOUS
  <2>1. /\ n + 1 \in 1..N /\ n + 1 \in 1..(N + 1) /\ f[n] = g[n] /\ (n + 1) - 1 = n
        /\ more[n + 1] = all[n + 1]
    BY <1>1, <1>5
  <2>2. f[n + 1] = TakeMid(f[n], all[n + 1])
    BY <1>2, <2>1 DEF N
  <2>3. g[n + 1] = TakeMid(g[n], more[n + 1])
    BY <1>1, <1>3, <2>1
  <2> QED BY <2>1, <2>2, <2>3
<1> HIDE DEF T
<1>6. N \in T
  BY <1>1, <1>4, <1>5, InductionOnSet
<1>7. f[N] = g[N]
  BY <1>1, <1>6 DEF T
<1>8. N + 1 \in 1..(N + 1) /\ (N + 1) - 1 = N
  BY <1>1
<1>9. g[N + 1] = TakeMid(g[N], x)
  BY <1>1, <1>3, <1>8
<1> QED BY <1>1, <1>2, <1>3, <1>7, <1>9 DEF N, more

--------------------------------------------------------------------------------
(* The cooldown table and the log.                                         *)

Signals == [key : Keys, at : Nat, steps : Nat]
Tables == UNION {[S -> 0..(Word - 1)] : S \in SUBSET Keys}

\* A signal at a real time and a setting of the clock.
EntryOf(type, symbol, now, steps) == [key |-> <<type, symbol>>, at |-> now, steps |-> steps]

\* The table and the log agree, at a real time and a setting of the clock.
Agree(lastFired, signals, time, shift, steps) ==
    /\ LogOrdered(signals, time, steps)
    /\ FollowsLog(lastFired, signals, shift, steps)
    /\ Honoured(signals)

LEMMA SmallRemainder == ASSUME NEW a \in Nat, NEW w \in Nat, a < w PROVE a % w = a
OBVIOUS

LEMMA ProductGrows == ASSUME NEW a \in Nat, NEW b \in Nat, NEW c \in Nat, b <= c
                      PROVE  a * b \in Nat /\ a * b <= a * c
<1> DEFINE d == c - b
<1>1. d \in Nat /\ c = b + d
  OBVIOUS
<1> HIDE DEF d
<1>2. a * c = a * b + a * d /\ a * b \in Nat /\ a * d \in Nat
  BY <1>1
<1> QED BY <1>2

LEMMA TableProperties ==
    ASSUME NEW lastFired
    PROVE  lastFired \in Tables <=> /\ DOMAIN lastFired \subseteq Keys
                                    /\ lastFired \in [DOMAIN lastFired -> 0..(Word - 1)]
<1> HIDE DEF Keys
<1>1. ASSUME lastFired \in Tables
      PROVE  /\ DOMAIN lastFired \subseteq Keys
             /\ lastFired \in [DOMAIN lastFired -> 0..(Word - 1)]
  <2>1. PICK S \in SUBSET Keys : lastFired \in [S -> 0..(Word - 1)]
    BY <1>1 DEF Tables
  <2> QED BY <2>1
<1>2. ASSUME DOMAIN lastFired \subseteq Keys, lastFired \in [DOMAIN lastFired -> 0..(Word - 1)]
      PROVE  lastFired \in Tables
  BY <1>2 DEF Tables
<1> QED BY <1>1, <1>2

LEMMA PutInTable ==
    ASSUME NEW lastFired \in Tables, NEW key \in Keys, NEW clock \in 0..(Word - 1)
    PROVE  Put(lastFired, key, clock) \in Tables
<1> HIDE DEF Keys
<1>1. DOMAIN lastFired \subseteq Keys /\ lastFired \in [DOMAIN lastFired -> 0..(Word - 1)]
  BY TableProperties DEF Keys
<1> DEFINE T == Put(lastFired, key, clock)
<1>2. DOMAIN T \subseteq Keys /\ T \in [DOMAIN T -> 0..(Word - 1)]
  BY <1>1 DEF Put
<1> HIDE DEF T
<1>3. T \in Tables
  BY <1>2, TableProperties DEF Keys
<1> QED BY <1>3 DEF T

\* What the unsigned difference says while the clock is not set: the time since
\* the last signal of the key.
LEMMA LastSignal ==
    ASSUME NEW lastFired \in Tables, NEW L \in Seq(Signals), NEW key \in DOMAIN lastFired,
           NEW now \in Nat, NEW shift \in Nat, NEW steps \in Nat, now + shift < Word, Word \in Nat,
           Agree(lastFired, L, now, shift, steps)
    PROVE  \E m \in DOMAIN L :
              /\ L[m].key = key
              /\ \A j \in DOMAIN L : L[j].key = key => j <= m
              /\ L[m].at \in 0..now /\ L[m].steps \in 0..steps
              /\ L[m].steps = steps =>
                    ((now + shift) - lastFired[key]) % Word = now - L[m].at
<1>1. PICK m \in DOMAIN L :
         /\ L[m].key = key
         /\ \A j \in DOMAIN L : L[j].key = key => j <= m
         /\ L[m].steps = steps => lastFired[key] = L[m].at + shift
  BY DEF Agree, FollowsLog
<1>2. L[m].at \in StartTime..now /\ L[m].steps \in 0..steps
  BY DEF Agree, LogOrdered
<1>3. L[m].at \in Nat
  <2>1. L[m] \in Signals
    BY <1>1
  <2> QED BY <2>1 DEF Signals
<1>4. L[m].at \in 0..now
  BY <1>2, <1>3
<1>5. ASSUME L[m].steps = steps
      PROVE  ((now + shift) - lastFired[key]) % Word = now - L[m].at
  <2>1. (now + shift) - lastFired[key] = now - L[m].at
    BY <1>1, <1>3, <1>5
  <2>2. now - L[m].at \in Nat /\ now - L[m].at < Word
    BY <1>4
  <2> QED BY <2>1, <2>2, SmallRemainder
<1> QED BY <1>1, <1>2, <1>4, <1>5

\* A condition that is cooling is silenced by a signal of the log.
LEMMA CoolingIsSilenced ==
    ASSUME NEW lastFired \in Tables, NEW L \in Seq(Signals), NEW type, NEW symbol,
           NEW now \in Nat, NEW shift \in Nat, NEW steps \in Nat, now + shift < Word, Word \in Nat,
           Agree(lastFired, L, now, shift, steps),
           NEW cooldown \in Cooldowns(type),
           Cooling(lastFired, <<type, symbol>>, cooldown, now + shift, Word)
    PROVE  Silenced(EntryOf(type, symbol, now, steps), L)
<1> DEFINE key == <<type, symbol>>
           w == EntryOf(type, symbol, now, steps)
<1>1. key \in DOMAIN lastFired /\ ((now + shift) - lastFired[key]) % Word < cooldown
  BY Zenon DEF Cooling
<1>2. w.key = key /\ w.at = now /\ w.steps = steps /\ key[1] = type
  BY DEF EntryOf
<1> HIDE DEF key, w
<1>3. PICK m \in DOMAIN L :
              /\ L[m].key = key
              /\ L[m].at \in 0..now
              /\ L[m].steps = steps => ((now + shift) - lastFired[key]) % Word = now - L[m].at
  BY <1>1, LastSignal
<1>4. ASSUME L[m].steps = w.steps
      PROVE  /\ w.at - L[m].at >= 0
             /\ \E c \in Cooldowns(w.key[1]) : w.at - L[m].at < c
  <2>1. now - L[m].at >= 0 /\ now - L[m].at < cooldown
    BY <1>1, <1>2, <1>3, <1>4
  <2>2. cooldown \in Cooldowns(w.key[1]) /\ w.at - L[m].at < cooldown
    BY <1>2, <2>1
  <2> QED BY <1>2, <2>1, <2>2
<1>5. Silenced(w, L)
  BY <1>2, <1>3, <1>4 DEF Silenced
<1> QED BY <1>5 DEF w, key

\* A signal that fires keeps the table and the log in agreement.
LEMMA FireAgrees ==
    ASSUME NEW lastFired \in Tables, NEW L \in Seq(Signals),
           NEW type \in SignalTypes, NEW symbol \in Symbols,
           NEW now \in Nat, NEW shift \in Nat, NEW steps \in Nat, now + shift < Word, Word \in Nat,
           StartTime <= now, StartTime \in Nat,
           Agree(lastFired, L, now, shift, steps),
           NEW cooldown \in Cooldowns(type), cooldown \in Nat,
           ~Cooling(lastFired, <<type, symbol>>, cooldown, now + shift, Word)
    PROVE  /\ Append(L, EntryOf(type, symbol, now, steps)) \in Seq(Signals)
           /\ Agree(Put(lastFired, <<type, symbol>>, now + shift),
                    Append(L, EntryOf(type, symbol, now, steps)), now, shift, steps)
<1> DEFINE key == <<type, symbol>>
           e == EntryOf(type, symbol, now, steps)
           M == Append(L, e)
           n == Len(L)
           T == Put(lastFired, key, now + shift)
<1>1. key \in Keys /\ key[1] = type /\ e \in Signals /\ e.key = key /\ e.at = now /\ e.steps = steps
  BY DEF Keys, Signals, EntryOf
<1>2. T \in Tables /\ DOMAIN T = DOMAIN lastFired \cup {key} /\ T[key] = now + shift
      /\ \A k \in DOMAIN lastFired : k # key => T[k] = lastFired[k]
  <2> HIDE DEF key
  <2>1. now + shift \in 0..(Word - 1)
    OBVIOUS
  <2>2. Put(lastFired, key, now + shift) \in Tables
    BY <1>1, <2>1, PutInTable
  <2>3. /\ DOMAIN T = DOMAIN lastFired \cup {key} /\ T[key] = now + shift
        /\ \A k \in DOMAIN lastFired : k # key => T[k] = lastFired[k]
    <3> DEFINE clock == now + shift
    <3>1. T = Put(lastFired, key, clock)
      OBVIOUS
    <3> HIDE DEF T, clock
    <3>2. /\ DOMAIN T = DOMAIN lastFired \cup {key} /\ T[key] = clock
          /\ \A k \in DOMAIN lastFired : k # key => T[k] = lastFired[k]
      BY <3>1 DEF Put
    <3> QED BY <3>2 DEF clock
  <2> QED BY <2>2, <2>3
<1>3. key \in DOMAIN lastFired => ((now + shift) - lastFired[key]) % Word >= cooldown
  <2>1. ASSUME key \in DOMAIN lastFired PROVE ((now + shift) - lastFired[key]) \in Int
    <3>1. lastFired[key] \in 0..(Word - 1)
      BY <2>1, TableProperties
    <3> QED BY <3>1
  <2>2. ASSUME NEW a \in Int PROVE ~(a % Word < cooldown) => a % Word >= cooldown
    OBVIOUS
  <2>3. ~(key \in DOMAIN lastFired /\ ((now + shift) - lastFired[key]) % Word < cooldown)
    BY Zenon DEF Cooling
  <2> HIDE DEF key
  <2> QED BY <2>1, <2>2, <2>3
<1> HIDE DEF key, e, T
<1>4. /\ M \in Seq(Signals) /\ n \in Nat /\ Len(M) = n + 1 /\ M[n + 1] = e
      /\ DOMAIN L = 1..n /\ DOMAIN M = 1..(n + 1)
      /\ \A i \in 1..n : M[i] = L[i]
  BY <1>1
<1> HIDE DEF M, n
<1>5. \A i \in 1..n : /\ L[i] \in Signals /\ L[i].at \in StartTime..now /\ L[i].steps \in 0..steps
                      /\ L[i].at \in Nat
                      /\ \A j \in 1..n : i < j => L[i].at <= L[j].at /\ L[i].steps <= L[j].steps
  <2>1. \A i \in 1..n : L[i] \in Signals
    BY <1>4 DEF n
  <2>2. \A i \in 1..n : L[i].at \in Nat
    BY <2>1 DEF Signals
  <2>3. /\ \A i \in 1..n : L[i].at \in StartTime..now /\ L[i].steps \in 0..steps
        /\ \A i, j \in 1..n : i < j => L[i].at <= L[j].at /\ L[i].steps <= L[j].steps
    BY <1>4, Zenon DEF Agree, LogOrdered
  <2> QED BY <2>1, <2>2, <2>3
<1>6. \A i \in 1..(n + 1) : i \in 1..n \/ i = n + 1
  BY <1>4
<1>7. LogOrdered(M, now, steps)
  <2>1. ASSUME NEW i \in 1..(n + 1)
        PROVE  M[i].at \in StartTime..now /\ M[i].steps \in 0..steps
    BY <1>1, <1>4, <1>5, <1>6
  <2>2. ASSUME NEW i \in 1..(n + 1), NEW j \in 1..(n + 1), i < j
        PROVE  M[i].at <= M[j].at /\ M[i].steps <= M[j].steps
    <3>1. i \in 1..n
      BY <1>4, <2>2
    <3>2. CASE j \in 1..n
      BY <1>4, <1>5, <2>2, <3>1, <3>2
    <3>3. CASE j = n + 1
      BY <1>1, <1>4, <1>5, <3>1, <3>3
    <3> QED BY <1>6, <3>2, <3>3
  <2> QED BY <1>4, <2>1, <2>2 DEF LogOrdered
<1>8. FollowsLog(T, M, shift, steps)
  <2>1. ASSUME NEW i \in 1..(n + 1) PROVE M[i].key \in DOMAIN T
    <3>1. CASE i \in 1..n
      BY <1>2, <1>4, <3>1 DEF Agree, FollowsLog
    <3>2. CASE i = n + 1
      BY <1>1, <1>2, <1>4, <3>2
    <3> QED BY <1>6, <3>1, <3>2
  <2>2. ASSUME NEW k \in DOMAIN T
        PROVE  \E i \in 1..(n + 1) :
                  /\ M[i].key = k
                  /\ \A j \in 1..(n + 1) : M[j].key = k => j <= i
                  /\ M[i].steps = steps => T[k] = M[i].at + shift
    <3>1. CASE k = key
      <4>1. /\ n + 1 \in 1..(n + 1) /\ M[n + 1].key = k
            /\ \A j \in 1..(n + 1) : j <= n + 1
            /\ T[k] = M[n + 1].at + shift
        BY <1>1, <1>2, <1>4, <3>1
      <4> QED BY <4>1
    <3>2. CASE k # key
      <4>1. PICK i \in 1..n :
               /\ L[i].key = k
               /\ \A j \in 1..n : L[j].key = k => j <= i
               /\ L[i].steps = steps => lastFired[k] = L[i].at + shift
        <5>1. k \in DOMAIN lastFired
          BY <1>2, <3>2
        <5> QED BY <1>4, <5>1 DEF Agree, FollowsLog
      <4>2. i \in 1..(n + 1) /\ M[i] = L[i] /\ T[k] = lastFired[k]
        BY <1>2, <1>4, <3>2, <4>1
      <4>3. ASSUME NEW j \in 1..(n + 1), M[j].key = k PROVE j <= i
        <5>1. j # n + 1
          BY <1>1, <1>4, <3>2, <4>3
        <5>2. j \in 1..n
          BY <1>6, <5>1
        <5>3. M[j] = L[j]
          BY <1>4, <5>2
        <5> QED BY <4>1, <4>3, <5>2, <5>3, Zenon
      <4> QED BY <4>1, <4>2, <4>3
    <3> QED BY <3>1, <3>2
  <2>3. DOMAIN M = 1..(n + 1)
    BY <1>4
  <2>4. \A i \in DOMAIN M : M[i].key \in DOMAIN T
    BY <2>1, <2>3, Zenon
  <2>5. ASSUME NEW k \in DOMAIN T
        PROVE  \E i \in DOMAIN M :
                  /\ M[i].key = k
                  /\ \A j \in DOMAIN M : M[j].key = k => j <= i
                  /\ M[i].steps = steps => T[k] = M[i].at + shift
    BY <2>2, <2>3, Zenon
  <2> QED BY <2>4, <2>5, Zenon DEF FollowsLog
<1>9. Honoured(M)
  <2> SUFFICES ASSUME NEW i \in 1..(n + 1), NEW j \in 1..(n + 1), i < j,
                      M[i].key = M[j].key, M[i].steps = M[j].steps
               PROVE  \E c \in Cooldowns(M[i].key[1]) : M[j].at - M[i].at >= c
    BY <1>4 DEF Honoured
  <2>1. i \in 1..n /\ M[i] = L[i]
    BY <1>4
  <2>2. CASE j \in 1..n
    <3>1. M[j] = L[j]
      BY <1>4, <2>2
    <3> QED BY <1>4, <2>1, <2>2, <3>1 DEF Agree, Honoured
  <2>3. CASE j = n + 1
    <3>1. L[i].key = key /\ L[i].steps = steps /\ M[j].at = now
      BY <1>1, <1>4, <2>1, <2>3
    <3>2. key \in DOMAIN lastFired
      BY <1>4, <2>1, <3>1 DEF Agree, FollowsLog
    <3>3. PICK m \in DOMAIN L :
              /\ L[m].key = key
              /\ \A k \in DOMAIN L : L[k].key = key => k <= m
              /\ L[m].at \in 0..now /\ L[m].steps \in 0..steps
              /\ L[m].steps = steps => ((now + shift) - lastFired[key]) % Word = now - L[m].at
      BY <3>2, LastSignal
    <3>4. m \in 1..n /\ i <= m
      BY <1>4, <2>1, <3>1, <3>3
    <3>5. L[i].at <= L[m].at /\ L[i].steps <= L[m].steps
      <4>1. CASE i = m
        BY <1>5, <3>4, <4>1
      <4>2. CASE i # m
        <5>1. i < m
          BY <1>4, <2>1, <3>4, <4>2
        <5> QED BY <1>5, <2>1, <3>4, <5>1
      <4> QED BY <4>1, <4>2
    <3>6. L[m].steps = steps
      BY <3>1, <3>3, <3>5
    <3>7. now - L[m].at >= cooldown
      BY <1>3, <3>2, <3>3, <3>6
    <3>8. now - L[i].at >= cooldown
      <4> DEFINE a == L[i].at
                 b == L[m].at
      <4>1. a \in Nat /\ b \in Nat /\ a <= b /\ now - b >= cooldown
        BY <1>5, <2>1, <3>3, <3>5, <3>7
      <4> HIDE DEF a, b
      <4>2. now - a >= cooldown
        BY <4>1
      <4> QED BY <4>2 DEF a
    <3> QED BY <1>1, <2>1, <3>1, <3>8
  <2> QED BY <1>6, <2>2, <2>3
<1>10. M \in Seq(Signals) /\ Agree(T, M, now, shift, steps)
  BY <1>4, <1>7, <1>8, <1>9 DEF Agree
<1> QED BY <1>10 DEF T, M, e, key

\* What silences a condition stays in the log.
LEMMA SilencedStays ==
    ASSUME NEW w, NEW L, NEW M, Silenced(w, L), DOMAIN L \subseteq DOMAIN M,
           \A i \in DOMAIN L : M[i] = L[i]
    PROVE  Silenced(w, M)
<1>1. PICK i \in DOMAIN L :
        /\ L[i].key = w.key
        /\ L[i].steps = w.steps =>
              /\ w.at - L[i].at >= 0
              /\ \E cooldown \in Cooldowns(w.key[1]) : w.at - L[i].at < cooldown
  BY Zenon DEF Silenced
<1>2. i \in DOMAIN M /\ M[i] = L[i]
  OBVIOUS
<1> QED BY <1>1, <1>2, Zenon DEF Silenced

--------------------------------------------------------------------------------
(* One evaluation of the conditions.                                       *)

Callbacks == [type : SignalTypes, symbol : Symbols]
Detectors == [lastFired : Tables, fired : Nat, suppressed : Nat, signals : Seq(Callbacks)]

\* The log entries of the callbacks that an evaluation has made.
Sent(calls, symbol, now, steps) ==
    [i \in DOMAIN calls |-> EntryOf(calls[i].type, symbol, now, steps)]

\* A condition that is met is suppressed by its cooldown or fires.
Outcome(after, d, cond, symbol, agg, trade, clock) ==
    LET key == <<cond.type, symbol>>
    IN /\ after \in Detectors
       /\ ~Triggered(cond, agg, trade) => after = d
       /\ Triggered(cond, agg, trade) =>
            IF Cooling(d.lastFired, key, cond.cooldown, clock, Word)
            THEN after.lastFired = d.lastFired /\ after.fired = d.fired
                 /\ after.signals = d.signals
            ELSE after.lastFired = Put(d.lastFired, key, clock) /\ after.fired = d.fired + 1
                 /\ after.signals = Append(d.signals, [type |-> cond.type, symbol |-> symbol])

LEMMA EvaluateConditionCases ==
    ASSUME NEW d \in Detectors, NEW cond, cond.type \in SignalTypes, NEW symbol \in Symbols,
           NEW agg, NEW trade, NEW clock \in 0..(Word - 1)
    PROVE  Outcome(EvaluateCondition(d, cond, symbol, agg, trade, clock, Word),
                   d, cond, symbol, agg, trade, clock)
<1> DEFINE after == EvaluateCondition(d, cond, symbol, agg, trade, clock, Word)
           key == <<cond.type, symbol>>
           t == Triggered(cond, agg, trade)
           c == Cooling(d.lastFired, key, cond.cooldown, clock, Word)
           call == [type |-> cond.type, symbol |-> symbol]
           table == Put(d.lastFired, key, clock)
<1>1. after = IF ~t THEN d
              ELSE IF c THEN [d EXCEPT !.suppressed = @ + 1]
                   ELSE [d EXCEPT !.lastFired = table, !.fired = @ + 1, !.signals = Append(@, call)]
  BY DEF EvaluateCondition, CooldownKey
<1>2. call \in Callbacks /\ key \in Keys
  BY DEF Callbacks, Keys
<1>3. /\ d.lastFired \in Tables /\ d.fired \in Nat /\ d.suppressed \in Nat
      /\ d.signals \in Seq(Callbacks)
      /\ d = [lastFired |-> d.lastFired, fired |-> d.fired, suppressed |-> d.suppressed,
              signals |-> d.signals]
  BY DEF Detectors
<1> HIDE DEF key, t, c, call
<1>4. table \in Tables
  BY <1>2, <1>3, PutInTable
<1>5. Append(d.signals, call) \in Seq(Callbacks)
  BY <1>2, <1>3
<1> HIDE DEF after, table
<1>6. CASE ~t
  BY <1>1, <1>6 DEF Outcome, after, key, t, c, call, table
<1>7. CASE t /\ c
  <2>1. after = [d EXCEPT !.suppressed = @ + 1]
    BY <1>1, <1>7
  <2>2. /\ after \in Detectors
        /\ after.lastFired = d.lastFired /\ after.fired = d.fired /\ after.signals = d.signals
    BY <1>3, <2>1 DEF Detectors
  <2> QED BY <1>7, <2>2 DEF Outcome, after, key, t, c, call, table
<1>8. CASE t /\ ~c
  <2>1. after = [d EXCEPT !.lastFired = table, !.fired = @ + 1, !.signals = Append(@, call)]
    BY <1>1, <1>8
  <2>2. after.lastFired = table /\ after.fired = d.fired + 1 /\ after.signals = Append(d.signals, call)
    BY <1>3, <2>1
  <2>3. after \in Detectors
    <3> DEFINE more == Append(d.signals, call)
    <3>1. after = [lastFired |-> table, fired |-> d.fired + 1, suppressed |-> d.suppressed,
                   signals |-> more]
      BY <1>3, <2>1
    <3>2. more \in Seq(Callbacks) /\ d.fired + 1 \in Nat
      BY <1>3, <1>5
    <3> HIDE DEF more
    <3> QED BY <1>3, <1>4, <3>1, <3>2 DEF Detectors
  <2> QED BY <1>8, <2>2, <2>3 DEF Outcome, after, key, t, c, call, table
<1> QED BY <1>6, <1>7, <1>8

\* evaluate is a loop over the conditions, from a detector without callbacks.
Cleared(d) == [d EXCEPT !.signals = <<>>]
Evaluation(after, d, symbol, agg, trade, clock) ==
    /\ after[0] = Cleared(d)
    /\ \A n \in 1..Len(Conditions) :
          after[n] = EvaluateCondition(after[n - 1], Conditions[n], symbol, agg, trade, clock, Word)
    /\ Evaluate(d, Conditions, symbol, agg, trade, clock, Word) = after[Len(Conditions)]

LEMMA EvaluateTurns ==
    ASSUME NEW d, Cleared(d) \in Detectors, NEW symbol \in Symbols,
           NEW agg, NEW trade, NEW clock \in 0..(Word - 1), agg.samples # 0
    PROVE  \E after : Evaluation(after, d, symbol, agg, trade, clock)
<1> DEFINE N == Len(Conditions)
           base == Cleared(d)
           Turn(n, e) == EvaluateCondition(e, Conditions[n], symbol, agg, trade, clock, Word)
           Loop(H) == H = [n \in 0..N |-> IF n = 0 THEN base ELSE Turn(n, H[n - 1])]
           after == CHOOSE H : Loop(H)
<1>1. Evaluate(d, Conditions, symbol, agg, trade, clock, Word) = after[N]
  BY Zenon DEF Evaluate, Cleared
<1>2. N \in Nat /\ \A i \in 1..N : Conditions[i].type \in SignalTypes
  BY EngineAssumption
<1> HIDE DEF N, base
<1>a. base \in Detectors
  BY DEF base
<1>3. Loop(after)
  <2> DEFINE turn == [n \in 1..N |-> [e \in Detectors |-> Turn(n, e)]]
  <2>1. ASSUME NEW n \in 1..N, NEW e \in Detectors PROVE Turn(n, e) \in Detectors
    BY <1>2, EvaluateConditionCases DEF Outcome
  <2> HIDE DEF Turn
  <2>2. turn \in Turns(N, Detectors)
    BY <2>1 DEF Turns
  <2>3. PICK G : LoopRuns(N, Detectors, base, turn, G)
    <3> HIDE DEF turn
    <3> QED BY <1>2, <1>a, <2>2, LoopExists
  <2>4. G \in [0..N -> Detectors] /\ G[0] = base /\ \A n \in 1..N : G[n] = Turn(n, G[n - 1])
    <3>1. ASSUME NEW n \in 1..N PROVE G[n] = Turn(n, G[n - 1])
      <4> HIDE DEF turn
      <4>1. n - 1 \in 0..N /\ G[n - 1] \in Detectors /\ G[n] = turn[n][G[n - 1]]
        BY <1>2, <2>3 DEF LoopRuns
      <4> QED BY <4>1 DEF turn
    <3> QED BY <2>3, <3>1 DEF LoopRuns
  <2> HIDE DEF turn
  <2>5. Loop(G)
    <3>1. ASSUME NEW n \in 0..N PROVE G[n] = IF n = 0 THEN base ELSE Turn(n, G[n - 1])
      BY <1>2, <2>4
    <3> QED BY <2>4, <3>1
  <2> HIDE DEF Loop
  <2> QED BY <2>5
<1> HIDE DEF after
<1>4. after[0] = base /\ \A n \in 1..N : after[n] = Turn(n, after[n - 1])
  <2> HIDE DEF Turn
  <2>1. ASSUME NEW n \in 0..N PROVE after[n] = IF n = 0 THEN base ELSE Turn(n, after[n - 1])
    BY <1>3, Zenon
  <2> HIDE DEF Loop
  <2>2. 0 \in 0..N /\ \A n \in 1..N : n \in 0..N /\ n # 0
    BY <1>2
  <2> QED BY <2>1, <2>2
<1> HIDE DEF Loop
<1>5. Evaluation(after, d, symbol, agg, trade, clock)
  BY <1>1, <1>4, Zenon DEF N, base, Evaluation
<1> QED BY <1>5

\* One more callback is one more entry of the log.
LEMMA SentAppends ==
    ASSUME NEW L \in Seq(Signals), NEW q \in Seq(Callbacks), NEW call \in Callbacks,
           NEW symbol \in Symbols, NEW now \in Nat, NEW steps \in Nat
    PROVE  L \o Sent(Append(q, call), symbol, now, steps)
             = Append(L \o Sent(q, symbol, now, steps), EntryOf(call.type, symbol, now, steps))
<1> DEFINE E(type) == EntryOf(type, symbol, now, steps)
           n == Len(q)
           r == Append(q, call)
           s == [i \in 1..n |-> E(q[i].type)]
           t == [i \in 1..(n + 1) |-> E(r[i].type)]
           e == E(call.type)
<1>1. \A type \in SignalTypes : E(type) \in Signals
  BY DEF Signals, Keys, EntryOf
<1> HIDE DEF E
<1>2. /\ q \in Seq(Callbacks) /\ n \in Nat /\ DOMAIN q = 1..n
      /\ DOMAIN r = 1..(n + 1) /\ r[n + 1] = call
      /\ \A i \in 1..n : r[i] = q[i] /\ q[i] \in Callbacks
  OBVIOUS
<1>3. call.type \in SignalTypes /\ \A i \in 1..n : q[i].type \in SignalTypes
  BY <1>2 DEF Callbacks
<1> HIDE DEF n, r
<1>4. Sent(q, symbol, now, steps) = s /\ Sent(r, symbol, now, steps) = t
  BY <1>2 DEF Sent, E
<1>5. s \in Seq(Signals) /\ Len(s) = n /\ \A i \in 1..n : s[i] = E(q[i].type)
  BY <1>1, <1>2, <1>3
<1>6. \A i \in 1..(n + 1) : E(r[i].type) \in Signals
  <2> SUFFICES ASSUME NEW i \in 1..(n + 1) PROVE E(r[i].type) \in Signals
    OBVIOUS
  <2>1. CASE i = n + 1
    BY <1>1, <1>2, <1>3, <2>1
  <2>2. CASE i # n + 1
    <3>1. i \in 1..n
      BY <1>2, <2>2
    <3> QED BY <1>1, <1>2, <1>3, <3>1
  <2> QED BY <2>1, <2>2
<1>7. t \in Seq(Signals) /\ Len(t) = n + 1 /\ \A i \in 1..(n + 1) : t[i] = E(r[i].type)
  BY <1>2, <1>6
<1>8. e \in Signals
  BY <1>1, <1>3
<1> HIDE DEF s, t, e
<1> DEFINE m == Len(L)
           a == L \o s
           b == L \o t
           c == Append(a, e)
<1>9. /\ a \in Seq(Signals) /\ Len(a) = m + n /\ m \in Nat
      /\ \A i \in 1..(m + n) : a[i] = IF i <= m THEN L[i] ELSE s[i - m]
  <2>1. /\ L \o s \in Seq(Signals) /\ Len(L \o s) = Len(L) + Len(s)
        /\ \A i \in 1..(Len(L) + Len(s)) : (L \o s)[i] = IF i <= Len(L) THEN L[i] ELSE s[i - Len(L)]
    BY <1>5, ConcatProperties
  <2> HIDE DEF a
  <2>2. Len(L) \in Nat
    OBVIOUS
  <2> QED BY <1>5, <2>1, <2>2 DEF a
<1>10. /\ b \in Seq(Signals) /\ Len(b) = m + (n + 1)
       /\ \A i \in 1..(m + (n + 1)) : b[i] = IF i <= m THEN L[i] ELSE t[i - m]
  <2>1. /\ L \o t \in Seq(Signals) /\ Len(L \o t) = Len(L) + Len(t)
        /\ \A i \in 1..(Len(L) + Len(t)) : (L \o t)[i] = IF i <= Len(L) THEN L[i] ELSE t[i - Len(L)]
    BY <1>7, ConcatProperties
  <2> HIDE DEF b
  <2> QED BY <1>7, <2>1 DEF b
<1> HIDE DEF m, a, b
<1>11. /\ c \in Seq(Signals) /\ Len(c) = Len(a) + 1 /\ c[Len(a) + 1] = e
       /\ \A i \in 1..Len(a) : c[i] = a[i]
  BY <1>8, <1>9, AppendProperties
<1> HIDE DEF c
<1>12. ASSUME NEW i \in 1..Len(b) PROVE b[i] = c[i]
  <2>0. i \in 1..(m + (n + 1)) /\ i \in Nat
    BY <1>2, <1>9, <1>10, <1>12
  <2>1. CASE i = m + n + 1
    <3>1. ~(i <= m) /\ i - m = n + 1 /\ n + 1 \in 1..(n + 1) /\ i = Len(a) + 1
      BY <1>2, <1>9, <2>1
    <3>2. b[i] = t[n + 1]
      BY <1>10, <2>0, <3>1
    <3>3. t[n + 1] = e
      BY <1>2, <1>7, <3>1 DEF e
    <3> QED BY <1>11, <3>1, <3>2, <3>3
  <2>2. CASE i # m + n + 1
    <3>1. i \in 1..(m + n) /\ i \in 1..Len(a)
      BY <1>2, <1>9, <2>0, <2>2
    <3>2. CASE i <= m
      BY <1>9, <1>10, <1>11, <2>0, <3>1, <3>2
    <3>3. CASE ~(i <= m)
      <4>1. i - m \in 1..n /\ i - m \in 1..(n + 1)
        BY <1>2, <1>9, <3>1, <3>3
      <4>2. s[i - m] = t[i - m]
        BY <1>2, <1>5, <1>7, <4>1
      <4> QED BY <1>9, <1>10, <1>11, <2>0, <3>1, <3>3, <4>2
    <3> QED BY <3>2, <3>3
  <2> QED BY <2>1, <2>2
<1>13. Len(b) = Len(c)
  BY <1>2, <1>9, <1>10, <1>11
<1>14. b = c
  BY <1>10, <1>11, <1>12, <1>13, SeqEqual
<1>15. b = Append(a, e)
  BY <1>14 DEF c
<1> QED BY <1>4, <1>15 DEF a, b, e, E, r

\* What holds after k turns of the loop.
Sound(d, k, L, symbol, agg, trade, now, shift, steps) ==
    LET all == L \o Sent(d.signals, symbol, now, steps)
    IN /\ d \in Detectors
       /\ all \in Seq(Signals)
       /\ Agree(d.lastFired, all, now, shift, steps)
       /\ d.fired = Len(all)
       /\ \A j \in 1..k : Triggered(Conditions[j], agg, trade) =>
             \/ \E i \in DOMAIN d.signals : d.signals[i].type = Conditions[j].type
             \/ Silenced(EntryOf(Conditions[j].type, symbol, now, steps), all)

LEMMA TurnKeepsSound ==
    ASSUME NEW k \in Nat, k + 1 \in 1..Len(Conditions), NEW d, NEW L \in Seq(Signals),
           NEW symbol \in Symbols, NEW agg, NEW trade,
           NEW now \in Nat, NEW shift \in Nat, NEW steps \in Nat,
           now + shift < Word, StartTime <= now,
           Sound(d, k, L, symbol, agg, trade, now, shift, steps)
    PROVE  Sound(EvaluateCondition(d, Conditions[k + 1], symbol, agg, trade, now + shift, Word),
                 k + 1, L, symbol, agg, trade, now, shift, steps)
<1> DEFINE cond == Conditions[k + 1]
           clock == now + shift
           after == EvaluateCondition(d, cond, symbol, agg, trade, clock, Word)
           E(type) == EntryOf(type, symbol, now, steps)
           key == <<cond.type, symbol>>
           all == L \o Sent(d.signals, symbol, now, steps)
           more == L \o Sent(after.signals, symbol, now, steps)
           Fate(e, m, j) == Triggered(Conditions[j], agg, trade) =>
                 \/ \E i \in DOMAIN e.signals : e.signals[i].type = Conditions[j].type
                 \/ Silenced(E(Conditions[j].type), m)
<1>1. /\ cond.type \in SignalTypes /\ cond.cooldown \in Nat /\ cond.cooldown \in Cooldowns(cond.type)
      /\ Word \in Nat /\ StartTime \in Nat /\ clock \in 0..(Word - 1)
  <2>1. k + 1 \in DOMAIN Conditions /\ cond.type \in SignalTypes /\ cond.cooldown \in Nat
    <3>1. Conditions \in Seq(Range(Conditions)) /\ \A i \in DOMAIN Conditions :
             Conditions[i].type \in SignalTypes /\ Conditions[i].cooldown \in Nat
      BY EngineAssumption
    <3>2. DOMAIN Conditions = 1..Len(Conditions)
      BY <3>1
    <3> QED BY <3>1, <3>2, Zenon
  <2>2. Word \in Nat /\ StartTime \in Nat
    BY EngineAssumption DEF StartTime
  <2>3. cond.cooldown \in Cooldowns(cond.type)
    BY <2>1, Zenon DEF Cooldowns
  <2> HIDE DEF cond
  <2>4. clock \in 0..(Word - 1)
    BY <2>2
  <2> QED BY <2>1, <2>2, <2>3, <2>4
<1>2. /\ d \in Detectors /\ all \in Seq(Signals) /\ Agree(d.lastFired, all, now, shift, steps)
      /\ d.fired = Len(all)
      /\ \A j \in 1..k : Fate(d, all, j)
  BY Zenon DEF Sound
<1>3. d.lastFired \in Tables /\ d.signals \in Seq(Callbacks)
  BY <1>2 DEF Detectors
<1> HIDE DEF clock
<1>4. Outcome(after, d, cond, symbol, agg, trade, clock)
  <2> HIDE DEF cond
  <2> QED BY <1>1, <1>2, EvaluateConditionCases
<1> HIDE DEF after
<1>5. ASSUME NEW j \in 1..(k + 1) PROVE j \in 1..k \/ Conditions[j] = cond
  OBVIOUS
<1> SUFFICES /\ more \in Seq(Signals) /\ Agree(after.lastFired, more, now, shift, steps)
             /\ after.fired = Len(more)
             /\ \A j \in 1..(k + 1) : Fate(after, more, j)
  BY <1>4, Zenon DEF Sound, Outcome, after, clock
<1>6. CASE ~Triggered(cond, agg, trade)
  <2>1. after = d /\ more = all
    BY <1>4, <1>6 DEF Outcome
  <2>2. ASSUME NEW j \in 1..(k + 1) PROVE Fate(after, more, j)
    BY <1>2, <1>5, <1>6, <2>1, Zenon
  <2> HIDE DEF Fate, all, more
  <2> QED BY <1>2, <2>1, <2>2
<1>7. CASE Triggered(cond, agg, trade) /\ Cooling(d.lastFired, key, cond.cooldown, clock, Word)
  <2>1. after.lastFired = d.lastFired /\ after.fired = d.fired /\ after.signals = d.signals
    BY <1>4, <1>7 DEF Outcome
  <2>2. more = all
    BY <2>1
  <2> HIDE DEF cond, all, more
  <2>3. Silenced(E(cond.type), all)
    BY <1>1, <1>2, <1>3, <1>7, CoolingIsSilenced DEF clock
  <2>4. ASSUME NEW j \in 1..(k + 1) PROVE Fate(after, more, j)
    <3>1. CASE j \in 1..k
      BY <1>2, <2>1, <2>2, <3>1, Zenon
    <3>2. CASE Conditions[j] = cond
      <4>1. Silenced(E(Conditions[j].type), more)
        BY <2>2, <2>3, <3>2
      <4> QED BY <4>1, Zenon
    <3> QED BY <1>5, <3>1, <3>2
  <2> HIDE DEF Fate
  <2> QED BY <1>2, <2>1, <2>2, <2>4
<1>8. CASE Triggered(cond, agg, trade) /\ ~Cooling(d.lastFired, key, cond.cooldown, clock, Word)
  <2> DEFINE call == [type |-> cond.type, symbol |-> symbol]
             table == Put(d.lastFired, key, clock)
  <2>1. after.lastFired = table /\ after.fired = d.fired + 1
        /\ after.signals = Append(d.signals, call)
    BY <1>4, <1>8 DEF Outcome
  <2> HIDE DEF cond
  <2>2. call \in Callbacks /\ call.type = cond.type
    BY <1>1 DEF Callbacks
  <2> HIDE DEF call
  <2>3. more = Append(all, E(cond.type))
    <3> DEFINE q == d.signals
               part == Sent(q, symbol, now, steps)
               whole == Sent(Append(q, call), symbol, now, steps)
    <3>1. q \in Seq(Callbacks) /\ call \in Callbacks
      BY <1>3, <2>2
    <3>2. more = L \o whole /\ all = L \o part
      BY <2>1
    <3> HIDE DEF q
    <3>3. L \o whole = Append(L \o part, EntryOf(call.type, symbol, now, steps))
      BY <3>1, SentAppends, SMTT(30)
    <3> HIDE DEF part, whole, more, all
    <3> QED BY <2>2, <3>2, <3>3, Zenon
  <2> HIDE DEF more, all
  <2>4. more \in Seq(Signals) /\ Agree(table, more, now, shift, steps)
    BY <1>1, <1>2, <1>3, <1>8, <2>3, FireAgrees DEF clock
  <2> HIDE DEF table
  <2>5. /\ Len(more) = Len(all) + 1 /\ DOMAIN all \subseteq DOMAIN more
        /\ \A i \in DOMAIN all : more[i] = all[i]
    <3> DEFINE e == E(cond.type)
    <3> HIDE DEF e
    <3>1. IsSequence(all) /\ more = Append(all, e)
      BY <1>2, <2>3, SequenceOfRange DEF e
    <3>2. /\ Len(more) = Len(all) + 1 /\ Len(all) \in Nat /\ DOMAIN all = 1..Len(all)
          /\ \A i \in 1..Len(all) : more[i] = all[i]
      BY <3>1, AppendSequence
    <3>3. DOMAIN more = 1..Len(more)
      BY <2>4
    <3> QED BY <3>2, <3>3
  <2>6. ASSUME NEW j \in 1..(k + 1) PROVE Fate(after, more, j)
    <3> DEFINE n == Len(d.signals)
    <3>1. /\ n \in Nat /\ DOMAIN d.signals = 1..n /\ DOMAIN after.signals = 1..(n + 1)
          /\ after.signals[n + 1] = call
          /\ \A i \in 1..n : after.signals[i] = d.signals[i]
      BY <1>3, <2>1, <2>2
    <3> HIDE DEF n
    <3>2. CASE j \in 1..k
      <4> SUFFICES ASSUME Triggered(Conditions[j], agg, trade)
                   PROVE  \/ \E i \in DOMAIN after.signals :
                                after.signals[i].type = Conditions[j].type
                          \/ Silenced(E(Conditions[j].type), more)
        BY Zenon
      <4>1. \/ \E i \in DOMAIN d.signals : d.signals[i].type = Conditions[j].type
            \/ Silenced(E(Conditions[j].type), all)
        BY <1>2, <3>2, Zenon
      <4>2. CASE \E i \in DOMAIN d.signals : d.signals[i].type = Conditions[j].type
        <5>1. PICK i \in DOMAIN d.signals : d.signals[i].type = Conditions[j].type
          BY <4>2
        <5>2. i \in DOMAIN after.signals /\ after.signals[i].type = Conditions[j].type
          <6>1. i \in 1..n /\ i \in 1..(n + 1)
            BY <3>1, <5>1
          <6>2. after.signals[i] = d.signals[i]
            BY <3>1, <6>1
          <6> QED BY <3>1, <5>1, <6>1, <6>2, Zenon
        <5> QED BY <5>2, Zenon
      <4>3. CASE Silenced(E(Conditions[j].type), all)
        <5>1. Silenced(E(Conditions[j].type), more)
          BY <2>5, <4>3, SilencedStays, Zenon
        <5> QED BY <5>1
      <4> QED BY <4>1, <4>2, <4>3
    <3>3. CASE Conditions[j] = cond
      <4>1. n + 1 \in DOMAIN after.signals /\ after.signals[n + 1].type = Conditions[j].type
        BY <2>2, <3>1, <3>3
      <4> QED BY <4>1, Zenon
    <3> QED BY <1>5, <3>2, <3>3
  <2>7. after.fired = Len(more)
    BY <1>2, <2>1, <2>5
  <2> HIDE DEF Fate
  <2> QED BY <2>1, <2>4, <2>6, <2>7
<1> QED BY <1>6, <1>7, <1>8

\* evaluate leaves the table in agreement with the log, and every condition that
\* is met has fired or is silenced by its cooldown.
LEMMA EvaluateSound ==
    ASSUME NEW d, NEW base \in Detectors, base = Cleared(d), base.signals = <<>>,
           NEW L \in Seq(Signals), base.fired = Len(L),
           NEW symbol \in Symbols, NEW agg, NEW trade, agg.samples # 0,
           NEW now \in Nat, NEW shift \in Nat, NEW steps \in Nat,
           now + shift < Word, StartTime <= now,
           Agree(base.lastFired, L, now, shift, steps)
    PROVE  Sound(Evaluate(d, Conditions, symbol, agg, trade, now + shift, Word),
                 Len(Conditions), L, symbol, agg, trade, now, shift, steps)
<1> DEFINE clock == now + shift
           N == Len(Conditions)
<1>1. N \in Nat /\ Word \in Nat
  BY EngineAssumption
<1>2. clock \in 0..(Word - 1)
  BY <1>1
<1> HIDE DEF clock
<1>3. PICK after : Evaluation(after, d, symbol, agg, trade, clock)
  BY <1>1, <1>2, EvaluateTurns
<1> DEFINE P(n) == Sound(after[n], n, L, symbol, agg, trade, now, shift, steps)
           T == {n \in Nat : n <= N => P(n)}
<1>4. P(0)
  <2> DEFINE b == after[0]
             all == L \o Sent(b.signals, symbol, now, steps)
  <2>1. b = base
    BY <1>3 DEF Evaluation
  <2>2. Sent(b.signals, symbol, now, steps) = <<>>
    BY <2>1 DEF Sent
  <2>3. all = L
    BY <2>2, ConcatEmptySeq
  <2> HIDE DEF b, all
  <2>4. \A j \in 1..0 : FALSE
    OBVIOUS
  <2>5. /\ b \in Detectors /\ all \in Seq(Signals) /\ Agree(b.lastFired, all, now, shift, steps)
        /\ b.fired = Len(all)
    BY <2>1, <2>3
  <2> QED BY <2>4, <2>5, Zenon DEF Sound, b, all
<1>5. ASSUME NEW n \in Nat, n \in T PROVE n + 1 \in T
  <2> SUFFICES ASSUME n + 1 <= N PROVE P(n + 1)
    OBVIOUS
  <2>1. n + 1 \in 1..Len(Conditions) /\ (n + 1) - 1 = n /\ n <= N
    BY <1>1
  <2>2. P(n)
    <3> HIDE DEF P
    <3> QED BY <1>5, <2>1
  <2>3. after[n + 1] = EvaluateCondition(after[n], Conditions[n + 1], symbol, agg, trade, clock, Word)
    BY <1>3, <2>1 DEF Evaluation
  <2> QED BY <2>1, <2>2, <2>3, TurnKeepsSound DEF clock
<1> HIDE DEF P
<1>6. 0 \in T
  BY <1>4
<1> HIDE DEF T, N
<1>7. N \in T
  BY <1>1, <1>5, <1>6, InductionOnSet
<1>8. P(N)
  BY <1>1, <1>7 DEF T
<1> QED BY <1>3, <1>8, Zenon DEF Evaluation, P, N, clock

--------------------------------------------------------------------------------
(* The steps.                                                              *)

LEMMA NoMids == MidsOf(<<>>) = <<>> /\ SymbolFollows(EmptyAggregator, <<>>)
<1> DEFINE none == <<>>
<1>1. IsSequence(none) /\ Len(none) = 0
  BY DEF IsSequence
<1> HIDE DEF none
<1>2. PICK mids : /\ mids[0] = <<>>
                  /\ MidsOf(none) = mids[Len(none)]
  BY <1>1, MidsTurns
<1>3. MidsOf(none) = <<>>
  BY <1>1, <1>2
<1> USE DEF none
<1>4. LastN(<<>>, SmaWindow) = <<>>
  BY EngineAssumption DEF LastN
<1> QED BY <1>3, <1>4 DEF SymbolFollows, EmptyAggregator

LEMMA NewSymbolOK == SymbolOK(NewSymbol) /\ NewSymbol.agg = EmptyAggregator
<1>1. IsSequence(<<>>) /\ Len(<<>>) = 0
  BY DEF IsSequence
<1> QED BY <1>1, EngineAssumption DEF SymbolOK, NewSymbol, EmptyAggregator, EmptyTrades

\* update of the aggregator keeps it what the symbol's history says.
LEMMA AggregatorFollows ==
    ASSUME NEW agg, NEW book, NEW all, IsSequence(all),
           IsSequence(agg.mids), Len(agg.mids) <= SmaWindow,
           IsSequence(agg.spreads), Len(agg.spreads) <= SmaWindow,
           agg.snapshot.samples \in Nat,
           SymbolFollows(agg, all),
           NEW new, new = UpdateAggregator(agg, book, VwapLevels, SmaWindow),
           NEW x, x = [mid |-> TwiceMid(book), imbalance |-> Imbalance(book)]
    PROVE  /\ IsSequence(new.mids) /\ Len(new.mids) <= SmaWindow
           /\ IsSequence(new.spreads) /\ Len(new.spreads) <= SmaWindow
           /\ new.snapshot.samples \in Nat \ {0}
           /\ SymbolFollows(new, Append(all, x))
<1> DEFINE mid == TwiceMid(book)
           spread == Spread(book)
           imbalance == Imbalance(book)
           more == Append(all, x)
<1>0. SmaWindow \in Nat \ {0}
  BY EngineAssumption
<1>1. /\ new.mids = IF mid > 0 THEN Roll(agg.mids, mid, SmaWindow) ELSE agg.mids
      /\ new.spreads = IF spread >= 0 THEN Roll(agg.spreads, spread, SmaWindow) ELSE agg.spreads
      /\ new.snapshot.midSma = IF mid > 0 THEN Mean(new.mids) ELSE agg.snapshot.midSma
      /\ new.snapshot.imbalance = imbalance
      /\ new.snapshot.delta = Minus(imbalance, agg.snapshot.imbalance)
      /\ new.snapshot.samples = agg.snapshot.samples + 1
  BY DEF UpdateAggregator, Pressure
<1>2. x.mid = mid /\ x.imbalance = imbalance
  OBVIOUS
<1>3. /\ IsSequence(more) /\ Len(more) = Len(all) + 1 /\ Len(all) \in Nat
      /\ more[Len(all) + 1] = x /\ \A i \in 1..Len(all) : more[i] = all[i]
  BY AppendSequence
<1>4. MidsOf(more) = TakeMid(MidsOf(all), x) /\ IsSequence(MidsOf(all))
  BY MidsAppend
<1> HIDE DEF mid, spread, imbalance, more
<1>5. /\ IsSequence(new.mids) /\ Len(new.mids) <= SmaWindow
      /\ IsSequence(new.spreads) /\ Len(new.spreads) <= SmaWindow
  BY <1>0, <1>1, RollProperties
<1>6. new.snapshot.samples \in Nat \ {0}
  BY <1>1
<1>7. new.mids = LastN(MidsOf(more), SmaWindow)
  <2>1. agg.mids = LastN(MidsOf(all), SmaWindow)
    BY DEF SymbolFollows
  <2>2. CASE mid > 0
    <3>1. new.mids = Roll(LastN(MidsOf(all), SmaWindow), mid, SmaWindow)
      BY <1>1, <2>1, <2>2
    <3>2. MidsOf(more) = Append(MidsOf(all), mid)
      BY <1>2, <1>4, <2>2 DEF TakeMid
    <3> DEFINE q == MidsOf(all)
    <3>3. IsSequence(q)
      BY <1>4
    <3> HIDE DEF q
    <3>4. Roll(LastN(q, SmaWindow), mid, SmaWindow) = LastN(Append(q, mid), SmaWindow)
      BY <1>0, <3>3, RollKeepsLast
    <3> QED BY <3>1, <3>2, <3>4 DEF q
  <2>3. CASE ~(mid > 0)
    BY <1>1, <1>2, <1>4, <2>1, <2>3 DEF TakeMid
  <2> QED BY <2>2, <2>3
<1>8. new.mids # <<>> => new.snapshot.midSma = Mean(new.mids)
  BY <1>1 DEF SymbolFollows
<1>9. new.snapshot.imbalance = more[Len(more)].imbalance
  BY <1>1, <1>2, <1>3
<1>10. ASSUME Len(more) > 1
       PROVE  new.snapshot.delta = Minus(more[Len(more)].imbalance, more[Len(more) - 1].imbalance)
  <2>1. Len(all) \in 1..Len(all) /\ Len(more) - 1 = Len(all) /\ all # <<>>
    BY <1>3, <1>10
  <2>2. more[Len(more) - 1] = all[Len(all)]
    BY <1>3, <2>1
  <2>3. agg.snapshot.imbalance = all[Len(all)].imbalance
    BY <2>1 DEF SymbolFollows
  <2> QED BY <1>1, <1>2, <1>3, <2>2, <2>3
<1>11. SymbolFollows(new, more)
  BY <1>7, <1>8, <1>9, <1>10, Zenon DEF SymbolFollows
<1> QED BY <1>5, <1>6, <1>11 DEF more

\* update of the trade aggregator keeps its deque of volumes bounded.
LEMMA TradesStayOK ==
    ASSUME NEW old, NEW trade,
           DOMAIN old = {"trades", "completed", "start", "current", "snapshot"},
           IsSequence(old.completed), Len(old.completed) <= VolumeWindows
    PROVE  LET new == UpdateTrades(old, trade, Window, VolumeWindows)
           IN /\ DOMAIN new = {"trades", "completed", "start", "current", "snapshot"}
              /\ IsSequence(new.completed) /\ Len(new.completed) <= VolumeWindows
<1> DEFINE Fields == {"trades", "completed", "start", "current", "snapshot"}
           OK(a) == /\ DOMAIN a = Fields
                    /\ IsSequence(a.completed) /\ Len(a.completed) <= VolumeWindows
           now == trade.time
           opened == IF old.start = 0 THEN [old EXCEPT !.start = now] ELSE old
           inWindow == IF now >= opened.start + Window
                       THEN Archive(opened, now, Window, VolumeWindows) ELSE opened
           taken == [inWindow EXCEPT !.trades = Append(ExpireOld(@, Cutoff(now, Window)), trade),
                                     !.current = @ + trade.qty]
<1>1. OK(opened)
  <2>1. DOMAIN opened = Fields /\ opened.completed = old.completed
    OBVIOUS
  <2> QED BY <2>1
<1> HIDE DEF opened
<1>2. OK(Archive(opened, now, Window, VolumeWindows))
  <2> DEFINE a == Archive(opened, now, Window, VolumeWindows)
             rolled == Roll(opened.completed, opened.current, VolumeWindows)
  <2>1. DOMAIN a = Fields /\ a.completed = rolled
    BY <1>1 DEF Archive
  <2>2. IsSequence(rolled) /\ Len(rolled) <= VolumeWindows
    BY <1>1, RollProperties, EngineAssumption
  <2> HIDE DEF a, rolled
  <2> QED BY <2>1, <2>2 DEF a
<1>3. OK(inWindow)
  <2> HIDE DEF OK
  <2> QED BY <1>1, <1>2
<1> HIDE DEF inWindow
<1>4. OK(taken)
  <2>1. DOMAIN taken = Fields /\ taken.completed = inWindow.completed
    BY <1>3
  <2> QED BY <1>3, <2>1
<1> HIDE DEF taken
<1>5. OK(Recompute(taken))
  <2>1. DOMAIN Recompute(taken) = Fields /\ Recompute(taken).completed = taken.completed
    BY <1>4 DEF Recompute
  <2> QED BY <1>4, <2>1
<1>6. UpdateTrades(old, trade, Window, VolumeWindows) = Recompute(taken)
  BY DEF UpdateTrades, taken, inWindow, opened
<1> QED BY <1>5, <1>6

LEMMA TimeAdvances ==
    ASSUME TypeOK, NEW gap \in 0..MaxGap, Arrives(gap)
    PROVE  /\ messages' \in 0..MaxMessages
           /\ elapsed' \in StartTime..(StartTime + MaxGap * messages')
           /\ StartTime \in Nat /\ elapsed \in Nat /\ elapsed' \in Nat
           /\ StartTime <= elapsed' /\ elapsed <= elapsed'
           /\ offset \in Nat /\ clockSteps \in Nat
           /\ elapsed' + offset < Word
           /\ offset' = offset /\ clockSteps' = clockSteps
<1> DEFINE a == MaxGap * messages
           b == MaxGap * (messages + 1)
           c == MaxGap * MaxMessages
<1>1. /\ StartTime = Window + 1 /\ Window \in Nat /\ MaxGap \in Nat /\ MaxMessages \in Nat
      /\ MaxClockSteps \in Nat /\ Word \in Nat /\ Word > Window + 1 + c + 2 * MaxClockSteps
  BY EngineAssumption DEF StartTime
<1>2. /\ messages \in Nat /\ messages + 1 <= MaxMessages /\ messages' = messages + 1
      /\ elapsed' = elapsed + gap /\ offset' = offset /\ clockSteps' = clockSteps
      /\ elapsed \in StartTime..(StartTime + a)
      /\ clockSteps \in 0..MaxClockSteps
      /\ offset \in (MaxClockSteps - clockSteps)..(MaxClockSteps + clockSteps)
  <2>1. /\ messages \in 0..MaxMessages /\ messages < MaxMessages /\ messages' = messages + 1
        /\ elapsed' = elapsed + gap /\ offset' = offset /\ clockSteps' = clockSteps
    BY DEF TypeOK, Arrives
  <2>2. messages \in Nat /\ messages + 1 <= MaxMessages
    BY <1>1, <2>1
  <2>3. /\ elapsed \in StartTime..(StartTime + a) /\ clockSteps \in 0..MaxClockSteps
        /\ offset \in (MaxClockSteps - clockSteps)..(MaxClockSteps + clockSteps)
    BY Zenon DEF TypeOK
  <2> QED BY <2>1, <2>2, <2>3, Zenon
<1>3. a \in Nat /\ b = a + MaxGap /\ b <= c /\ c \in Nat
  <2>1. a \in Nat /\ b = a + MaxGap /\ c \in Nat
    BY <1>1, <1>2
  <2>2. messages + 1 \in Nat
    BY <1>2
  <2>3. \A x, y, z \in Nat : y <= z => x * y <= x * z
    BY ProductGrows, Zenon
  <2> QED BY <1>1, <1>2, <2>1, <2>2, <2>3, Zenon
<1>4. elapsed' \in StartTime..(StartTime + b) /\ b = MaxGap * messages'
  <2>1. b = MaxGap * messages'
    BY <1>2
  <2> HIDE DEF a, b, c
  <2> QED BY <1>1, <1>2, <1>3, <2>1
<1> HIDE DEF a, b, c
<1>5. offset \in Nat /\ offset <= 2 * MaxClockSteps /\ clockSteps \in Nat
  BY <1>1, <1>2
<1> QED BY <1>1, <1>2, <1>3, <1>4, <1>5

LEMMA StateOfOK ==
    ASSUME EngineInvariant, NEW s \in Symbols
    PROVE  /\ SymbolOK(StateOf(s)) /\ SymbolFollows(StateOf(s).agg, figures[s])
           /\ IsSequence(figures[s])
<1>1. IsSequence(figures[s])
  BY DEF EngineInvariant, TypeOK
<1>2. CASE s \in DOMAIN states
  <2>1. StateOf(s) = states[s]
    BY <1>2 DEF StateOf
  <2>2. SymbolOK(states[s]) /\ SymbolFollows(states[s].agg, figures[s])
    BY <1>2 DEF EngineInvariant, TypeOK
  <2> QED BY <1>1, <2>1, <2>2
<1>3. CASE s \notin DOMAIN states
  <2>1. StateOf(s) = NewSymbol /\ figures[s] = <<>>
    BY <1>3 DEF StateOf, EngineInvariant
  <2> QED BY <1>1, <2>1, NoMids, NewSymbolOK
<1> QED BY <1>2, <1>3

\* A symbol's state is replaced by one that is well-formed and follows its figures.
LEMMA SymbolStep ==
    ASSUME EngineInvariant, NEW s \in Symbols, NEW new, SymbolOK(new),
           states' = Put(states, s, new),
           NEW all, IsSequence(all), SymbolFollows(new.agg, all),
           DOMAIN figures' = DOMAIN figures, figures'[s] = all,
           \A r \in Symbols : r # s => figures'[r] = figures[r]
    PROVE  /\ DOMAIN states' \subseteq Symbols
           /\ \A r \in DOMAIN states' : SymbolOK(states'[r])
           /\ DOMAIN figures' = Symbols /\ \A r \in Symbols : IsSequence(figures'[r])
           /\ \A r \in Symbols : IF r \in DOMAIN states'
                                 THEN SymbolFollows(states'[r].agg, figures'[r])
                                 ELSE figures'[r] = <<>>
<1>1. /\ DOMAIN states' = DOMAIN states \cup {s} /\ states'[s] = new
      /\ \A r \in DOMAIN states : r # s => states'[r] = states[r]
  BY DEF Put
<1>2. /\ DOMAIN states \subseteq Symbols /\ DOMAIN figures = Symbols
      /\ \A r \in DOMAIN states : SymbolOK(states[r])
      /\ \A r \in Symbols : IsSequence(figures[r])
      /\ \A r \in Symbols : IF r \in DOMAIN states
                            THEN SymbolFollows(states[r].agg, figures[r])
                            ELSE figures[r] = <<>>
  BY DEF EngineInvariant, TypeOK
<1>3. /\ DOMAIN figures' = Symbols /\ figures'[s] = all
      /\ \A r \in Symbols : r # s => figures'[r] = figures[r]
  BY <1>2
<1>4. ASSUME NEW r \in DOMAIN states' PROVE SymbolOK(states'[r])
  BY <1>1, <1>2, <1>4
<1>5. ASSUME NEW r \in Symbols PROVE IsSequence(figures'[r])
  BY <1>2, <1>3
<1>6. ASSUME NEW r \in Symbols
      PROVE  IF r \in DOMAIN states' THEN SymbolFollows(states'[r].agg, figures'[r])
                                     ELSE figures'[r] = <<>>
  BY <1>1, <1>2, <1>3
<1> QED BY <1>1, <1>2, <1>3, <1>4, <1>5, <1>6

\* What a depth update leaves of a symbol's state.
LEMMA AfterDepthOK ==
    ASSUME NEW old, SymbolOK(old), NEW all, IsSequence(all), SymbolFollows(old.agg, all),
           NEW depth, NEW new, new = AfterDepth(old, depth)
    PROVE  /\ SymbolOK(new) /\ new.agg.snapshot.samples # 0
           /\ SymbolFollows(new.agg, Append(all, [mid |-> TwiceMid(new.book),
                                                  imbalance |-> Imbalance(new.book)]))
<1> DEFINE update == [bids |-> depth.bids, asks |-> depth.asks,
                      first |-> old.book.lastId + 1, last |-> old.book.lastId + 1]
           book == ApplyUpdate(old.book, update)
           agg == UpdateAggregator(old.agg, book, VwapLevels, SmaWindow)
           x == [mid |-> TwiceMid(book), imbalance |-> Imbalance(book)]
<1>1. new = [old EXCEPT !.book = book, !.agg = agg]
  BY DEF AfterDepth
<1> HIDE DEF book, agg
<1>2. /\ DOMAIN new = {"book", "agg", "trades"} /\ new.book = book /\ new.agg = agg
      /\ new.trades = old.trades
  BY <1>1 DEF SymbolOK
<1>3. agg = UpdateAggregator(old.agg, book, VwapLevels, SmaWindow)
  BY DEF agg
<1>4. /\ IsSequence(old.agg.mids) /\ Len(old.agg.mids) <= SmaWindow
      /\ IsSequence(old.agg.spreads) /\ Len(old.agg.spreads) <= SmaWindow
      /\ old.agg.snapshot.samples \in Nat
  BY DEF SymbolOK
<1>5. x = [mid |-> TwiceMid(book), imbalance |-> Imbalance(book)]
  OBVIOUS
<1> HIDE DEF x
<1>6. /\ IsSequence(agg.mids) /\ Len(agg.mids) <= SmaWindow
      /\ IsSequence(agg.spreads) /\ Len(agg.spreads) <= SmaWindow
      /\ agg.snapshot.samples \in Nat \ {0}
      /\ SymbolFollows(agg, Append(all, x))
  BY <1>3, <1>4, <1>5, AggregatorFollows
<1>7. SymbolOK(new)
  BY <1>2, <1>6 DEF SymbolOK
<1>8. /\ new.agg.snapshot.samples # 0
      /\ SymbolFollows(new.agg, Append(all, x))
      /\ x = [mid |-> TwiceMid(new.book), imbalance |-> Imbalance(new.book)]
  BY <1>2, <1>5, <1>6
<1> QED BY <1>7, <1>8

\* An evaluation at a later time.
LEMMA DetectorStep ==
    ASSUME EngineInvariant, NEW gap \in 0..MaxGap, Arrives(gap), NEW symbol \in Symbols,
           NEW agg, NEW trade, agg.samples # 0, NEW met,
           met = {Conditions[i].type : i \in {j \in DOMAIN Conditions :
                                                  Triggered(Conditions[j], agg, trade)}},
           det' = Evaluate(det, Conditions, symbol, agg, trade, elapsed' + offset, Word),
           log' = log \o Sent(det'.signals, symbol, elapsed', clockSteps),
           withheld' = withheld \cup ({EntryOf(type, symbol, elapsed', clockSteps) : type \in met}
                                        \ Range(Sent(det'.signals, symbol, elapsed', clockSteps)))
    PROVE  /\ det' \in Detectors /\ det'.fired = Len(log')
           /\ log' \in Seq(Signals)
           /\ Agree(det'.lastFired, log', elapsed', offset', clockSteps')
           /\ SilencedOnlyByCooldown'
<1> DEFINE base == Cleared(det)
           now == elapsed'
           sent == Sent(det'.signals, symbol, now, clockSteps)
           E(type) == EntryOf(type, symbol, now, clockSteps)
<1>1. /\ now \in Nat /\ StartTime <= now /\ elapsed \in Nat /\ elapsed <= now /\ StartTime \in Nat
      /\ offset \in Nat /\ clockSteps \in Nat /\ now + offset < Word
      /\ offset' = offset /\ clockSteps' = clockSteps
  BY TimeAdvances DEF EngineInvariant
<1>2. log \in Seq(Signals)
  BY DEF EngineInvariant, TypeOK, Signals
<1>3. base \in Detectors /\ base.signals = <<>> /\ base.fired = Len(log)
      /\ base.lastFired = det.lastFired
  <2>1. det = [lastFired |-> det.lastFired, fired |-> Len(log), suppressed |-> det.suppressed,
               signals |-> det.signals]
    BY DEF EngineInvariant, TypeOK
  <2>2. base = [lastFired |-> det.lastFired, fired |-> Len(log), suppressed |-> det.suppressed,
                signals |-> <<>>]
    BY <2>1 DEF Cleared
  <2>3. det.lastFired \in Tables
    BY TableProperties DEF EngineInvariant, TypeOK
  <2>4. det.suppressed \in Nat /\ Len(log) \in Nat /\ <<>> \in Seq(Callbacks)
    BY <1>2 DEF EngineInvariant, TypeOK
  <2> HIDE DEF base
  <2> QED BY <2>2, <2>3, <2>4 DEF Detectors
<1>4. Agree(base.lastFired, log, now, offset, clockSteps)
  <2>1. LogOrdered(log, now, clockSteps)
    <3>1. LogOrdered(log, elapsed, clockSteps)
      BY DEF EngineInvariant
    <3>2. \A a \in StartTime..elapsed : a \in StartTime..now
      BY <1>1
    <3> HIDE DEF now
    <3> QED BY <3>1, <3>2, Zenon DEF LogOrdered
  <2> QED BY <1>3, <2>1 DEF Agree, EngineInvariant, CooldownHonoured
<1> HIDE DEF base
<1>5. base = Cleared(det)
  BY DEF base
<1> HIDE DEF now
<1>6. Sound(det', Len(Conditions), log, symbol, agg, trade, now, offset, clockSteps)
  <2>1. Sound(Evaluate(det, Conditions, symbol, agg, trade, now + offset, Word),
              Len(Conditions), log, symbol, agg, trade, now, offset, clockSteps)
    BY <1>1, <1>2, <1>3, <1>4, <1>5, EvaluateSound
  <2> QED BY <2>1 DEF now
<1>7. /\ det' \in Detectors /\ log' = log \o sent /\ log' \in Seq(Signals)
      /\ Agree(det'.lastFired, log', now, offset, clockSteps)
      /\ det'.fired = Len(log')
      /\ \A j \in 1..Len(Conditions) : Triggered(Conditions[j], agg, trade) =>
             \/ \E i \in DOMAIN det'.signals : det'.signals[i].type = Conditions[j].type
             \/ Silenced(E(Conditions[j].type), log')
  <2>1. log' = log \o sent
    BY DEF now
  <2> QED BY <1>6, <2>1, Zenon DEF Sound
<1>8. ASSUME NEW w \in withheld' PROVE Silenced(w, log')
  <2>1. CASE w \in withheld
    <3>1. Silenced(w, log)
      BY <2>1 DEF EngineInvariant, SilencedOnlyByCooldown
    <3>2. DOMAIN log \subseteq DOMAIN log' /\ \A i \in DOMAIN log : log'[i] = log[i]
      <4>1. sent \in Seq(Signals)
        <5> DEFINE q == det'.signals
                   n == Len(q)
        <5>1. q \in Seq(Callbacks)
          BY <1>7 DEF Detectors
        <5> HIDE DEF q
        <5>2. n \in Nat /\ DOMAIN q = 1..n /\ \A i \in 1..n : q[i].type \in SignalTypes
          <6>1. n \in Nat /\ DOMAIN q = 1..n /\ \A i \in 1..n : q[i] \in Callbacks
            BY <5>1
          <6> QED BY <6>1 DEF Callbacks
        <5>3. \A type \in SignalTypes : E(type) \in Signals
          BY <1>1 DEF EntryOf, Signals, Keys
        <5> HIDE DEF E, n
        <5>4. sent = [i \in 1..n |-> E(q[i].type)]
          BY <5>2 DEF Sent, q, E
        <5> QED BY <5>2, <5>3, <5>4
      <4> HIDE DEF sent
      <4>2. /\ Len(log \o sent) = Len(log) + Len(sent) /\ log \o sent \in Seq(Signals)
            /\ \A i \in 1..(Len(log) + Len(sent)) :
                  (log \o sent)[i] = IF i <= Len(log) THEN log[i] ELSE sent[i - Len(log)]
        BY <1>2, <4>1, ConcatProperties
      <4>3. /\ Len(log) \in Nat /\ Len(sent) \in Nat /\ DOMAIN log = 1..Len(log)
            /\ DOMAIN (log \o sent) = 1..(Len(log) + Len(sent))
        BY <1>2, <4>1, <4>2
      <4> DEFINE both == log \o sent
      <4> HIDE DEF both
      <4>4. log' = both
        BY <1>7 DEF both
      <4>5. DOMAIN log \subseteq DOMAIN both /\ \A i \in DOMAIN log : both[i] = log[i]
        BY <4>2, <4>3 DEF both
      <4> QED BY <4>4, <4>5
    <3> QED BY <3>1, <3>2, SilencedStays
  <2>2. CASE w \in {E(type) : type \in met} \ Range(sent)
    <3>1. PICK j \in DOMAIN Conditions : /\ Triggered(Conditions[j], agg, trade)
                                         /\ w = E(Conditions[j].type)
      BY <2>2
    <3>2. j \in 1..Len(Conditions)
      BY EngineAssumption
    <3>3. ~(\E i \in DOMAIN det'.signals : det'.signals[i].type = Conditions[j].type)
      <4> SUFFICES ASSUME NEW i \in DOMAIN det'.signals,
                          det'.signals[i].type = Conditions[j].type
                   PROVE  FALSE
        OBVIOUS
      <4>1. i \in DOMAIN sent /\ sent[i] = w
        BY <3>1 DEF Sent
      <4>2. w \in Range(sent)
        BY <4>1, Zenon DEF Range
      <4> QED BY <2>2, <4>2
    <3> QED BY <1>7, <3>1, <3>2, <3>3, Zenon
  <2> QED BY <1>8, <2>1, <2>2 DEF now
<1>9. SilencedOnlyByCooldown'
  BY <1>8 DEF SilencedOnlyByCooldown
<1> QED BY <1>1, <1>7, <1>9 DEF now

\* Time passes, and the symbols' trades stay as they are.
LEMMA StreamsStay ==
    ASSUME TypeOK, StreamsOK, NEW gap \in 0..MaxGap, Arrives(gap), streams' = streams
    PROVE  StreamsOK'
<1>1. /\ StartTime \in Nat /\ elapsed \in Nat /\ elapsed' \in Nat /\ elapsed <= elapsed'
      /\ messages \in Nat /\ messages' = messages + 1
  BY TimeAdvances DEF TypeOK, Arrives
<1> DEFINE Old == [time : StartTime..elapsed, qty : Nat, buy : BOOLEAN]
           New == [time : StartTime..elapsed', qty : Nat, buy : BOOLEAN]
<1>2. Old \subseteq New
  BY <1>1
<1>3. ASSUME NEW s \in Symbols PROVE streams[s] \in Seq(New) /\ Len(streams[s]) <= messages'
  <2>1. streams[s] \in Seq(Old) /\ Len(streams[s]) <= messages
    BY DEF StreamsOK
  <2> HIDE DEF Old, New
  <2> QED BY <1>1, <1>2, <2>1
<1> QED BY <1>3 DEF StreamsOK

\* A symbol has one more trade.
LEMMA StreamsGrow ==
    ASSUME TypeOK, StreamsOK, NEW gap \in 0..MaxGap, Arrives(gap), NEW s \in Symbols,
           NEW t \in Trades,
           streams' = [streams EXCEPT ![s] = Append(@, [time |-> elapsed', qty |-> t.qty, buy |-> t.buy])]
    PROVE  StreamsOK'
<1>1. /\ StartTime \in Nat /\ elapsed \in Nat /\ elapsed' \in Nat /\ elapsed <= elapsed'
      /\ StartTime <= elapsed' /\ messages \in Nat /\ messages' = messages + 1
  BY TimeAdvances DEF TypeOK, Arrives
<1> DEFINE Old == [time : StartTime..elapsed, qty : Nat, buy : BOOLEAN]
           New == [time : StartTime..elapsed', qty : Nat, buy : BOOLEAN]
           trade == [time |-> elapsed', qty |-> t.qty, buy |-> t.buy]
<1>2. Old \subseteq New /\ trade \in New
  <2>1. StartTime..elapsed \subseteq StartTime..elapsed' /\ elapsed' \in StartTime..elapsed'
    BY <1>1
  <2>2. t.qty \in Nat /\ t.buy \in BOOLEAN
    BY EngineAssumption
  <2>3. Old \subseteq New
    BY <2>1
  <2>4. trade \in New
    BY <2>1, <2>2
  <2> QED BY <2>3, <2>4
<1>3. /\ streams \in [Symbols -> Seq(Old)] /\ \A r \in Symbols : Len(streams[r]) <= messages
      /\ streams' = [streams EXCEPT ![s] = Append(@, trade)]
  BY DEF StreamsOK
<1> HIDE DEF Old, New, trade
<1>4. ASSUME NEW r \in Symbols PROVE streams'[r] \in Seq(New) /\ Len(streams'[r]) <= messages'
  <2>1. streams[r] \in Seq(New) /\ Len(streams[r]) <= messages
    BY <1>2, <1>3
  <2>2. CASE r = s
    BY <1>1, <1>2, <1>3, <2>1, <2>2
  <2>3. CASE r # s
    BY <1>1, <1>3, <2>1, <2>3
  <2> QED BY <2>2, <2>3
<1>5. streams' = [r \in Symbols |-> streams'[r]]
  BY <1>3
<1> QED BY <1>4, <1>5 DEF StreamsOK, New

LEMMA DepthStep ==
    ASSUME EngineInvariant, NEW s \in Symbols, NEW gap \in 0..MaxGap, NEW depth,
           ProcessDepth(s, depth, gap)
    PROVE  EngineInvariant'
<1> DEFINE old == StateOf(s)
           new == AfterDepth(old, depth)
           x == [mid |-> TwiceMid(new.book), imbalance |-> Imbalance(new.book)]
           agg == new.agg.snapshot
           trade == new.trades.snapshot
           sent == Sent(det'.signals, s, elapsed', clockSteps)
<1>1. /\ Arrives(gap) /\ states' = Put(states, s, new)
      /\ det' = Evaluate(det, Conditions, s, agg, trade, elapsed' + offset, Word)
      /\ figures' = [figures EXCEPT ![s] = Append(@, x)]
      /\ log' = log \o sent /\ streams' = streams
      /\ withheld' = withheld \cup ({EntryOf(type, s, elapsed', clockSteps) : type \in Met(new)}
                                      \ Range(sent))
  BY Zenon DEF ProcessDepth, Entry, EntryOf, Sent
<1>2. /\ messages' \in 0..MaxMessages
      /\ elapsed' \in StartTime..(StartTime + MaxGap * messages')
      /\ offset' = offset /\ clockSteps' = clockSteps
  BY <1>1, TimeAdvances DEF EngineInvariant
<1>3. SymbolOK(old) /\ SymbolFollows(old.agg, figures[s]) /\ IsSequence(figures[s])
  BY StateOfOK
<1> HIDE DEF old
<1>4. SymbolOK(new) /\ agg.samples # 0 /\ SymbolFollows(new.agg, Append(figures[s], x))
  BY <1>3, AfterDepthOK
<1>5. Met(new) = {Conditions[i].type : i \in {j \in DOMAIN Conditions :
                                                  Triggered(Conditions[j], agg, trade)}}
  BY DEF Met
<1> HIDE DEF new, x
<1>6. /\ det' \in Detectors /\ det'.fired = Len(log')
      /\ log' \in Seq(Signals)
      /\ Agree(det'.lastFired, log', elapsed', offset', clockSteps')
      /\ SilencedOnlyByCooldown'
  <2> HIDE DEF agg, trade
  <2> QED BY <1>1, <1>4, <1>5, DetectorStep
<1>7. /\ DOMAIN states' \subseteq Symbols
      /\ \A r \in DOMAIN states' : SymbolOK(states'[r])
      /\ DOMAIN figures' = Symbols /\ \A r \in Symbols : IsSequence(figures'[r])
      /\ \A r \in Symbols : IF r \in DOMAIN states'
                            THEN SymbolFollows(states'[r].agg, figures'[r])
                            ELSE figures'[r] = <<>>
  <2> DEFINE all == Append(figures[s], x)
  <2>1. IsSequence(all)
    BY <1>3, AppendSequence
  <2> HIDE DEF all
  <2>2. DOMAIN figures = Symbols /\ figures' = [figures EXCEPT ![s] = all]
    BY <1>1 DEF EngineInvariant, TypeOK, all
  <2>3. /\ DOMAIN figures' = DOMAIN figures /\ figures'[s] = all
        /\ \A r \in Symbols : r # s => figures'[r] = figures[r]
    BY <2>2
  <2>4. SymbolFollows(new.agg, all)
    BY <1>4 DEF all
  <2> QED BY <1>1, <1>4, <2>1, <2>3, <2>4, SymbolStep
<1>8. TypeOK'
  <2>1. clockSteps' \in 0..MaxClockSteps
        /\ offset' \in (MaxClockSteps - clockSteps')..(MaxClockSteps + clockSteps')
    BY <1>2 DEF EngineInvariant, TypeOK
  <2>2. /\ det' = [lastFired |-> det'.lastFired, fired |-> Len(log'),
                   suppressed |-> det'.suppressed, signals |-> det'.signals]
        /\ det'.suppressed \in Nat /\ det'.lastFired \in Tables
    BY <1>6 DEF Detectors
  <2>3. DOMAIN det'.lastFired \subseteq Keys
        /\ det'.lastFired \in [DOMAIN det'.lastFired -> 0..(Word - 1)]
    BY <2>2, TableProperties
  <2> QED BY <1>2, <1>6, <1>7, <2>1, <2>2, <2>3, Zenon DEF TypeOK, Signals
<1>9. StreamsOK'
  BY <1>1, StreamsStay DEF EngineInvariant
<1> QED BY <1>6, <1>7, <1>8, <1>9, Zenon DEF EngineInvariant, Agree, CooldownHonoured

LEMMA TradeStep ==
    ASSUME EngineInvariant, NEW s \in Symbols, NEW gap \in 0..MaxGap, NEW t \in Trades,
           ProcessTrade(s, t, gap)
    PROVE  EngineInvariant'
<1> DEFINE old == StateOf(s)
           trade == [time |-> elapsed', qty |-> t.qty, buy |-> t.buy]
           after == UpdateTrades(old.trades, trade, Window, VolumeWindows)
           new == [old EXCEPT !.trades = after]
<1>1. /\ Arrives(gap) /\ states' = Put(states, s, new)
      /\ det' = det /\ figures' = figures /\ log' = log /\ withheld' = withheld
      /\ streams' = [streams EXCEPT ![s] = Append(@, trade)]
  BY DEF ProcessTrade
<1>2. /\ messages' \in 0..MaxMessages
      /\ elapsed' \in StartTime..(StartTime + MaxGap * messages')
      /\ StartTime \in Nat /\ elapsed \in Nat /\ elapsed' \in Nat /\ elapsed <= elapsed'
      /\ offset' = offset /\ clockSteps' = clockSteps
  BY <1>1, TimeAdvances DEF EngineInvariant
<1>3. SymbolOK(old) /\ SymbolFollows(old.agg, figures[s]) /\ IsSequence(figures[s])
  BY StateOfOK
<1> HIDE DEF old, trade
<1>4. /\ DOMAIN after = {"trades", "completed", "start", "current", "snapshot"}
      /\ IsSequence(after.completed) /\ Len(after.completed) <= VolumeWindows
  BY <1>3, TradesStayOK DEF SymbolOK
<1> HIDE DEF after
<1>5. DOMAIN new = {"book", "agg", "trades"} /\ new.agg = old.agg /\ new.trades = after
  BY <1>3 DEF SymbolOK
<1> HIDE DEF new
<1>6. SymbolOK(new) /\ SymbolFollows(new.agg, figures[s])
  BY <1>3, <1>4, <1>5 DEF SymbolOK
<1>7. /\ DOMAIN states' \subseteq Symbols
      /\ \A r \in DOMAIN states' : SymbolOK(states'[r])
      /\ DOMAIN figures' = Symbols /\ \A r \in Symbols : IsSequence(figures'[r])
      /\ \A r \in Symbols : IF r \in DOMAIN states'
                            THEN SymbolFollows(states'[r].agg, figures'[r])
                            ELSE figures'[r] = <<>>
  <2> DEFINE all == figures[s]
  <2>1. /\ DOMAIN figures' = DOMAIN figures /\ figures'[s] = all
        /\ \A r \in Symbols : r # s => figures'[r] = figures[r]
    BY <1>1
  <2> HIDE DEF all
  <2>2. IsSequence(all) /\ SymbolFollows(new.agg, all)
    BY <1>3, <1>6 DEF all
  <2> QED BY <1>1, <1>6, <2>1, <2>2, SymbolStep
<1>8. TypeOK'
  <2>1. /\ clockSteps \in 0..MaxClockSteps
        /\ offset \in (MaxClockSteps - clockSteps)..(MaxClockSteps + clockSteps)
        /\ det = [lastFired |-> det.lastFired, fired |-> Len(log), suppressed |-> det.suppressed,
                  signals |-> det.signals]
        /\ det.suppressed \in Nat /\ DOMAIN det.lastFired \subseteq Keys
        /\ det.lastFired \in [DOMAIN det.lastFired -> 0..(Word - 1)]
        /\ log \in Seq([key : Keys, at : Nat, steps : Nat])
    BY DEF EngineInvariant, TypeOK
  <2> QED BY <1>1, <1>2, <1>7, <2>1, Zenon DEF TypeOK
<1>9. LogOrdered(log, elapsed', clockSteps)
  <2>1. LogOrdered(log, elapsed, clockSteps)
    BY DEF EngineInvariant
  <2>2. \A a \in StartTime..elapsed : a \in StartTime..elapsed'
    BY <1>2
  <2> QED BY <2>1, <2>2, Zenon DEF LogOrdered
<1>10. /\ FollowsLog(det.lastFired, log, offset, clockSteps)
       /\ CooldownHonoured /\ SilencedOnlyByCooldown
  BY DEF EngineInvariant
<1>11. CooldownHonoured' /\ SilencedOnlyByCooldown'
  BY <1>1, <1>10 DEF CooldownHonoured, SilencedOnlyByCooldown
<1>12. StreamsOK'
  BY <1>1, StreamsGrow DEF EngineInvariant, trade
<1> QED BY <1>1, <1>2, <1>7, <1>8, <1>9, <1>10, <1>11, <1>12, Zenon DEF EngineInvariant

\* After the clock is set, no signal is of the new setting yet.
LEMMA ClockStep == ASSUME EngineInvariant, SetClock PROVE EngineInvariant'
<1>1. /\ clockSteps \in 0..MaxClockSteps /\ clockSteps < MaxClockSteps /\ MaxClockSteps \in Nat
      /\ clockSteps' = clockSteps + 1 /\ offset' \in {offset - 1, offset + 1}
      /\ offset \in (MaxClockSteps - clockSteps)..(MaxClockSteps + clockSteps)
      /\ UNCHANGED <<states, det, elapsed, messages, figures, streams, log, withheld>>
  BY EngineAssumption DEF SetClock, EngineInvariant, TypeOK
<1>2. clockSteps' \in 0..MaxClockSteps /\ clockSteps' \in Nat /\ clockSteps \in Nat
      /\ offset' \in (MaxClockSteps - clockSteps')..(MaxClockSteps + clockSteps')
  BY <1>1
<1>3. TypeOK'
  <2>1. /\ messages \in 0..MaxMessages
        /\ elapsed \in StartTime..(StartTime + MaxGap * messages)
        /\ DOMAIN states \subseteq Symbols
        /\ \A s \in DOMAIN states : SymbolOK(states[s])
        /\ det = [lastFired |-> det.lastFired, fired |-> Len(log), suppressed |-> det.suppressed,
                  signals |-> det.signals]
        /\ det.suppressed \in Nat /\ DOMAIN det.lastFired \subseteq Keys
        /\ det.lastFired \in [DOMAIN det.lastFired -> 0..(Word - 1)]
        /\ log \in Seq([key : Keys, at : Nat, steps : Nat])
        /\ DOMAIN figures = Symbols /\ \A s \in Symbols : IsSequence(figures[s])
    BY DEF EngineInvariant, TypeOK
  <2> QED BY <1>1, <1>2, <2>1, Zenon DEF TypeOK
<1>4. LogOrdered(log, elapsed, clockSteps')
  <2>1. LogOrdered(log, elapsed, clockSteps)
    BY DEF EngineInvariant
  <2>2. \A a \in 0..clockSteps : a \in 0..clockSteps'
    BY <1>1, <1>2
  <2> QED BY <2>1, <2>2, Zenon DEF LogOrdered
<1>5. FollowsLog(det.lastFired, log, offset', clockSteps')
  <2>1. /\ FollowsLog(det.lastFired, log, offset, clockSteps)
        /\ \A i \in DOMAIN log : log[i].steps \in 0..clockSteps
    BY DEF EngineInvariant, LogOrdered
  <2>2. \A i \in DOMAIN log : log[i].steps # clockSteps'
    BY <1>1, <1>2, <2>1
  <2> QED BY <2>1, <2>2, Zenon DEF FollowsLog
<1>6. /\ \A s \in Symbols : IF s \in DOMAIN states THEN SymbolFollows(states[s].agg, figures[s])
                            ELSE figures[s] = <<>>
      /\ CooldownHonoured /\ SilencedOnlyByCooldown
  BY DEF EngineInvariant
<1>7. CooldownHonoured' /\ SilencedOnlyByCooldown'
  BY <1>1, <1>6 DEF CooldownHonoured, SilencedOnlyByCooldown
<1>8. StreamsOK'
  BY <1>1 DEF EngineInvariant, StreamsOK
<1> QED BY <1>1, <1>3, <1>4, <1>5, <1>6, <1>7, <1>8, Zenon DEF EngineInvariant

LEMMA EngineStarts == Init => EngineInvariant
<1> SUFFICES ASSUME Init PROVE EngineInvariant
  OBVIOUS
<1> DEFINE none == <<>>
<1>1. DOMAIN none = {} /\ none \in [{} -> 0..(Word - 1)] /\ IsSequence(none) /\ Len(none) = 0
      /\ none \in Seq([key : Keys, at : Nat, steps : Nat])
  BY DEF IsSequence
<1>2. /\ states = none /\ log = none /\ withheld = {} /\ clockSteps = 0 /\ messages = 0
      /\ elapsed = StartTime /\ offset = MaxClockSteps
      /\ figures = [s \in Symbols |-> none]
      /\ det = [lastFired |-> none, fired |-> 0, suppressed |-> 0, signals |-> none]
  BY DEF Init, EmptyDetector
<1> HIDE DEF none
<1>3. TypeOK
  <2>1. /\ 0 \in 0..MaxMessages /\ 0 \in 0..MaxClockSteps
        /\ MaxClockSteps \in (MaxClockSteps - 0)..(MaxClockSteps + 0)
        /\ StartTime \in StartTime..(StartTime + MaxGap * 0)
    BY EngineAssumption DEF StartTime
  <2>2. det.lastFired = none /\ det.suppressed \in Nat
    BY <1>2
  <2>3. DOMAIN figures = Symbols /\ \A s \in Symbols : IsSequence(figures[s])
    BY <1>1, <1>2
  <2>4. det = [lastFired |-> det.lastFired, fired |-> Len(log), suppressed |-> det.suppressed,
               signals |-> det.signals]
    BY <1>1, <1>2
  <2>5. DOMAIN det.lastFired = {} /\ DOMAIN states = {}
    BY <1>1, <1>2, <2>2
  <2> QED BY <1>1, <1>2, <2>1, <2>2, <2>3, <2>4, <2>5 DEF TypeOK
<1>4. LogOrdered(log, elapsed, clockSteps) /\ FollowsLog(det.lastFired, log, offset, clockSteps)
  BY <1>1, <1>2 DEF LogOrdered, FollowsLog
<1>5. CooldownHonoured /\ SilencedOnlyByCooldown
  BY <1>1, <1>2 DEF CooldownHonoured, Honoured, SilencedOnlyByCooldown
<1>6. ASSUME NEW s \in Symbols
      PROVE  IF s \in DOMAIN states THEN SymbolFollows(states[s].agg, figures[s])
             ELSE figures[s] = <<>>
  BY <1>1, <1>2 DEF none
<1>7. StreamsOK
  <2>1. streams = [s \in Symbols |-> none] /\ messages = 0
    BY <1>2 DEF Init, none
  <2>2. none \in Seq([time : StartTime..elapsed, qty : Nat, buy : BOOLEAN])
    BY DEF none
  <2> QED BY <1>1, <2>1, <2>2 DEF StreamsOK
<1> QED BY <1>3, <1>4, <1>5, <1>6, <1>7 DEF EngineInvariant

\* The deques of every symbol stay within their limits, the aggregators follow
\* their symbol's history, and the cooldown table of signal_detector.cpp follows
\* the signals fired, with any number of symbols, conditions and messages.
THEOREM EngineInvariantHolds == Spec => []EngineInvariant
<1>1. EngineInvariant /\ [Next]_vars => EngineInvariant'
  <2> SUFFICES ASSUME EngineInvariant, [Next]_vars PROVE EngineInvariant'
    OBVIOUS
  <2>1. CASE UNCHANGED vars
    BY <2>1 DEF vars, EngineInvariant, TypeOK, CooldownHonoured, SilencedOnlyByCooldown, StreamsOK
  <2>2. CASE Next
    <3>1. ASSUME NEW s \in Symbols, NEW gap \in 0..MaxGap, NEW depth \in Depths,
                 ProcessDepth(s, depth, gap)
          PROVE  EngineInvariant'
      BY <3>1, DepthStep
    <3>2. ASSUME NEW s \in Symbols, NEW gap \in 0..MaxGap, NEW t \in Trades,
                 ProcessTrade(s, t, gap)
          PROVE  EngineInvariant'
      BY <3>2, TradeStep
    <3>3. CASE SetClock
      BY <3>3, ClockStep
    <3> QED BY <2>2, <3>1, <3>2, <3>3, Zenon DEF Next
  <2> QED BY <2>1, <2>2
<1> QED BY <1>1, EngineStarts, PTL DEF Spec

\* The cooldown check of evaluate: while nobody sets the clock, a type and symbol
\* that fired does not fire again before its cooldown is over.
THEOREM CooldownHolds == Spec => []CooldownHonoured
<1>1. EngineInvariant => CooldownHonoured
  BY DEF EngineInvariant
<1> QED BY <1>1, EngineInvariantHolds, PTL

\* evaluate withholds a condition that is met only for a signal of its own type
\* and symbol, less than the cooldown ago unless the clock was set.
THEOREM SilencedHolds == Spec => []SilencedOnlyByCooldown
<1>1. EngineInvariant => SilencedOnlyByCooldown
  BY DEF EngineInvariant
<1> QED BY <1>1, EngineInvariantHolds, PTL

\* Aggregator::update keeps the moving average and the pressure of the symbol's own
\* history, whatever comes in between for other symbols.
THEOREM StatisticsHold == Spec => []StatisticsFollowHistory
<1>1. EngineInvariant => StatisticsFollowHistory
  <2> SUFFICES ASSUME EngineInvariant, NEW s \in DOMAIN states
               PROVE  LET all == figures[s]
                          recent == LastN(MidsOf(all), SmaWindow)
                          snapshot == states[s].agg.snapshot
                      IN /\ recent # <<>> => snapshot.midSma = Mean(recent)
                         /\ Len(all) > 1 => snapshot.delta = Minus(all[Len(all)].imbalance,
                                                                   all[Len(all) - 1].imbalance)
    BY Zenon DEF StatisticsFollowHistory
  <2>1. s \in Symbols
    BY DEF EngineInvariant, TypeOK
  <2>2. SymbolFollows(states[s].agg, figures[s])
    BY <2>1 DEF EngineInvariant
  <2> QED BY <2>2, Zenon DEF SymbolFollows
<1> QED BY <1>1, EngineInvariantHolds, PTL

--------------------------------------------------------------------------------
(* Every symbol's trade aggregator implements TradeWindow.                 *)

\* The instance's update is the engine's.
LEMMA SameUpdate ==
    ASSUME NEW s \in Symbols, NEW a, NEW t, NEW w, NEW n
    PROVE  Stream(s)!UpdateTrades(a, t, w, n) = UpdateTrades(a, t, w, n)
<1>1. \A q : Stream(s)!Accumulate(q) = Accumulate(q)
  BY DEF Stream!Accumulate, Accumulate
<1>2. \A q, p : Stream(s)!Volume(q, p) = Volume(q, p)
  BY <1>1 DEF Stream!Volume, Volume
<1>3. \A q : Stream(s)!Mean(q) = Mean(q)
  BY <1>1 DEF Stream!Mean, Mean
<1>4. \A q : Stream(s)!Buys(q) = Buys(q) /\ Stream(s)!Sells(q) = Sells(q)
  BY DEF Stream!Buys, Buys, Stream!Sells, Sells
<1>5. \A x : Stream(s)!Recompute(x) = Recompute(x)
  BY <1>2, <1>3, <1>4 DEF Stream!Recompute, Recompute
<1>6. \A x, now : Stream(s)!Archive(x, now, w, n) = Archive(x, now, w, n)
  BY DEF Stream!Archive, Archive, Stream!Roll, Roll
<1>7. \A q, c : Stream(s)!ExpireOld(q, c) = ExpireOld(q, c)
  BY DEF Stream!ExpireOld, ExpireOld
<1>8. \A now : Stream(s)!Cutoff(now, w) = Cutoff(now, w)
  BY DEF Stream!Cutoff, Cutoff
<1> QED BY <1>5, <1>6, <1>7, <1>8 DEF Stream!UpdateTrades, UpdateTrades

\* The constants of every instance are ones that TradeWindow is proved for.
LEMMA StreamConstants == ASSUME NEW s \in Symbols PROVE Stream(s)!TradeWindowAssumption
<1>1. MaxGap * MaxMessages \in Nat
  BY EngineAssumption
<1>2. StartTime \in Nat \ {0}
  BY EngineAssumption DEF StartTime
<1> DEFINE b == MaxGap * MaxMessages
<1> HIDE DEF b
<1>3. StartTime..(StartTime + b) \subseteq Nat \ {0}
  BY <1>2
<1> QED BY <1>1, <1>3, EngineAssumption DEF b, Stream!TradeWindowAssumption

\* A symbol that the step is not about.
LEMMA OtherSymbol ==
    ASSUME NEW s \in Symbols, NEW r \in Symbols, r # s, NEW new, states' = Put(states, s, new)
    PROVE  StateOf(r)' = StateOf(r)
<1>1. /\ DOMAIN states' = DOMAIN states \cup {s}
      /\ \A x \in DOMAIN states : x # s => states'[x] = states[x]
  BY DEF Put
<1> QED BY <1>1 DEF StateOf, NewSymbol

LEMMA DepthLeavesTrades ==
    ASSUME EngineInvariant, NEW s \in Symbols, NEW gap \in 0..MaxGap, NEW depth,
           ProcessDepth(s, depth, gap), NEW r \in Symbols
    PROVE  UNCHANGED Stream(r)!vars
<1> DEFINE old == StateOf(s)
           new == AfterDepth(old, depth)
<1>1. states' = Put(states, s, new) /\ streams' = streams
  BY Zenon DEF ProcessDepth
<1>2. new.trades = old.trades
  <2>1. SymbolOK(old)
    BY StateOfOK
  <2> HIDE DEF old
  <2> QED BY <2>1 DEF AfterDepth, SymbolOK
<1>3. StateOf(r).trades' = StateOf(r).trades
  <2>1. CASE r = s
    <3>1. s \in DOMAIN states' /\ states'[s] = new
      BY <1>1 DEF Put
    <3>2. StateOf(s)' = new
      BY <3>1 DEF StateOf
    <3> HIDE DEF new
    <3> QED BY <1>2, <2>1, <3>2
  <2>2. CASE r # s
    <3>1. StateOf(r)' = StateOf(r)
      BY <1>1, <2>2, OtherSymbol
    <3> QED BY <3>1
  <2> QED BY <2>1, <2>2
<1> QED BY <1>1, <1>3 DEF Stream!vars

LEMMA TradeFeedsStream ==
    ASSUME EngineInvariant, NEW s \in Symbols, NEW gap \in 0..MaxGap, NEW t \in Trades,
           ProcessTrade(s, t, gap), NEW r \in Symbols
    PROVE  [Stream(r)!Next]_(Stream(r)!vars)
<1> DEFINE old == StateOf(s)
           trade == [time |-> elapsed', qty |-> t.qty, buy |-> t.buy]
           after == UpdateTrades(old.trades, trade, Window, VolumeWindows)
           new == [old EXCEPT !.trades = after]
<1>1. /\ Arrives(gap) /\ states' = Put(states, s, new)
      /\ streams' = [streams EXCEPT ![s] = Append(@, trade)]
  BY DEF ProcessTrade
<1>2. StreamsOK /\ SymbolOK(old)
  BY StateOfOK DEF EngineInvariant
<1>3. CASE r # s
  <2>1. StateOf(r)' = StateOf(r)
    BY <1>1, <1>3, OtherSymbol
  <2>2. streams'[r] = streams[r]
    BY <1>1, <1>2, <1>3 DEF StreamsOK
  <2> QED BY <2>1, <2>2 DEF Stream!vars
<1>4. CASE r = s
  <2>1. StateOf(s)'.trades = after
    <3>1. s \in DOMAIN states' /\ states'[s] = new
      BY <1>1 DEF Put
    <3>2. StateOf(s)' = new
      BY <3>1 DEF StateOf
    <3> HIDE DEF old, after
    <3>3. new.trades = after
      BY <1>2 DEF SymbolOK
    <3> HIDE DEF new
    <3> QED BY <3>2, <3>3
  <2> DEFINE Old == [time : StartTime..elapsed, qty : Nat, buy : BOOLEAN]
  <2>2. streams'[s] = Append(streams[s], trade) /\ Len(streams[s]) < MaxMessages
        /\ streams[s] \in Seq(Old)
    <3>1. streams \in [Symbols -> Seq(Old)] /\ Len(streams[s]) <= messages
      BY <1>2 DEF StreamsOK
    <3>2. messages < MaxMessages
      BY <1>1 DEF Arrives
    <3>3. messages \in Nat /\ MaxMessages \in Nat
      BY EngineAssumption DEF EngineInvariant, TypeOK
    <3> HIDE DEF trade, Old
    <3>4. streams[s] \in Seq(Old) /\ streams'[s] = Append(streams[s], trade)
      BY <1>1, <3>1
    <3>5. Len(streams[s]) \in Nat
      BY <3>4
    <3> QED BY <3>1, <3>2, <3>3, <3>4, <3>5
  <2>3. elapsed' \in Stream(s)!Times
    <3> DEFINE a == MaxGap * messages'
               b == MaxGap * MaxMessages
    <3>1. /\ StartTime \in Nat /\ elapsed \in Nat /\ elapsed' \in Nat /\ elapsed <= elapsed'
          /\ elapsed' \in StartTime..(StartTime + a) /\ messages' \in 0..MaxMessages
      BY <1>1, TimeAdvances DEF EngineInvariant
    <3>2. a \in Nat /\ b \in Nat /\ a <= b
      <4>1. MaxGap \in Nat /\ MaxMessages \in Nat
        BY EngineAssumption
      <4>2. messages' \in Nat /\ messages' <= MaxMessages
        BY <3>1, <4>1
      <4>3. MaxMessages <= MaxMessages
        BY <4>1
      <4>4. \A x, y, z \in Nat : y <= z => x * y \in Nat /\ x * y <= x * z
        BY ProductGrows, Zenon
      <4> QED BY <4>1, <4>2, <4>3, <4>4, Zenon
    <3>3. elapsed' \in StartTime..(StartTime + b)
      <4> HIDE DEF a, b
      <4> QED BY <3>1, <3>2
    <3>4. CASE streams[s] = <<>>
      BY <3>3, <3>4 DEF Stream!Times
    <3>5. CASE streams[s] # <<>>
      <4> DEFINE last == streams[s][Len(streams[s])].time
      <4>1. last \in StartTime..elapsed
        <5>1. \A e \in Old : e.time \in StartTime..elapsed
          OBVIOUS
        <5> HIDE DEF Old
        <5>2. streams[s][Len(streams[s])] \in Old
          BY <2>2, <3>5
        <5> QED BY <5>1, <5>2
      <4>2. elapsed' \in last..(last + b)
        <5> HIDE DEF last, a, b
        <5> QED BY <3>1, <3>2, <3>3, <4>1
      <4> QED BY <3>5, <4>2 DEF Stream!Times
    <3> QED BY <3>4, <3>5
  <2>4. Stream(s)!Update(trade)
    <3>1. Stream(s)!UpdateTrades(old.trades, trade, Window, VolumeWindows) = after
      BY SameUpdate
    <3>2. 0 + Len(streams[s]) < MaxMessages
      BY <2>2
    <3> QED BY <2>1, <2>2, <3>1, <3>2 DEF Stream!Update
  <2>5. t.qty \in {x.qty : x \in Trades} /\ t.buy \in BOOLEAN
    BY EngineAssumption
  <2>6. Stream(s)!Next
    BY <2>3, <2>4, <2>5 DEF Stream!Next
  <2> QED BY <1>4, <2>6
<1> QED BY <1>3, <1>4

\* get_or_create_state and process_trade keep one TradeAggregator per symbol and
\* feed it that symbol's trades only, so what is proved of TradeWindow holds of
\* each, for any number of symbols, conditions and messages.
THEOREM TradesImplement == Spec => TradesImplementWindow
<1>1. Init => \A s \in Symbols : Stream(s)!Init
  <2> SUFFICES ASSUME Init, NEW s \in Symbols PROVE Stream(s)!Init
    OBVIOUS
  <2>1. StateOf(s) = NewSymbol /\ streams[s] = <<>>
    BY DEF Init, StateOf
  <2> QED BY <2>1 DEF Stream!Init, NewSymbol, EmptyTrades, EmptyTradeSnapshot,
                      Stream!EmptyTrades, Stream!EmptyTradeSnapshot
<1>2. EngineInvariant /\ [Next]_vars
         => [\A s \in Symbols : [Stream(s)!Next]_(Stream(s)!vars)]_vars
  <2> SUFFICES ASSUME EngineInvariant, Next, NEW r \in Symbols
               PROVE  [Stream(r)!Next]_(Stream(r)!vars)
    OBVIOUS
  <2>1. ASSUME NEW s \in Symbols, NEW gap \in 0..MaxGap, NEW depth \in Depths,
               ProcessDepth(s, depth, gap)
        PROVE  [Stream(r)!Next]_(Stream(r)!vars)
    BY <2>1, DepthLeavesTrades
  <2>2. ASSUME NEW s \in Symbols, NEW gap \in 0..MaxGap, NEW t \in Trades,
               ProcessTrade(s, t, gap)
        PROVE  [Stream(r)!Next]_(Stream(r)!vars)
    BY <2>2, TradeFeedsStream
  <2>3. CASE SetClock
    BY <2>3 DEF SetClock, StateOf, Stream!vars
  <2> QED BY <2>1, <2>2, <2>3, Zenon DEF Next
<1> QED BY <1>1, <1>2, EngineInvariantHolds, PTL DEF Spec, TradesImplementWindow
================================================================================
