---------------------------- MODULE SPSCQueue_proofs ----------------------------
(***************************************************************************)
(* Proofs, for every Capacity, set of items and number of pushes, that the *)
(* ring of SPSCQueue keeps RingInvariant and therefore has no data race on *)
(* a slot and implements BoundedFIFO.                                      *)
(***************************************************************************)
EXTENDS SPSCQueue, SequenceTheorems, TLAPS

--------------------------------------------------------------------------------
(* Arithmetic modulo Capacity, which the provers do not know for a         *)
(* symbolic divisor.                                                       *)

\* Quotient and remainder of a count by Capacity.
LEMMA DivMod ==
    ASSUME NEW n \in Nat
    PROVE  /\ n \div Capacity \in Nat
           /\ (n % Capacity) \in Slots
           /\ n = (Capacity * (n \div Capacity)) + (n % Capacity)
  BY CapacityPositive, SMT DEF Slots

\* Multiples of Capacity are at least Capacity apart.
LEMMA MultiplesApart ==
    ASSUME NEW p \in Int, NEW q \in Int, p < q
    PROVE  Capacity * p + Capacity <= Capacity * q
<1>1. Capacity * (q - p) >= Capacity
  BY CapacityPositive, SMT
<1>2. Capacity * (q - p) = Capacity * q - Capacity * p
  BY CapacityPositive, SMT
<1> QED BY <1>1, <1>2, CapacityPositive, SMT

\* A count has one remainder: a decomposition into a multiple of Capacity and a
\* slot determines the slot.
LEMMA RemainderIs ==
    ASSUME NEW q \in Int, NEW r \in Slots, Capacity * q + r \in Nat
    PROVE  (Capacity * q + r) % Capacity = r
<1> DEFINE n == Capacity * q + r
           p == n \div Capacity
           s == n % Capacity
<1>1. p \in Nat /\ s \in Slots /\ n = Capacity * p + s
  BY DivMod
<1> HIDE DEF n, p, s
<1>2. Capacity * q + r = Capacity * p + s
  BY <1>1 DEF n
<1>3. Capacity * p \in Int /\ Capacity * q \in Int
  BY <1>1, CapacityPositive, SMT
<1>4. ~(p < q)
  BY <1>1, <1>2, <1>3, MultiplesApart, CapacityPositive, SMT DEF Slots
<1>5. ~(q < p)
  BY <1>1, <1>2, <1>3, MultiplesApart, CapacityPositive, SMT DEF Slots
<1>6. p = q
  BY <1>1, <1>4, <1>5, SMT
<1>7. s = r
  BY <1>1, <1>2, <1>3, <1>6, CapacityPositive, SMT DEF Slots
<1> QED BY <1>7 DEF n, s

\* An index of the ring is a slot.
LEMMA IndexInSlots == ASSUME NEW n \in Nat PROVE IndexAt(n) \in Slots
  BY DivMod DEF IndexAt

\* Advance moves from the index of the n-th store to that of the next.
LEMMA AdvanceIndex == ASSUME NEW n \in Nat PROVE Advance(IndexAt(n)) = IndexAt(n + 1)
<1> DEFINE q == n \div Capacity
           r == n % Capacity
<1>1. q \in Nat /\ r \in Slots /\ n = Capacity * q + r
  BY DivMod
<1> HIDE DEF q, r
<1>2. CASE r + 1 < Capacity
  <2>1. r + 1 \in Slots
    BY <1>1, <1>2, CapacityPositive DEF Slots
  <2>2. Capacity * q + (r + 1) = n + 1 /\ Capacity * 0 + (r + 1) = r + 1
    BY <1>1, CapacityPositive, SMT DEF Slots
  <2>3. (n + 1) % Capacity = r + 1 /\ (r + 1) % Capacity = r + 1
    BY <2>1, <2>2, RemainderIs, <1>1 DEF Slots
  <2> QED BY <2>3 DEF r, Advance, IndexAt
<1>3. CASE r + 1 = Capacity
  <2>1. 0 \in Slots
    BY CapacityPositive DEF Slots
  <2>2. Capacity * (q + 1) + 0 = n + 1 /\ Capacity * 1 + 0 = r + 1
    BY <1>1, <1>3, CapacityPositive, SMT DEF Slots
  <2>3. (n + 1) % Capacity = 0 /\ (r + 1) % Capacity = 0
    BY <2>1, <2>2, RemainderIs, <1>1 DEF Slots
  <2> QED BY <2>3 DEF r, Advance, IndexAt
<1> QED BY <1>1, <1>2, <1>3, CapacityPositive DEF Slots

\* Counts less than Capacity apart have different indices ...
LEMMA IndexInjective ==
    ASSUME NEW a \in Nat, NEW b \in Nat, a < b, b - a < Capacity
    PROVE  IndexAt(a) # IndexAt(b)
<1>1. SUFFICES ASSUME a % Capacity = b % Capacity PROVE FALSE
  BY DEF IndexAt
<1> DEFINE p == a \div Capacity
           q == b \div Capacity
           r == a % Capacity
<1>2. p \in Nat /\ q \in Nat /\ r \in Slots
  BY DivMod
<1>3. a = Capacity * p + r /\ b = Capacity * q + r
  BY <1>1, DivMod
<1> HIDE DEF p, q, r
<1>4. Capacity * p \in Int /\ Capacity * q \in Int
  BY <1>2, CapacityPositive, SMT
<1>5. ~(p < q) /\ ~(q < p)
  BY <1>2, <1>3, <1>4, MultiplesApart, CapacityPositive DEF Slots
<1> QED BY <1>2, <1>3, <1>4, <1>5, CapacityPositive DEF Slots

\* ... and counts exactly Capacity apart have the same one.
LEMMA IndexWraps == ASSUME NEW a \in Nat PROVE IndexAt(a + Capacity) = IndexAt(a)
<1> DEFINE q == a \div Capacity
           r == a % Capacity
<1>1. q \in Nat /\ r \in Slots /\ a = Capacity * q + r
  BY DivMod
<1> HIDE DEF q, r
<1>2. Capacity * (q + 1) + r = a + Capacity
  BY <1>1, CapacityPositive, SMT DEF Slots
<1>3. (a + Capacity) % Capacity = r
  BY <1>1, <1>2, RemainderIs, CapacityPositive DEF Slots
<1> QED BY <1>3 DEF r, IndexAt

--------------------------------------------------------------------------------
(* The inductive invariant.                                                *)

\* What the invariant says of the current indices and of the counts.
LEMMA Current ==
    ASSUME RingInvariant
    PROVE  /\ Len(pushed) \in Nat /\ Len(popped) \in Nat
           /\ Len(popped) <= Len(pushed)
           /\ Len(pushed) - Len(popped) <= Capacity - 1
           /\ head = IndexAt(Len(popped)) /\ head \in Slots
           /\ tail = IndexAt(Len(pushed)) /\ tail \in Slots
<1>1. Len(pushed) \in Nat /\ Len(popped) \in Nat
  BY DEF RingInvariant, TypeOK
<1>2. Len(popped) <= Len(pushed) /\ Len(pushed) - Len(popped) <= Capacity - 1
  BY <1>1, CapacityPositive DEF RingInvariant, TypeOK, ViewsBound
<1>3. head = IndexAt(Len(popped)) /\ tail = IndexAt(Len(pushed))
  BY <1>1 DEF RingInvariant, TypeOK, LogsCount, head, tail
<1> QED BY <1>1, <1>2, <1>3, IndexInSlots

\* Of the head_ values the producer may load, only the one that is capacity()
\* pops behind its own pushes equals next_tail.
LEMMA FullTest ==
    ASSUME RingInvariant, NEW n \in headView..Len(headLog)
    PROVE  /\ n \in Nat \ {0}
           /\ Len(pushed) - (n - 1) <= Capacity - 1
           /\ LooksFull(n) <=> Len(pushed) - (n - 1) = Capacity - 1
<1>1. /\ Len(pushed) \in Nat /\ Len(popped) \in Nat /\ Len(popped) <= Len(pushed)
      /\ tail = IndexAt(Len(pushed))
  BY Current
<1>2. n \in 1..Len(headLog) /\ n \in Nat \ {0} /\ n - 1 \in Nat /\ n - 1 <= Len(popped)
  BY <1>1 DEF RingInvariant, TypeOK
<1>3. Len(pushed) - (n - 1) <= Capacity - 1
  BY <1>1, <1>2, CapacityPositive DEF RingInvariant, TypeOK, ViewsBound
<1>4. headLog[n] = IndexAt(n - 1)
  BY <1>2 DEF RingInvariant, LogsCount
<1>5. Advance(tail) = IndexAt(Len(pushed) + 1)
  BY <1>1, AdvanceIndex
<1>6. CASE Len(pushed) - (n - 1) = Capacity - 1
  <2>1. Len(pushed) + 1 = (n - 1) + Capacity
    BY <1>1, <1>2, <1>6, CapacityPositive
  <2>2. IndexAt((n - 1) + Capacity) = IndexAt(n - 1)
    BY <1>2, IndexWraps
  <2> QED BY <1>2, <1>3, <1>4, <1>5, <1>6, <2>1, <2>2 DEF LooksFull
<1>7. CASE Len(pushed) - (n - 1) < Capacity - 1
  <2>1. IndexAt(n - 1) # IndexAt(Len(pushed) + 1)
    BY <1>1, <1>2, <1>7, IndexInjective, CapacityPositive
  <2>2. Len(pushed) - (n - 1) # Capacity - 1
    BY <1>1, <1>2, <1>7, CapacityPositive
  <2> QED BY <1>2, <1>3, <1>4, <1>5, <2>1, <2>2 DEF LooksFull
<1> QED BY <1>1, <1>2, <1>3, <1>6, <1>7, CapacityPositive

\* Of the tail_ values the consumer may load, only the one that counts its own
\* pops equals head.
LEMMA EmptyTest ==
    ASSUME RingInvariant, NEW n \in tailView..Len(tailLog)
    PROVE  /\ n \in Nat \ {0}
           /\ Len(popped) <= n - 1
           /\ LooksEmpty(n) <=> n - 1 = Len(popped)
<1>1. /\ Len(pushed) \in Nat /\ Len(popped) \in Nat /\ Len(popped) <= Len(pushed)
      /\ Len(pushed) - Len(popped) <= Capacity - 1
      /\ head = IndexAt(Len(popped))
  BY Current
<1>2. /\ n \in 1..Len(tailLog) /\ n \in Nat \ {0} /\ n - 1 \in Nat
      /\ n - 1 <= Len(pushed) /\ Len(popped) <= n - 1
  BY <1>1 DEF RingInvariant, TypeOK, ViewsBound
<1>3. tailLog[n] = IndexAt(n - 1)
  BY <1>2 DEF RingInvariant, LogsCount
<1>4. CASE n - 1 = Len(popped)
  BY <1>1, <1>2, <1>3, <1>4 DEF LooksEmpty
<1>5. CASE Len(popped) < n - 1
  <2>1. IndexAt(Len(popped)) # IndexAt(n - 1)
    BY <1>1, <1>2, <1>5, IndexInjective, CapacityPositive
  <2> QED BY <1>1, <1>2, <1>3, <1>5, <2>1 DEF LooksEmpty
<1> QED BY <1>1, <1>2, <1>4, <1>5

\* The empty ring of the constructor satisfies the invariant.
LEMMA RingInit == Init => RingInvariant
<1> SUFFICES ASSUME Init PROVE RingInvariant
  OBVIOUS
<1>1. 0 \in Slots /\ IndexAt(0) = 0
  <2>1. 0 \in Slots
    BY CapacityPositive DEF Slots
  <2>2. Capacity * 0 + 0 = 0
    BY CapacityPositive
  <2> QED BY <2>1, <2>2, RemainderIs DEF IndexAt
<1>2. TypeOK
  BY <1>1 DEF Init, TypeOK
<1>3. LogsCount
  BY <1>1 DEF Init, LogsCount
<1>4. ViewsBound /\ SlotsHoldItems /\ PoppedInOrder
  BY CapacityPositive DEF Init, ViewsBound, SlotsHoldItems, PoppedInOrder
<1> QED BY <1>2, <1>3, <1>4 DEF RingInvariant

\* Every shared-memory access of either thread keeps the invariant.
LEMMA RingStep == RingInvariant /\ [Next]_vars => RingInvariant'
<1> SUFFICES ASSUME RingInvariant, [Next]_vars PROVE RingInvariant'
  OBVIOUS
<1> USE CapacityPositive
<1>0. /\ TypeOK /\ LogsCount /\ ViewsBound /\ SlotsHoldItems /\ PoppedInOrder
      /\ Len(pushed) \in Nat /\ Len(popped) \in Nat /\ Len(popped) <= Len(pushed)
      /\ Len(pushed) - Len(popped) <= Capacity - 1
      /\ head = IndexAt(Len(popped)) /\ head \in Slots
      /\ tail = IndexAt(Len(pushed)) /\ tail \in Slots
  BY Current DEF RingInvariant
<1>1. CASE TryPushFull
  <2>1. PICK n \in headView..Len(headLog) : LooksFull(n) /\ headView' = n
    BY <1>1 DEF TryPushFull
  <2>2. Len(pushed) - (n - 1) = Capacity - 1 /\ n \in Nat
    BY <2>1, FullTest
  <2>3. ppc = "idle"
    BY <1>1 DEF TryPushFull
  <2>4. UNCHANGED <<headLog, tailLog, buffer, ppc, pitem, cpc, citem, tailView, pushed, popped>>
    BY <1>1 DEF TryPushFull, consumerVars
  <2>5. TypeOK'
    BY <1>0, <2>1, <2>2, <2>4 DEF TypeOK
  <2>6. ViewsBound'
    BY <1>0, <2>1, <2>2, <2>3, <2>4 DEF ViewsBound
  <2>7. LogsCount' /\ SlotsHoldItems' /\ PoppedInOrder'
    BY <1>0, <2>4 DEF LogsCount, SlotsHoldItems, PoppedInOrder
  <2> QED BY <2>5, <2>6, <2>7 DEF RingInvariant
<1>2. ASSUME NEW item \in Items, TryPushCheck(item) PROVE RingInvariant'
  <2>1. PICK n \in headView..Len(headLog) : ~LooksFull(n) /\ headView' = n
    BY <1>2 DEF TryPushCheck
  <2>2. Len(pushed) - (n - 1) < Capacity - 1 /\ n \in Nat
    <3>1. /\ n \in Nat \ {0} /\ Len(pushed) - (n - 1) <= Capacity - 1
          /\ Len(pushed) - (n - 1) # Capacity - 1
      BY <2>1, FullTest
    <3> QED BY <3>1, <1>0
  <2>3. ppc = "idle" /\ ppc' = "write" /\ pitem' = item
    BY <1>2 DEF TryPushCheck
  <2>4. UNCHANGED <<headLog, tailLog, buffer, cpc, citem, tailView, pushed, popped>>
    BY <1>2 DEF TryPushCheck, consumerVars
  <2>5. TypeOK'
    BY <1>0, <2>1, <2>2, <2>3, <2>4 DEF TypeOK
  <2>6. ViewsBound'
    BY <1>0, <2>1, <2>2, <2>3, <2>4 DEF ViewsBound
  <2>7. LogsCount' /\ PoppedInOrder'
    BY <1>0, <2>4 DEF LogsCount, PoppedInOrder
  <2>8. SlotsHoldItems'
    BY <1>0, <2>3, <2>4 DEF SlotsHoldItems
  <2> QED BY <2>5, <2>6, <2>7, <2>8 DEF RingInvariant
<1>3. CASE TryPushWrite
  <2>1. /\ ppc = "write" /\ ppc' = "publish"
        /\ buffer' = [buffer EXCEPT ![tail] = pitem]
    BY <1>3 DEF TryPushWrite
  <2>2. UNCHANGED <<headLog, tailLog, pitem, headView, cpc, citem, tailView, pushed, popped>>
    BY <1>3 DEF TryPushWrite, consumerVars
  <2>3. Len(pushed) - Len(popped) < Capacity - 1
    BY <1>0, <2>1 DEF ViewsBound, TypeOK
  <2>4. TypeOK'
    BY <1>0, <2>1, <2>2 DEF TypeOK
  <2>5. LogsCount' /\ ViewsBound' /\ PoppedInOrder'
    BY <1>0, <2>1, <2>2 DEF LogsCount, ViewsBound, PoppedInOrder
  <2>6. SlotsHoldItems'
    <3>1. ASSUME NEW n \in (Len(popped) + 1)..Len(pushed)
          PROVE  buffer'[IndexAt(n - 1)] = buffer[IndexAt(n - 1)]
      <4>1. n - 1 \in Nat /\ n - 1 < Len(pushed) /\ Len(pushed) - (n - 1) < Capacity
        BY <1>0, <2>3
      <4>2. IndexAt(n - 1) # tail /\ IndexAt(n - 1) \in Slots
        BY <1>0, <4>1, IndexInjective, IndexInSlots
      <4> QED BY <1>0, <2>1, <4>2 DEF TypeOK
    <3>2. buffer'[IndexAt(Len(pushed))] = pitem
      BY <1>0, <2>1 DEF TypeOK
    <3> QED BY <1>0, <2>1, <2>2, <3>1, <3>2 DEF SlotsHoldItems
  <2> QED BY <2>4, <2>5, <2>6 DEF RingInvariant
<1>4. CASE TryPushPublish
  <2>1. /\ ppc = "publish" /\ ppc' = "idle" /\ pitem' = NoItem
        /\ tailLog' = Append(tailLog, Advance(tail))
        /\ pushed' = Append(pushed, pitem)
    BY <1>4 DEF TryPushPublish
  <2>2. UNCHANGED <<headLog, buffer, headView, cpc, citem, tailView, popped>>
    BY <1>4 DEF TryPushPublish, consumerVars
  <2>3. pitem \in Items /\ buffer[IndexAt(Len(pushed))] = pitem
    BY <1>0, <2>1 DEF SlotsHoldItems
  <2>4. Advance(tail) = IndexAt(Len(pushed) + 1) /\ Advance(tail) \in Slots
    BY <1>0, AdvanceIndex, IndexInSlots
  <2>5. /\ Len(pushed') = Len(pushed) + 1 /\ pushed' \in Seq(Items)
        /\ \A n \in 1..Len(pushed) : pushed'[n] = pushed[n]
        /\ pushed'[Len(pushed) + 1] = pitem
    BY <1>0, <2>1, <2>3 DEF TypeOK
  <2>6. /\ Len(tailLog') = Len(tailLog) + 1 /\ tailLog' \in Seq(Slots)
        /\ \A n \in 1..Len(tailLog) : tailLog'[n] = tailLog[n]
        /\ tailLog'[Len(tailLog) + 1] = IndexAt(Len(pushed) + 1)
    BY <1>0, <2>1, <2>4 DEF TypeOK
  <2>7. TypeOK'
    BY <1>0, <2>1, <2>2, <2>5, <2>6 DEF TypeOK
  <2>8. LogsCount'
    <3>1. Len(tailLog) = Len(pushed) + 1
      BY <1>0 DEF TypeOK
    <3>2. ASSUME NEW n \in 1..Len(tailLog') PROVE tailLog'[n] = IndexAt(n - 1)
      <4>1. CASE n = Len(tailLog) + 1
        <5>1. n - 1 = Len(pushed) + 1
          BY <3>1, <4>1, <1>0
        <5> QED BY <4>1, <5>1, <2>6
      <4>2. CASE n \in 1..Len(tailLog)
        BY <1>0, <4>2, <2>6 DEF LogsCount
      <4> QED BY <1>0, <2>6, <3>1, <4>1, <4>2
    <3> QED BY <1>0, <2>2, <3>2 DEF LogsCount
  <2>9. ViewsBound'
    BY <1>0, <2>1, <2>2, <2>5 DEF ViewsBound, TypeOK
  <2>10. SlotsHoldItems'
    <3>1. ASSUME NEW n \in (Len(popped) + 1)..(Len(pushed) + 1)
          PROVE  \/ buffer[IndexAt(n - 1)] = pushed'[n]
                 \/ cpc = "publish" /\ n = Len(popped) + 1
      <4>1. CASE n = Len(pushed) + 1
        <5>1. n - 1 = Len(pushed)
          BY <4>1, <1>0
        <5> QED BY <4>1, <5>1, <2>3, <2>5
      <4>2. CASE n \in (Len(popped) + 1)..Len(pushed)
        <5>1. n \in 1..Len(pushed)
          BY <1>0, <4>2
        <5> QED BY <1>0, <4>2, <5>1, <2>5 DEF SlotsHoldItems
      <4> QED BY <1>0, <4>1, <4>2
    <3>2. cpc = "publish" => citem = pushed'[Len(popped) + 1]
      <4>1. cpc = "publish" => Len(popped) + 1 \in 1..Len(pushed)
        BY <1>0 DEF ViewsBound, TypeOK
      <4> QED BY <1>0, <2>5, <4>1 DEF SlotsHoldItems
    <3> QED BY <2>1, <2>2, <2>5, <3>1, <3>2 DEF SlotsHoldItems
  <2>11. PoppedInOrder'
    BY <1>0, <2>2, <2>5 DEF PoppedInOrder
  <2> QED BY <2>7, <2>8, <2>9, <2>10, <2>11 DEF RingInvariant
<1>5. CASE TryPopEmpty
  <2>1. PICK n \in tailView..Len(tailLog) : LooksEmpty(n) /\ tailView' = n
    BY <1>5 DEF TryPopEmpty
  <2>2. n - 1 = Len(popped) /\ n \in Nat
    BY <2>1, EmptyTest
  <2>3. cpc = "idle"
    BY <1>5 DEF TryPopEmpty
  <2>4. UNCHANGED <<headLog, tailLog, buffer, ppc, pitem, headView, cpc, citem, pushed, popped>>
    BY <1>5 DEF TryPopEmpty, producerVars
  <2>5. TypeOK'
    BY <1>0, <2>1, <2>2, <2>4 DEF TypeOK
  <2>6. ViewsBound'
    BY <1>0, <2>1, <2>2, <2>3, <2>4 DEF ViewsBound
  <2>7. LogsCount' /\ SlotsHoldItems' /\ PoppedInOrder'
    BY <1>0, <2>4 DEF LogsCount, SlotsHoldItems, PoppedInOrder
  <2> QED BY <2>5, <2>6, <2>7 DEF RingInvariant
<1>6. CASE TryPopCheck
  <2>1. PICK n \in tailView..Len(tailLog) : ~LooksEmpty(n) /\ tailView' = n
    BY <1>6 DEF TryPopCheck
  <2>2. Len(popped) < n - 1 /\ n \in Nat
    <3>1. n \in Nat \ {0} /\ Len(popped) <= n - 1 /\ n - 1 # Len(popped)
      BY <2>1, EmptyTest
    <3> QED BY <1>0, <3>1
  <2>3. cpc = "idle" /\ cpc' = "read"
    BY <1>6 DEF TryPopCheck
  <2>4. UNCHANGED <<headLog, tailLog, buffer, ppc, pitem, headView, citem, pushed, popped>>
    BY <1>6 DEF TryPopCheck, producerVars
  <2>5. TypeOK'
    BY <1>0, <2>1, <2>2, <2>3, <2>4 DEF TypeOK
  <2>6. ViewsBound'
    BY <1>0, <2>1, <2>2, <2>3, <2>4 DEF ViewsBound
  <2>7. LogsCount' /\ PoppedInOrder'
    BY <1>0, <2>4 DEF LogsCount, PoppedInOrder
  <2>8. SlotsHoldItems'
    BY <1>0, <2>3, <2>4 DEF SlotsHoldItems
  <2> QED BY <2>5, <2>6, <2>7, <2>8 DEF RingInvariant
<1>7. CASE TryPopRead
  <2>1. /\ cpc = "read" /\ cpc' = "publish" /\ citem' = buffer[head]
        /\ buffer' = [buffer EXCEPT ![head] = NoItem]
    BY <1>7 DEF TryPopRead
  <2>2. UNCHANGED <<headLog, tailLog, tailView, ppc, pitem, headView, pushed, popped>>
    BY <1>7 DEF TryPopRead, producerVars
  <2>3. Len(popped) < Len(pushed)
    BY <1>0, <2>1 DEF ViewsBound, TypeOK
  <2>4. buffer[head] = pushed[Len(popped) + 1]
    <3>1. /\ Len(popped) + 1 \in (Len(popped) + 1)..Len(pushed)
          /\ (Len(popped) + 1) - 1 = Len(popped)
      BY <1>0, <2>3
    <3> QED BY <1>0, <2>1, <3>1 DEF SlotsHoldItems
  <2>5. TypeOK'
    BY <1>0, <2>1, <2>2 DEF TypeOK
  <2>6. LogsCount' /\ ViewsBound' /\ PoppedInOrder'
    BY <1>0, <2>1, <2>2 DEF LogsCount, ViewsBound, PoppedInOrder
  <2>7. SlotsHoldItems'
    <3>1. ASSUME NEW n \in Nat, Len(popped) < n, n <= Len(pushed)
          PROVE  buffer'[IndexAt(n)] = buffer[IndexAt(n)]
      <4>1. IndexAt(n) # head /\ IndexAt(n) \in Slots
        BY <1>0, <3>1, IndexInjective, IndexInSlots
      <4> QED BY <1>0, <2>1, <4>1 DEF TypeOK
    <3>2. ASSUME NEW n \in (Len(popped) + 1)..Len(pushed)
          PROVE  buffer'[IndexAt(n - 1)] = pushed[n] \/ n = Len(popped) + 1
      <4>1. CASE n - 1 > Len(popped)
        <5>1. n - 1 \in Nat /\ n - 1 <= Len(pushed) /\ n # Len(popped) + 1
          BY <1>0, <4>1
        <5> QED BY <1>0, <2>1, <3>1, <4>1, <5>1 DEF SlotsHoldItems
      <4> QED BY <1>0, <4>1
    <3>3. ppc = "publish" => buffer'[IndexAt(Len(pushed))] = pitem
      BY <1>0, <2>3, <3>1 DEF SlotsHoldItems
    <3> QED BY <1>0, <2>1, <2>2, <2>4, <3>2, <3>3 DEF SlotsHoldItems
  <2> QED BY <2>5, <2>6, <2>7 DEF RingInvariant
<1>8. CASE TryPopPublish
  <2>1. /\ cpc = "publish" /\ cpc' = "idle" /\ citem' = NoItem
        /\ headLog' = Append(headLog, Advance(head))
        /\ popped' = Append(popped, citem)
    BY <1>8 DEF TryPopPublish
  <2>2. UNCHANGED <<tailLog, buffer, tailView, ppc, pitem, headView, pushed>>
    BY <1>8 DEF TryPopPublish, producerVars
  <2>3. Len(popped) < tailView - 1 /\ Len(popped) < Len(pushed)
    BY <1>0, <2>1 DEF ViewsBound, TypeOK
  <2>4. citem = pushed[Len(popped) + 1] /\ citem \in Items
    BY <1>0, <2>1, <2>3 DEF SlotsHoldItems, TypeOK
  <2>5. Advance(head) = IndexAt(Len(popped) + 1) /\ Advance(head) \in Slots
    BY <1>0, AdvanceIndex, IndexInSlots
  <2>6. /\ Len(popped') = Len(popped) + 1 /\ popped' \in Seq(Items)
        /\ \A n \in 1..Len(popped) : popped'[n] = popped[n]
        /\ popped'[Len(popped) + 1] = citem
    BY <1>0, <2>1, <2>4 DEF TypeOK
  <2>7. /\ Len(headLog') = Len(headLog) + 1 /\ headLog' \in Seq(Slots)
        /\ \A n \in 1..Len(headLog) : headLog'[n] = headLog[n]
        /\ headLog'[Len(headLog) + 1] = IndexAt(Len(popped) + 1)
    BY <1>0, <2>1, <2>5 DEF TypeOK
  <2>8. TypeOK'
    BY <1>0, <2>1, <2>2, <2>6, <2>7 DEF TypeOK
  <2>9. LogsCount'
    <3>1. Len(headLog) = Len(popped) + 1
      BY <1>0 DEF TypeOK
    <3>2. ASSUME NEW n \in 1..Len(headLog') PROVE headLog'[n] = IndexAt(n - 1)
      <4>1. CASE n = Len(headLog) + 1
        <5>1. n - 1 = Len(popped) + 1
          BY <3>1, <4>1, <1>0
        <5> QED BY <4>1, <5>1, <2>7
      <4>2. CASE n \in 1..Len(headLog)
        BY <1>0, <4>2, <2>7 DEF LogsCount
      <4> QED BY <1>0, <2>7, <3>1, <4>1, <4>2
    <3> QED BY <1>0, <2>2, <3>2 DEF LogsCount
  <2>10. ViewsBound'
    BY <1>0, <2>1, <2>2, <2>3, <2>6 DEF ViewsBound, TypeOK
  <2>11. SlotsHoldItems'
    BY <1>0, <2>1, <2>2, <2>3, <2>6 DEF SlotsHoldItems
  <2>12. PoppedInOrder'
    BY <1>0, <2>2, <2>4, <2>6 DEF PoppedInOrder
  <2> QED BY <2>8, <2>9, <2>10, <2>11, <2>12 DEF RingInvariant
<1>9. CASE UNCHANGED vars
  <2>1. UNCHANGED <<headLog, tailLog, buffer, ppc, pitem, headView, cpc, citem, tailView,
                    pushed, popped>>
    BY <1>9 DEF vars, producerVars, consumerVars
  <2>2. TypeOK' /\ ViewsBound'
    BY <1>0, <2>1 DEF TypeOK, ViewsBound
  <2>3. LogsCount' /\ SlotsHoldItems' /\ PoppedInOrder'
    BY <1>0, <2>1 DEF LogsCount, SlotsHoldItems, PoppedInOrder
  <2> QED BY <2>2, <2>3 DEF RingInvariant
<1> QED
  BY <1>1, <1>2, <1>3, <1>4, <1>5, <1>6, <1>7, <1>8, <1>9 DEF Next, Producer, Consumer

--------------------------------------------------------------------------------
(* The theorems.                                                           *)

\* The ring invariant (types included) holds in every state that concurrent
\* calls of try_push and try_pop reach, for every capacity.
THEOREM RingInvariantHolds == Spec => []RingInvariant
<1>1. Init => RingInvariant
  BY RingInit
<1>2. RingInvariant /\ [Next]_vars => RingInvariant'
  BY RingStep
<1> QED BY <1>1, <1>2, PTL DEF Spec

\* Acquire and release on head_ and tail_ alone order the accesses to a slot of
\* buffer_ by the two threads.
THEOREM NoDataRaceHolds == Spec => []NoDataRace
<1>1. RingInvariant => NoDataRace
  <2> SUFFICES ASSUME RingInvariant PROVE NoDataRace
    OBVIOUS
  <2>1. /\ Len(pushed) \in Nat /\ Len(popped) \in Nat
        /\ Len(pushed) - Len(popped) <= Capacity - 1
        /\ head = IndexAt(Len(popped)) /\ tail = IndexAt(Len(pushed))
    BY Current
  <2>2. /\ ppc = "write" => Len(pushed) + 1 - Capacity <= headView - 1
        /\ cpc = "read" => Len(popped) + 1 <= tailView - 1
    BY <2>1, CapacityPositive DEF RingInvariant, ViewsBound, TypeOK
  <2>3. ASSUME cpc = "read" PROVE head # tail
    <3>1. Len(popped) < Len(pushed)
      BY <2>1, <2>3 DEF RingInvariant, ViewsBound, TypeOK
    <3> QED BY <2>1, <3>1, IndexInjective, CapacityPositive
  <2> QED BY <2>2, <2>3 DEF NoDataRace
<1> QED BY <1>1, RingInvariantHolds, PTL

\* A push is refused exactly by a ring that was full at the head_ value loaded.
THEOREM FullTestExactHolds == Spec => []FullTestExact
<1>1. RingInvariant => FullTestExact
  BY FullTest DEF FullTestExact
<1> QED BY <1>1, RingInvariantHolds, PTL

\* A pop finds the ring empty exactly when it has popped all that was published
\* at the tail_ value loaded.
THEOREM EmptyTestExactHolds == Spec => []EmptyTestExact
<1>1. RingInvariant => EmptyTestExact
  BY EmptyTest DEF EmptyTestExact
<1> QED BY <1>1, RingInvariantHolds, PTL

--------------------------------------------------------------------------------
(* The refinement of BoundedFIFO.                                          *)

\* What of a sequence is left once its first d elements are gone.
LEMMA Remainder ==
    ASSUME NEW S, NEW s \in Seq(S), NEW d \in Nat, d <= Len(s)
    PROVE  /\ SubSeq(s, d + 1, Len(s)) \in Seq(S)
           /\ Len(SubSeq(s, d + 1, Len(s))) = Len(s) - d
           /\ \A i \in 1..(Len(s) - d) : SubSeq(s, d + 1, Len(s))[i] = s[d + i]
<1> DEFINE m == d + 1
           n == Len(s)
<1>1. n \in Nat /\ n \in Int /\ m \in Int /\ \A i \in m..n : s[i] \in S
  OBVIOUS
<1> HIDE DEF m, n
<1>2. /\ SubSeq(s, m, n) \in Seq(S)
      /\ Len(SubSeq(s, m, n)) = IF m <= n THEN n - m + 1 ELSE 0
      /\ \A i \in 1..(n - m + 1) : SubSeq(s, m, n)[i] = s[m + i - 1]
  BY <1>1, SubSeqProperties
<1> USE DEF m, n
<1>3. /\ SubSeq(s, d + 1, Len(s)) \in Seq(S)
      /\ Len(SubSeq(s, d + 1, Len(s))) = IF d + 1 <= Len(s) THEN Len(s) - (d + 1) + 1 ELSE 0
      /\ \A i \in 1..(Len(s) - (d + 1) + 1) :
            SubSeq(s, d + 1, Len(s))[i] = s[d + 1 + i - 1]
  BY <1>2
<1>4. /\ Len(s) - (d + 1) + 1 = Len(s) - d
      /\ \A i \in 1..(Len(s) - d) : d + 1 + i - 1 = d + i
  BY <1>1
<1>5. Len(SubSeq(s, d + 1, Len(s))) = Len(s) - d
  BY <1>1, <1>3
<1> QED BY <1>3, <1>4, <1>5

\* Appending to the sequence appends to what is left of it.
LEMMA RemainderOfAppend ==
    ASSUME NEW S, NEW s \in Seq(S), NEW e \in S, NEW d \in Nat, d <= Len(s)
    PROVE  SubSeq(Append(s, e), d + 1, Len(Append(s, e))) = Append(SubSeq(s, d + 1, Len(s)), e)
<1> DEFINE t == Append(s, e)
           q == SubSeq(s, d + 1, Len(s))
           u == SubSeq(t, d + 1, Len(t))
<1>1. /\ t \in Seq(S) /\ Len(t) = Len(s) + 1 /\ Len(s) \in Nat
      /\ \A i \in 1..Len(s) : t[i] = s[i]
      /\ t[Len(s) + 1] = e
  OBVIOUS
<1>2. q \in Seq(S) /\ Len(q) = Len(s) - d /\ \A i \in 1..(Len(s) - d) : q[i] = s[d + i]
  BY Remainder
<1>3. u \in Seq(S) /\ Len(u) = Len(t) - d /\ \A i \in 1..(Len(t) - d) : u[i] = t[d + i]
  BY <1>1, Remainder
<1> HIDE DEF t, q, u
<1>4. /\ Append(q, e) \in Seq(S) /\ Len(Append(q, e)) = Len(q) + 1
      /\ \A i \in 1..Len(q) : Append(q, e)[i] = q[i]
      /\ Append(q, e)[Len(q) + 1] = e
  BY <1>2
<1>5. Len(u) = Len(Append(q, e))
  BY <1>1, <1>2, <1>3, <1>4
<1>6. ASSUME NEW i \in 1..Len(u) PROVE u[i] = Append(q, e)[i]
  <2>1. CASE i \in 1..Len(q)
    <3>1. u[i] = t[d + i] /\ d + i \in 1..Len(s)
      BY <1>1, <1>2, <1>3, <2>1
    <3>2. t[d + i] = s[d + i] /\ q[i] = s[d + i]
      BY <1>1, <1>2, <2>1, <3>1
    <3> QED BY <1>4, <2>1, <3>1, <3>2
  <2>2. CASE i = Len(q) + 1
    <3>1. d + i = Len(s) + 1 /\ i \in 1..(Len(t) - d)
      BY <1>1, <1>2, <2>2
    <3> QED BY <1>1, <1>3, <1>4, <2>2, <3>1
  <2>3. Len(q) \in Nat /\ Len(u) = Len(q) + 1
    BY <1>1, <1>2, <1>3
  <2> QED BY <2>1, <2>2, <2>3
<1>7. u = Append(q, e)
  BY <1>3, <1>4, <1>5, <1>6, SeqEqual, Zenon
<1> QED BY <1>7 DEF t, q, u

\* The concurrent ring implements the atomic bounded queue: a push takes effect
\* at the store of tail_, a pop at the store of head_, and every other access of
\* shared memory leaves the abstract queue as it was.
THEOREM Refinement == Spec => ImplementsFIFO
<1> DEFINE unpopped == SubSeq(pushed, Len(popped) + 1, Len(pushed))
<1>1. Init => FIFO!Init
  <2> SUFFICES ASSUME Init PROVE FIFO!Init
    OBVIOUS
  <2>1. pushed = <<>> /\ popped = <<>>
    BY DEF Init
  <2>2. SubSeq(<<>>, 0 + 1, 0) = <<>>
    BY SubSeqEmpty
  <2> QED BY <2>1, <2>2 DEF FIFO!Init
<1>2. RingInvariant /\ [Next]_vars => [FIFO!Next]_(FIFO!vars)
  <2> SUFFICES ASSUME RingInvariant, [Next]_vars PROVE [FIFO!Next]_(FIFO!vars)
    OBVIOUS
  <2>0. /\ pushed \in Seq(Items) /\ Len(pushed) \in Nat /\ Len(popped) \in Nat
        /\ Len(popped) <= Len(pushed)
    BY Current DEF RingInvariant, TypeOK
  <2>1. CASE TryPushPublish
    <3>1. /\ ppc = "publish" /\ pushed' = Append(pushed, pitem) /\ UNCHANGED popped
      BY <2>1 DEF TryPushPublish
    <3>2. pitem \in Items
      BY <3>1 DEF RingInvariant, SlotsHoldItems
    <3>3. Len(unpopped) < Capacity - 1
      <4>1. Len(pushed) - Len(popped) < Capacity - 1
        BY <2>0, <3>1, CapacityPositive DEF RingInvariant, ViewsBound, TypeOK
      <4> QED BY <2>0, <4>1, Remainder
    <3>4. unpopped' = Append(unpopped, pitem)
      BY <2>0, <3>1, <3>2, RemainderOfAppend
    <3>5. FIFO!Push(pitem)
      BY <3>1, <3>3, <3>4 DEF FIFO!Push
    <3> QED BY <3>2, <3>5 DEF FIFO!Next
  <2>2. CASE TryPopPublish
    <3>1. cpc = "publish" /\ popped' = Append(popped, citem) /\ UNCHANGED pushed
      BY <2>2 DEF TryPopPublish
    <3>2. Len(popped) + 1 \in 1..Len(pushed) /\ Len(pushed) \in (Len(popped) + 1)..Len(pushed)
      BY <2>0, <3>1 DEF RingInvariant, ViewsBound, TypeOK
    <3>3. citem = pushed[Len(popped) + 1]
      BY <3>1 DEF RingInvariant, SlotsHoldItems
    <3>4. /\ Head(unpopped) = pushed[Len(popped) + 1]
          /\ Tail(unpopped) = SubSeq(pushed, Len(popped) + 1 + 1, Len(pushed))
      BY <2>0, <3>2, HeadTailOfSubSeq
    <3>5. Len(popped') = Len(popped) + 1
      BY <3>1 DEF RingInvariant, TypeOK
    <3>6. unpopped' = Tail(unpopped)
      BY <3>1, <3>4, <3>5
    <3>7. unpopped # <<>>
      <4>1. Len(unpopped) = Len(pushed) - Len(popped)
        BY <2>0, Remainder
      <4>2. Len(unpopped) # 0
        BY <2>0, <3>2, <4>1
      <4>3. Len(<<>>) = 0
        OBVIOUS
      <4> HIDE DEF unpopped
      <4> QED BY <4>2, <4>3
    <3>8. FIFO!Pop
      BY <3>1, <3>3, <3>4, <3>6, <3>7 DEF FIFO!Pop
    <3> QED BY <3>8 DEF FIFO!Next
  <2>3. CASE UNCHANGED <<pushed, popped>>
    BY <2>3 DEF FIFO!vars
  <2>4. TryPushPublish \/ TryPopPublish \/ UNCHANGED <<pushed, popped>>
    BY DEF Next, Producer, Consumer, TryPushFull, TryPushCheck, TryPushWrite, TryPopEmpty,
           TryPopCheck, TryPopRead, vars
  <2> QED BY <2>1, <2>2, <2>3, <2>4
<1> QED BY <1>1, <1>2, RingInvariantHolds, PTL DEF Spec, ImplementsFIFO, FIFO!Spec
================================================================================
