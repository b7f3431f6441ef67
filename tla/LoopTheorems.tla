------------------------------ MODULE LoopTheorems ------------------------------
(***************************************************************************)
(* Induction for the proofs about the program's loops.  A loop over a       *)
(* sequence is modelled by a recursive function on 0..n, whose value at i   *)
(* is what the loop has computed after i turns.  The statements are about   *)
(* sets and functions instead of operators, so that they can be used by     *)
(* instantiating variables.                                                 *)
(***************************************************************************)
EXTENDS Integers, WellFoundedInduction, NaturalsInduction, TLAPS

Before == {pair \in Nat \X Nat : pair[1] < pair[2]}

\* There is no infinite descent among the natural numbers.
LEMMA BeforeWellFounded == IsWellFoundedOn(Before, Nat)
BY NatLessThanWellFounded, Zenon DEF OpToRel, Before

\* A set of natural numbers that is not empty has a least element.
LEMMA LeastNatural == ASSUME NEW T \in SUBSET Nat, T # {}
                      PROVE  \E x \in T : \A y \in T : x <= y
<1>1. PICK x \in T : \A y \in T : ~(<<y, x>> \in Before)
  BY BeforeWellFounded, WFMin
<1>2. ASSUME NEW y \in T PROVE x <= y
  <2>1. ~(y < x)
    BY <1>1, <1>2 DEF Before
  <2> QED BY <2>1
<1> QED BY <1>2

\* A set that has 0 and with every number the next one has all of them.
LEMMA InductionOnSet == ASSUME NEW T, 0 \in T, \A n \in Nat : n \in T => n + 1 \in T
                        PROVE  Nat \subseteq T
<1> SUFFICES ASSUME NEW m \in Nat, m \notin T PROVE FALSE
  OBVIOUS
<1> DEFINE U == {n \in Nat : n \notin T}
<1>1. PICK x \in U : \A y \in U : x <= y
  <2>1. U \in SUBSET Nat /\ U # {}
    OBVIOUS
  <2> HIDE DEF U
  <2> QED BY <2>1, LeastNatural
<1>2. x \in Nat /\ x # 0
  BY <1>1
<1>3. x - 1 \in Nat /\ x - 1 \in T
  BY <1>1, <1>2
<1>4. (x - 1) + 1 = x
  BY <1>2
<1>5. (x - 1) + 1 \in T
  BY <1>3
<1> QED BY <1>1, <1>4, <1>5

\* What N turns may do to a result in V, and the results after each turn.
Turns(N, V) == [1..N -> [V -> V]]
LoopRuns(N, V, base, turn, G) == /\ G \in [0..N -> V]
                                 /\ G[0] = base
                                 /\ \A n \in 1..N : G[n] = turn[n][G[n - 1]]

\* A loop of N turns that keeps its result in V has a result after each turn.
LEMMA LoopExists ==
    ASSUME NEW N \in Nat, NEW V, NEW base \in V, NEW turn \in Turns(N, V)
    PROVE  \E G : LoopRuns(N, V, base, turn, G)
<1> DEFINE Runs(k, G) == /\ G \in [0..k -> V]
                         /\ G[0] = base
                         /\ \A n \in 1..k : G[n] = turn[n][G[n - 1]]
           T == {k \in Nat : k <= N => \E G : Runs(k, G)}
<1>1. 0 \in T
  <2>1. Runs(0, [n \in 0..0 |-> base])
    OBVIOUS
  <2> HIDE DEF Runs
  <2> QED BY <2>1
<1>2. ASSUME NEW k \in Nat, k \in T PROVE k + 1 \in T
  <2> SUFFICES ASSUME k + 1 <= N PROVE \E G : Runs(k + 1, G)
    OBVIOUS
  <2>1. PICK G : Runs(k, G)
    BY <1>2
  <2> DEFINE next == turn[k + 1][G[k]]
             H == [n \in 0..(k + 1) |-> IF n = k + 1 THEN next ELSE G[n]]
  <2>2. G[k] \in V /\ k + 1 \in 1..N
    BY <2>1
  <2>3. next \in V
    BY <2>2 DEF Turns
  <2> HIDE DEF next
  <2>4. H \in [0..(k + 1) -> V]
    BY <2>1, <2>3
  <2>5. H[0] = base
    BY <2>1
  <2>6. ASSUME NEW n \in 1..(k + 1) PROVE H[n] = turn[n][H[n - 1]]
    <3>1. n - 1 \in 0..k /\ H[n - 1] = G[n - 1]
      OBVIOUS
    <3>2. CASE n = k + 1
      <4>1. H[n] = next /\ n - 1 = k
        BY <3>2
      <4> QED BY <3>1, <3>2, <4>1 DEF next
    <3>3. CASE n # k + 1
      <4>1. n \in 1..k /\ H[n] = G[n]
        BY <3>3
      <4>2. G[n] = turn[n][G[n - 1]]
        BY <2>1, <4>1
      <4> QED BY <3>1, <4>1, <4>2
    <3> QED BY <3>2, <3>3
  <2> HIDE DEF H
  <2>7. Runs(k + 1, H)
    BY <2>4, <2>5, <2>6
  <2> HIDE DEF Runs
  <2> QED BY <2>7
<1> HIDE DEF T
<1>3. N \in T
  BY <1>1, <1>2, InductionOnSet
<1>4. PICK G : Runs(N, G)
  BY <1>3 DEF T
<1>5. LoopRuns(N, V, base, turn, G)
  BY <1>4 DEF LoopRuns
<1> QED BY <1>5
================================================================================
