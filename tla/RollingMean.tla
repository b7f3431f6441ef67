------------------------------ MODULE RollingMean ------------------------------
(***************************************************************************)
(* The bounded deques behind the moving averages of Aggregator and          *)
(* TradeAggregator.                                                         *)
(***************************************************************************)
EXTENDS Integers, Sequences, Functions

\* Mutant: nothing is popped.
RollUnbounded(deque, x, limit) == Append(deque, x)

\* push_back, then pop_front when the deque holds more than its limit.
Roll(deque, x, limit) ==
    LET longer == Append(deque, x) IN IF Len(longer) > limit THEN Tail(longer) ELSE longer

\* std::accumulate
Accumulate(deque) ==
    LET total[n \in 0..Len(deque)] == IF n = 0 THEN 0 ELSE total[n - 1] + deque[n]
    IN total[Len(deque)]

\* The sum over the deque, divided by its size.
Mean(deque) == <<Accumulate(deque), Len(deque)>>
================================================================================
