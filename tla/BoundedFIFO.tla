------------------------------ MODULE BoundedFIFO ------------------------------
(***************************************************************************)
(* What SPSCQueue (src/src/core/spsc_queue.h) promises its two threads: a  *)
(* first-in first-out queue of at most Bound items from which nothing is   *)
(* lost, duplicated or reordered.                                          *)
(***************************************************************************)
EXTENDS Naturals, Sequences

CONSTANTS Items,   \* what may be enqueued
          Bound    \* capacity(): the usable slots

VARIABLES queue,      \* items accepted and not yet handed to the consumer
          delivered   \* every item handed to the consumer, oldest first

vars == <<queue, delivered>>

Init == /\ queue = <<>>
        /\ delivered = <<>>

Push(item) == /\ Len(queue) < Bound
              /\ queue' = Append(queue, item)
              /\ UNCHANGED delivered

Pop == /\ queue # <<>>
       /\ queue' = Tail(queue)
       /\ delivered' = Append(delivered, Head(queue))

Next == Pop \/ \E item \in Items : Push(item)

Spec == Init /\ [][Next]_vars
================================================================================
