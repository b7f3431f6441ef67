-------------------------------- MODULE SPSCQueue -------------------------------
(***************************************************************************)
(* The lock-free single-producer single-consumer ring of                   *)
(* src/src/core/spsc_queue.h, at the grain of its shared-memory accesses:  *)
(* every atomic load, every atomic store and every access to a slot is a   *)
(* step of its own.                                                        *)
(*                                                                         *)
(* Memory order.  head_ and tail_ are C++ atomics, so each has a           *)
(* modification order: the sequence of all the values stored to it.        *)
(* headLog and tailLog are those sequences.  A thread that loads the other *)
(* thread's index may get any value of the order that is not older than    *)
(* the one it got before (headView, tailView: read-read coherence), and    *)
(* because stores are release and loads acquire, it then sees everything   *)
(* the other thread did before that store.  A thread's relaxed load of the *)
(* index that only it writes returns the last value.                       *)
(***************************************************************************)
EXTENDS Integers, Sequences

CONSTANTS Capacity,    \* template parameter: the number of slots
          Items,       \* the values of T that are pushed
          NoItem,      \* what a slot holds before its first write or once moved from
          MaxPushes    \* bound: the pushes a behaviour may complete

ASSUME CapacityPositive == Capacity \in Nat \ {0}
\* The static_assert on Capacity, which makes (i + 1) & MASK the remainder.
ASSUME CapacityPowerOfTwo == \E k \in 0..Capacity : Capacity = 2^k
ASSUME NoItemAssumption == NoItem \notin Items
ASSUME MaxPushesAssumption == MaxPushes \in Nat

VARIABLES headLog,    \* head_: every value it has had, the last one is current
          tailLog,    \* tail_: likewise
          buffer,     \* buffer_
          ppc,        \* the producer: "idle", about to "write" or to "publish"
          pitem,      \* the argument of the try_push under way
          headView,   \* position in headLog of the last value the producer loaded
          cpc,        \* the consumer: "idle", about to "read" or to "publish"
          citem,      \* the local item of the try_pop under way
          tailView,   \* position in tailLog of the last value the consumer loaded
          pushed,     \* history: the items of successful pushes, in order
          popped      \* history: the items returned by pops, in order

producerVars == <<ppc, pitem, headView>>
consumerVars == <<cpc, citem, tailView>>
vars == <<headLog, tailLog, buffer, producerVars, consumerVars, pushed, popped>>

Slots == 0..(Capacity - 1)

\* Mutant: the index advances by two.
AdvanceSkips(i) == (i + 2) % Capacity

\* (i + 1) & MASK
Advance(i) == (i + 1) % Capacity

head == headLog[Len(headLog)]
tail == tailLog[Len(tailLog)]

Init == /\ headLog = <<0>>
        /\ tailLog = <<0>>
        /\ buffer = [s \in Slots |-> NoItem]
        /\ ppc = "idle" /\ pitem = NoItem /\ headView = 1
        /\ cpc = "idle" /\ citem = NoItem /\ tailView = 1
        /\ pushed = <<>>
        /\ popped = <<>>

--------------------------------------------------------------------------------
(* The producer: try_push(const T&) and try_push(T&&).                     *)

\* next_tail == head_, for the n-th value of head_.
LooksFull(n) == Advance(tail) = headLog[n]

\* head_.load(acquire) returned next_tail: return false.
TryPushFull ==
    /\ ppc = "idle"
    /\ \E n \in headView..Len(headLog) :
          /\ LooksFull(n)
          /\ headView' = n
    /\ UNCHANGED <<headLog, tailLog, buffer, ppc, pitem, consumerVars, pushed, popped>>

\* Mutant: the test for a full queue is missing.
TryPushCheckUnguarded(item) ==
    /\ ppc = "idle"
    /\ Len(pushed) < MaxPushes
    /\ ppc' = "write" /\ pitem' = item
    /\ \E n \in headView..Len(headLog) : headView' = n
    /\ UNCHANGED <<headLog, tailLog, buffer, consumerVars, pushed, popped>>

\* head_.load(acquire) returned something else: there is room.
TryPushCheck(item) ==
    /\ ppc = "idle"
    /\ Len(pushed) < MaxPushes
    /\ \E n \in headView..Len(headLog) :
          /\ ~LooksFull(n)
          /\ headView' = n
    /\ ppc' = "write" /\ pitem' = item
    /\ UNCHANGED <<headLog, tailLog, buffer, consumerVars, pushed, popped>>

\* buffer_[tail] = item
TryPushWrite ==
    /\ ppc = "write"
    /\ buffer' = [buffer EXCEPT ![tail] = pitem]
    /\ ppc' = "publish"
    /\ UNCHANGED <<headLog, tailLog, pitem, headView, consumerVars, pushed, popped>>

\* tail_.store(next_tail, release); return true
TryPushPublish ==
    /\ ppc = "publish"
    /\ tailLog' = Append(tailLog, Advance(tail))
    /\ pushed' = Append(pushed, pitem)
    /\ ppc' = "idle" /\ pitem' = NoItem
    /\ UNCHANGED <<headLog, buffer, headView, consumerVars, popped>>

--------------------------------------------------------------------------------
(* The consumer: try_pop() and try_pop(T&).                                *)

\* head == tail_, for the n-th value of tail_.
LooksEmpty(n) == head = tailLog[n]

\* tail_.load(acquire) returned head: return nullopt or false.
TryPopEmpty ==
    /\ cpc = "idle"
    /\ \E n \in tailView..Len(tailLog) :
          /\ LooksEmpty(n)
          /\ tailView' = n
    /\ UNCHANGED <<headLog, tailLog, buffer, cpc, citem, producerVars, pushed, popped>>

\* Mutant: the last item in the queue is taken for an empty queue.
TryPopCheckLeavesOne ==
    /\ cpc = "idle"
    /\ \E n \in tailView..Len(tailLog) :
          /\ ~LooksEmpty(n) /\ Advance(head) # tailLog[n]
          /\ tailView' = n
    /\ cpc' = "read"
    /\ UNCHANGED <<headLog, tailLog, buffer, citem, producerVars, pushed, popped>>

\* tail_.load(acquire) returned something else: there is an item.
TryPopCheck ==
    /\ cpc = "idle"
    /\ \E n \in tailView..Len(tailLog) :
          /\ ~LooksEmpty(n)
          /\ tailView' = n
    /\ cpc' = "read"
    /\ UNCHANGED <<headLog, tailLog, buffer, citem, producerVars, pushed, popped>>

\* Mutant: the slot after head is moved from.
TryPopReadNext ==
    /\ cpc = "read"
    /\ citem' = buffer[Advance(head)]
    /\ buffer' = [buffer EXCEPT ![Advance(head)] = NoItem]
    /\ cpc' = "publish"
    /\ UNCHANGED <<headLog, tailLog, tailView, producerVars, pushed, popped>>

\* item = std::move(buffer_[head])
TryPopRead ==
    /\ cpc = "read"
    /\ citem' = buffer[head]
    /\ buffer' = [buffer EXCEPT ![head] = NoItem]
    /\ cpc' = "publish"
    /\ UNCHANGED <<headLog, tailLog, tailView, producerVars, pushed, popped>>

\* head_.store((head + 1) & MASK, release); return item
TryPopPublish ==
    /\ cpc = "publish"
    /\ headLog' = Append(headLog, Advance(head))
    /\ popped' = Append(popped, citem)
    /\ cpc' = "idle" /\ citem' = NoItem
    /\ UNCHANGED <<tailLog, buffer, tailView, producerVars, pushed>>

--------------------------------------------------------------------------------
Producer == \/ TryPushFull
            \/ \E item \in Items : TryPushCheck(item)
            \/ TryPushWrite
            \/ TryPushPublish

Consumer == TryPopEmpty \/ TryPopCheck \/ TryPopRead \/ TryPopPublish

Next == Producer \/ Consumer

Spec == Init /\ [][Next]_vars

\* The processing thread calls try_pop in a loop, and a store becomes visible
\* to the loads of other threads in finite time, so a consumer that keeps
\* asking does not read a stale tail_ for ever.
Fairness == WF_vars(TryPopCheck) /\ WF_vars(TryPopRead) /\ WF_vars(TryPopPublish)

FairSpec == Spec /\ Fairness

--------------------------------------------------------------------------------
\* The indices stay in the ring, their logs count the completed try_push and
\* try_pop calls, and each thread's view is a store that has happened.
TypeOK == /\ headLog \in Seq(Slots) /\ tailLog \in Seq(Slots)
          /\ Len(headLog) = Len(popped) + 1
          /\ Len(tailLog) = Len(pushed) + 1
          /\ buffer \in [Slots -> Items \cup {NoItem}]
          /\ ppc \in {"idle", "write", "publish"} /\ pitem \in Items \cup {NoItem}
          /\ cpc \in {"idle", "read", "publish"} /\ citem \in Items \cup {NoItem}
          /\ headView \in 1..Len(headLog)
          /\ tailView \in 1..Len(tailLog)
          /\ pushed \in Seq(Items) /\ popped \in Seq(Items)

\* The accesses to a slot are ordered by acquire/release alone.  When try_push
\* is about to write a slot, the pop that last emptied that slot is one whose
\* head_ store the producer has loaded; when try_pop is about to move from a
\* slot, the push that filled it is one whose tail_ store the consumer has
\* loaded; and the two threads never touch one slot at the same time.
NoDataRace == /\ ppc = "write" => Len(pushed) + 1 - Capacity <= headView - 1
              /\ cpc = "read" => Len(popped) + 1 <= tailView - 1
              /\ ~(ppc = "write" /\ cpc = "read" /\ head = tail)

\* Whichever value of head_ the producer may load, however stale, try_push takes
\* the ring for full exactly when all of the capacity() usable slots were taken
\* as of that value: FeedHandler drops a message for no other reason, and no
\* unpopped item is overwritten.
FullTestExact ==
    \A n \in headView..Len(headLog) : LooksFull(n) <=> Len(pushed) - (n - 1) = Capacity - 1

\* Whichever value of tail_ the consumer may load, try_pop takes the ring for
\* empty exactly when every push published by then has been popped: a full ring
\* never looks like an empty one.
EmptyTestExact ==
    \A n \in tailView..Len(tailLog) : LooksEmpty(n) <=> n - 1 = Len(popped)

\* The n-th store to either index left IndexAt(n) in it.
IndexAt(n) == n % Capacity

\* What makes the rest inductive: every value ever stored in an index is the
\* count of its stores modulo Capacity, the producer never runs more than
\* capacity() ahead of the head_ it saw nor the consumer past the tail_ it saw,
\* and the slots between head_ and tail_ hold the unpopped items in order.
LogsCount == /\ \A n \in 1..Len(headLog) : headLog[n] = IndexAt(n - 1)
             /\ \A n \in 1..Len(tailLog) : tailLog[n] = IndexAt(n - 1)

ViewsBound == /\ Len(popped) <= tailView - 1
              /\ cpc # "idle" => Len(popped) < tailView - 1
              /\ Len(pushed) <= headView - 1 + Capacity - 1
              /\ ppc # "idle" => Len(pushed) < headView - 1 + Capacity - 1

SlotsHoldItems ==
    /\ \A n \in (Len(popped) + 1)..Len(pushed) :
          \/ buffer[IndexAt(n - 1)] = pushed[n]
          \/ cpc = "publish" /\ n = Len(popped) + 1
    /\ ppc # "idle" => pitem \in Items
    /\ ppc = "publish" => buffer[IndexAt(Len(pushed))] = pitem
    /\ cpc = "publish" => citem = pushed[Len(popped) + 1]

PoppedInOrder == \A n \in 1..Len(popped) : popped[n] = pushed[n]

\* The inductive invariant of the ring: the parts above hold together in every
\* state that interleaved try_push and try_pop calls reach.
RingInvariant == TypeOK /\ LogsCount /\ ViewsBound /\ SlotsHoldItems /\ PoppedInOrder

FIFO == INSTANCE BoundedFIFO
          WITH queue <- SubSeq(pushed, Len(popped) + 1, Len(pushed)),
               delivered <- popped,
               Bound <- Capacity - 1

\* The ring implements a bounded first-in first-out queue whose operations take
\* effect at the store of tail_ and of head_: nothing is lost, duplicated,
\* reordered or read half-written, and no more than capacity() items are held.
ImplementsFIFO == FIFO!Spec

\* Every item a successful try_push accepted is handed out by a later try_pop,
\* as long as the consumer keeps asking.
EveryPushIsPopped ==
    \A n \in 1..MaxPushes : (Len(pushed) >= n) ~> (Len(popped) >= n)
================================================================================
