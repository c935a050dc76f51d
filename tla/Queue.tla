------------------------------- MODULE Queue -------------------------------
(***************************************************************************)
(* queue.c: a ring of void* slots guarded by two counting semaphores and   *)
(* two atomic ticket counters.  Each push and each pop is four steps that  *)
(* interleave with those of other threads:                                 *)
(*    acquire a token, take a ticket, touch the slot, release a token.     *)
(***************************************************************************)
EXTENDS Integers, Sequences, FiniteSets

CONSTANTS Producers,   \* threads that call queue_push / queue_try_push
          Consumers,   \* threads that call queue_pop / queue_try_pop
          Capacity,    \* argument of queue_create
          MaxPush,     \* bound: pushes each producer makes
          IntMax,      \* largest value of a C int (2^31 - 1 in the build)
          NullItem,    \* the null pointer
          Garbage      \* content of a slot nothing was stored in

ASSUME CapacityAssumption == Capacity \in Nat \ {0}
ASSUME MaxPushAssumption  == MaxPush \in Nat
ASSUME IntMaxAssumption   == IntMax \in Nat \ {0}
ASSUME ThreadsAssumption  == /\ IsFiniteSet(Producers)
                             /\ IsFiniteSet(Consumers)
                             /\ Producers \cap Consumers = {}

VARIABLES used_items, free_items,   \* the two semaphore counts
          items,                    \* the ring
          head_index, tail_index,   \* the ticket counters (C ints)
          pc,                       \* where each thread is in its call
          index,                    \* each thread's local "index"
          item,                     \* each consumer's local "item" / result
          sent,                     \* number of returned pushes per producer
          accepted,                 \* last result of queue_try_push
          popped                    \* history: items returned, in that order

sems == <<used_items, free_items>>
ring == <<items, head_index, tail_index>>
queueVars == <<sems, ring, pc, index, item, sent, accepted, popped>>

Threads == Producers \cup Consumers
Slots   == 0 .. Capacity - 1
Items   == Producers \X (0 .. MaxPush - 1)

(* InterlockedIncrement wraps around; C's % truncates towards zero.        *)
Increment(n) == IF n = IntMax THEN -IntMax - 1 ELSE n + 1
Slot(ticket) == IF ticket >= 0 THEN ticket % Capacity
                               ELSE -((-ticket) % Capacity)

(* ReleaseSemaphore fails, and its result is ignored, at the maximum count. *)
Released(count) == IF count < Capacity THEN count + 1 ELSE count

QueueInit == /\ used_items = 0 /\ free_items = Capacity
             /\ items = [s \in Slots |-> Garbage]
             /\ head_index = 0 /\ tail_index = 0
             /\ pc = [t \in Threads |-> "idle"]
             /\ index = [t \in Threads |-> 0]
             /\ item = [c \in Consumers |-> NullItem]
             /\ sent = [p \in Producers |-> 0]
             /\ accepted = [p \in Producers |-> TRUE]
             /\ popped = <<>>

Goto(t, from, to) == pc[t] = from /\ pc' = [pc EXCEPT ![t] = to]

-----------------------------------------------------------------------------
(* queue_push and queue_try_push *)

(* FAULT: a count that is decremented but not waited for. *)
PushAcquireNoWait(p) == /\ sent[p] < MaxPush
                        /\ free_items' = free_items - 1
                        /\ Goto(p, "idle", "acquired")
                        /\ UNCHANGED <<used_items, ring, index, item, sent, accepted, popped>>

PushAcquire(p) == /\ sent[p] < MaxPush
                  /\ free_items > 0
                  /\ free_items' = free_items - 1
                  /\ Goto(p, "idle", "acquired")
                  /\ UNCHANGED <<used_items, ring, index, item, sent, accepted, popped>>

PushTicket(p) == /\ Goto(p, "acquired", "ticket")
                 /\ index' = [index EXCEPT ![p] = Slot(tail_index)]
                 /\ tail_index' = Increment(tail_index)
                 /\ UNCHANGED <<sems, items, head_index, item, sent, accepted, popped>>

(* A store outside the array leaves the ring as it is and corrupts         *)
(* something else.                                                         *)
PushStore(p) == /\ Goto(p, "ticket", "touched")
                /\ items' = IF index[p] \in Slots
                            THEN [items EXCEPT ![index[p]] = <<p, sent[p]>>]
                            ELSE items
                /\ UNCHANGED <<sems, head_index, tail_index, index, item, sent, accepted, popped>>

(* FAULT: the pusher returns without releasing used_items. *)
PushReleaseForgotten(p) == /\ Goto(p, "touched", "idle")
                           /\ sent' = [sent EXCEPT ![p] = @ + 1]
                           /\ accepted' = [accepted EXCEPT ![p] = TRUE]
                           /\ UNCHANGED <<sems, ring, index, item, popped>>

PushRelease(p) == /\ Goto(p, "touched", "idle")
                  /\ used_items' = Released(used_items)
                  /\ sent' = [sent EXCEPT ![p] = @ + 1]
                  /\ accepted' = [accepted EXCEPT ![p] = TRUE]
                  /\ UNCHANGED <<free_items, ring, index, item, popped>>

TryPushFull(p) == /\ pc[p] = "idle"
                  /\ sent[p] < MaxPush
                  /\ free_items = 0
                  /\ accepted' = [accepted EXCEPT ![p] = FALSE]
                  /\ UNCHANGED <<sems, ring, pc, index, item, sent, popped>>

-----------------------------------------------------------------------------
(* queue_pop and queue_try_pop *)

PopAcquire(c) == /\ used_items > 0
                 /\ used_items' = used_items - 1
                 /\ Goto(c, "idle", "acquired")
                 /\ UNCHANGED <<free_items, ring, index, item, sent, accepted, popped>>

PopTicket(c) == /\ Goto(c, "acquired", "ticket")
                /\ index' = [index EXCEPT ![c] = Slot(head_index)]
                /\ head_index' = Increment(head_index)
                /\ UNCHANGED <<sems, items, tail_index, item, sent, accepted, popped>>

PopLoad(c) == /\ Goto(c, "ticket", "touched")
              /\ item' = [item EXCEPT ![c] = IF index[c] \in Slots
                                             THEN items[index[c]] ELSE Garbage]
              /\ UNCHANGED <<sems, ring, index, sent, accepted, popped>>

PopRelease(c) == /\ Goto(c, "touched", "idle")
                 /\ free_items' = Released(free_items)
                 /\ popped' = Append(popped, item[c])
                 /\ UNCHANGED <<used_items, ring, index, item, sent, accepted>>

(* FAULT: NULL is returned whenever a producer is in the middle of a push. *)
TryPopEmptyTooSoon(c) == /\ pc[c] = "idle"
                         /\ \E p \in Producers : pc[p] # "idle"
                         /\ item' = [item EXCEPT ![c] = NullItem]
                         /\ UNCHANGED <<sems, ring, pc, index, sent, accepted, popped>>

TryPopEmpty(c) == /\ pc[c] = "idle"
                  /\ used_items = 0
                  /\ item' = [item EXCEPT ![c] = NullItem]
                  /\ UNCHANGED <<sems, ring, pc, index, sent, accepted, popped>>

-----------------------------------------------------------------------------
PushStep(p) == PushAcquire(p) \/ PushTicket(p) \/ PushStore(p) \/ PushRelease(p)
PopStep(c)  == PopAcquire(c) \/ PopTicket(c) \/ PopLoad(c) \/ PopRelease(c)

QueueNext == \/ \E p \in Producers : PushStep(p) \/ TryPushFull(p)
             \/ \E c \in Consumers : PopStep(c) \/ TryPopEmpty(c)

QueueSpec == QueueInit /\ [][QueueNext]_queueVars

(* The scheduler runs every thread that is not blocked.  Only the blocking *)
(* calls are assumed to be made again; a failing try_ call owes nothing.   *)
QueueFairness == /\ \A p \in Producers : WF_queueVars(PushStep(p))
                 /\ \A c \in Consumers : WF_queueVars(PopStep(c))

QueueFairSpec == QueueSpec /\ QueueFairness

-----------------------------------------------------------------------------
(* Types of the state, counters within a C int. *)
TypeOK == /\ used_items \in 0 .. Capacity
          /\ free_items \in 0 .. Capacity
          /\ items \in [Slots -> Items \cup {Garbage}]
          /\ head_index \in -IntMax - 1 .. IntMax
          /\ tail_index \in -IntMax - 1 .. IntMax
          /\ pc \in [Threads -> {"idle", "acquired", "ticket", "touched"}]
          /\ index \in [Threads -> -Capacity .. Capacity]
          /\ item \in [Consumers -> Items \cup {Garbage, NullItem}]
          /\ sent \in [Producers -> 0 .. MaxPush]
          /\ accepted \in [Producers -> BOOLEAN]
          /\ popped \in Seq(Items \cup {Garbage, NullItem})

(* Threads inside a call: each of them holds one token of the two           *)
(* semaphores it took (queue.c:39/47) and has not given on (queue.c:42/50). *)
InCall == {t \in Threads : pc[t] # "idle"}

(* Tokens are conserved: a slot is free, used, or held by one call in      *)
(* progress.  So the two counts never pass the maximum given to            *)
(* CreateSemaphore, and no ReleaseSemaphore (queue.c:42, 50) fails unseen. *)
TokenConservation == used_items + free_items + Cardinality(InCall) = Capacity

(* While a thread is between its ticket and its release, no other thread   *)
(* is at the same slot: neither an overwrite of an item not yet read nor a *)
(* read of an item not yet written.  (queue.c:40-41 against 48-49)         *)
Touching(t, s) == pc[t] \in {"ticket", "touched"} /\ index[t] = s
SlotExclusive ==
  \A t, u \in Threads, s \in Slots : Touching(t, s) /\ Touching(u, s) => t = u

(* Every pop returned an item that some producer pushed, and no item was   *)
(* returned twice.  ("Safe for multiple threads to push at the same time", *)
(* queue.h:20 and :25)                                                     *)
EachItemPoppedOnce ==
  /\ \A i \in DOMAIN popped : popped[i] \in Items
  /\ \A i, j \in DOMAIN popped : popped[i] = popped[j] => i = j

(* Every pushed item is returned by a pop in the end: no lost wake-up and  *)
(* no token stuck in a semaphore.  (queue_push / queue_pop)                *)
EveryItemPopped ==
  \A p \in Producers, n \in 1 .. MaxPush :
    (sent[p] = n) ~> \E i \in DOMAIN popped : popped[i] = <<p, n - 1>>

-----------------------------------------------------------------------------
(* The abstract queue this one implements when one thread pushes and one   *)
(* pops, or when Capacity is 1.  A push takes effect when it releases      *)
(* used_items, a pop when it acquires it; the content is the run of        *)
(* used_items slots after those already promised to a pop.                 *)
Claiming == {c \in Consumers : pc[c] = "acquired"}
Content  == [i \in 1 .. used_items |->
               items[(head_index + Cardinality(Claiming) + i - 1) % Capacity]]
Result   == [c \in Consumers |->
               CASE pc[c] = "acquired" -> items[head_index % Capacity]
                 [] pc[c] = "ticket"   -> items[index[c]]
                 [] OTHER              -> item[c]]

Fifo == INSTANCE BoundedFifo WITH q <- Content, out <- Result, NULL <- NullItem

(* queue.c implements the FIFO queue.h describes: order, blocking, the     *)
(* meaning of "empty", and how early "full" may be reported.               *)
ImplementsFifo == Fifo!Spec
=============================================================================
