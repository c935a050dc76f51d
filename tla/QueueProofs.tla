---------------------------- MODULE QueueProofs ----------------------------
(***************************************************************************)
(* Proofs about Queue for every number of threads, capacity and int width. *)
(* TokenConservation holds of any use of the queue; the slots are safe     *)
(* from overwriting only with one pushing and one popping thread.          *)
(***************************************************************************)
EXTENDS Queue, FiniteSetTheorems, TLAPS

-----------------------------------------------------------------------------
(* Typing, and conservation of semaphore tokens *)

(* A producer inside a call has a push left to make. *)
Pushing == \A p \in Producers : pc[p] # "idle" => sent[p] < MaxPush

TokenInv == TypeOK /\ Pushing /\ TokenConservation

(* Entering a call moves a thread into InCall, which was finite.           *)
LEMMA InCallEnter ==
  ASSUME NEW t \in Threads, NEW s \in {"acquired", "ticket", "touched"},
         pc \in [Threads -> {"idle", "acquired", "ticket", "touched"}],
         Goto(t, "idle", s)
  PROVE  /\ Cardinality(InCall') = Cardinality(InCall) + 1
         /\ Cardinality(InCall) \in Nat
<1>1. IsFiniteSet(Threads) BY ThreadsAssumption, FS_Union DEF Threads
<1>2. InCall' = InCall \cup {t} /\ t \notin InCall BY DEF InCall, Goto
<1>3. IsFiniteSet(InCall) BY <1>1, FS_Subset DEF InCall
<1>4. QED BY <1>2, <1>3, FS_AddElement, FS_CardinalityType

(* Leaving a call takes a thread out of InCall.                            *)
LEMMA InCallLeave ==
  ASSUME NEW t \in Threads,
         pc \in [Threads -> {"idle", "acquired", "ticket", "touched"}],
         Goto(t, "touched", "idle")
  PROVE  /\ Cardinality(InCall') = Cardinality(InCall) - 1
         /\ Cardinality(InCall) \in Nat
         /\ Cardinality(InCall') \in Nat
<1>1. IsFiniteSet(Threads) BY ThreadsAssumption, FS_Union DEF Threads
<1>2. InCall' = InCall \ {t} /\ t \in InCall BY DEF InCall, Goto
<1>3. IsFiniteSet(InCall) BY <1>1, FS_Subset DEF InCall
<1>4. IsFiniteSet(InCall') BY <1>2, <1>3, FS_Subset
<1>5. QED BY <1>2, <1>3, <1>4, FS_RemoveElement, FS_CardinalityType

(* A step between two points inside a call leaves InCall alone.            *)
LEMMA InCallStay ==
  ASSUME NEW t \in Threads, NEW from, NEW to, from # "idle", to # "idle",
         pc \in [Threads -> {"idle", "acquired", "ticket", "touched"}],
         Goto(t, from, to)
  PROVE  InCall' = InCall
BY DEF InCall, Goto

(* The slot a ticket selects is at most Capacity away from slot 0.         *)
LEMMA SlotType ==
  ASSUME NEW n \in Int
  PROVE  Slot(n) \in -Capacity .. Capacity
<1>1. \A m \in Nat : m % Capacity \in 0 .. Capacity - 1 BY CapacityAssumption
<1>2. CASE n >= 0 BY <1>1, <1>2, CapacityAssumption DEF Slot
<1>3. CASE n < 0
  <2>1. -n \in Nat /\ Slot(n) = -((-n) % Capacity) BY <1>3 DEF Slot
  <2>2. (-n) % Capacity \in 0 .. Capacity - 1 BY <1>1, <2>1
  <2>3. QED BY <2>1, <2>2, CapacityAssumption
<1>4. QED BY <1>2, <1>3

LEMMA IncrementType ==
  ASSUME NEW n \in -IntMax - 1 .. IntMax
  PROVE  Increment(n) \in -IntMax - 1 .. IntMax
BY IntMaxAssumption DEF Increment

LEMMA InitTokenInv == QueueInit => TokenInv
<1> SUFFICES ASSUME QueueInit PROVE TokenInv OBVIOUS
<1> USE CapacityAssumption, MaxPushAssumption, IntMaxAssumption
<1>1. TypeOK BY DEF QueueInit, TypeOK
<1>2. Pushing BY DEF QueueInit, Pushing, Threads
<1>3. InCall = {} BY DEF QueueInit, InCall
<1>4. TokenConservation BY <1>3, FS_EmptySet DEF QueueInit, TokenConservation
<1>5. QED BY <1>1, <1>2, <1>4 DEF TokenInv

LEMMA NextTokenInv == TokenInv /\ [QueueNext]_queueVars => TokenInv'
<1> SUFFICES ASSUME TokenInv, [QueueNext]_queueVars PROVE TokenInv' OBVIOUS
<1> USE CapacityAssumption, MaxPushAssumption DEF TokenInv
<1> DEFINE Places == {"idle", "acquired", "ticket", "touched"}
<1>0. /\ Producers \subseteq Threads /\ Consumers \subseteq Threads
      /\ pc \in [Threads -> Places]
  BY DEF Threads, TypeOK
<1>1. ASSUME NEW p \in Producers, PushAcquire(p) PROVE TokenInv'
  <2>1. TypeOK' BY <1>0, <1>1 DEF PushAcquire, Goto, TypeOK, sems, ring
  <2>2. Pushing' BY <1>0, <1>1 DEF PushAcquire, Goto, Pushing
  <2>3. Cardinality(InCall') = Cardinality(InCall) + 1 /\ Cardinality(InCall) \in Nat
    BY <1>0, <1>1, InCallEnter DEF PushAcquire
  <2>4. TokenConservation' BY <1>1, <2>3 DEF PushAcquire, TokenConservation, TypeOK
  <2>5. QED BY <2>1, <2>2, <2>4
<1>2. ASSUME NEW p \in Producers, PushTicket(p) PROVE TokenInv'
  <2>0. tail_index \in Int BY IntMaxAssumption DEF TypeOK
  <2>1. Slot(tail_index) \in -Capacity .. Capacity BY <2>0, SlotType
  <2>2. Increment(tail_index) \in -IntMax - 1 .. IntMax BY IncrementType DEF TypeOK
  <2>3. TypeOK'
    BY <1>0, <1>2, <2>1, <2>2 DEF PushTicket, Goto, TypeOK, sems
  <2>4. Pushing' BY <1>0, <1>2 DEF PushTicket, Goto, Pushing
  <2>5. InCall' = InCall BY <1>0, <1>2, InCallStay DEF PushTicket
  <2>6. TokenConservation' BY <1>2, <2>5 DEF PushTicket, TokenConservation, sems
  <2>7. QED BY <2>3, <2>4, <2>6
<1>3. ASSUME NEW p \in Producers, PushStore(p) PROVE TokenInv'
  <2>1. sent[p] < MaxPush BY <1>0, <1>3 DEF PushStore, Goto, Pushing
  <2>2. <<p, sent[p]>> \in Items BY <2>1 DEF Items, TypeOK
  <2>3. items' \in [Slots -> Items \cup {Garbage}]
    BY <1>3, <2>2 DEF PushStore, TypeOK
  <2>4. TypeOK'
    BY <1>0, <1>3, <2>3 DEF PushStore, Goto, TypeOK, sems
  <2>5. Pushing' BY <1>0, <1>3 DEF PushStore, Goto, Pushing
  <2>6. InCall' = InCall BY <1>0, <1>3, InCallStay DEF PushStore
  <2>7. TokenConservation' BY <1>3, <2>6 DEF PushStore, TokenConservation, sems
  <2>8. QED BY <2>4, <2>5, <2>7
<1>4. ASSUME NEW p \in Producers, PushRelease(p) PROVE TokenInv'
  <2>1. /\ Cardinality(InCall') = Cardinality(InCall) - 1
        /\ Cardinality(InCall) \in Nat /\ Cardinality(InCall') \in Nat
    BY <1>0, <1>4, InCallLeave DEF PushRelease
  <2>2. sent[p] < MaxPush BY <1>0, <1>4 DEF PushRelease, Goto, Pushing
  <2>3. used_items < Capacity BY <2>1 DEF TokenConservation, TypeOK
  <2>4. used_items' = used_items + 1 BY <1>4, <2>3 DEF PushRelease, Released
  <2>5. TypeOK'
    BY <1>0, <1>4, <2>2, <2>3, <2>4 DEF PushRelease, Goto, TypeOK, ring
  <2>6. Pushing' BY <1>0, <1>4 DEF PushRelease, Goto, Pushing
  <2>7. TokenConservation'
    BY <1>4, <2>1, <2>4 DEF PushRelease, TokenConservation, TypeOK
  <2>8. QED BY <2>5, <2>6, <2>7
<1>5. ASSUME NEW p \in Producers, TryPushFull(p) PROVE TokenInv'
  BY <1>0, <1>5 DEF TryPushFull, TypeOK, Pushing, TokenConservation, InCall, sems, ring
<1>6. ASSUME NEW c \in Consumers, PopAcquire(c) PROVE TokenInv'
  <2>1. TypeOK' BY <1>0, <1>6 DEF PopAcquire, Goto, TypeOK, ring
  <2>2. Pushing' BY <1>0, <1>6, ThreadsAssumption DEF PopAcquire, Goto, Pushing
  <2>3. Cardinality(InCall') = Cardinality(InCall) + 1 /\ Cardinality(InCall) \in Nat
    BY <1>0, <1>6, InCallEnter DEF PopAcquire
  <2>4. TokenConservation' BY <1>6, <2>3 DEF PopAcquire, TokenConservation, TypeOK
  <2>5. QED BY <2>1, <2>2, <2>4
<1>7. ASSUME NEW c \in Consumers, PopTicket(c) PROVE TokenInv'
  <2>0. head_index \in Int BY IntMaxAssumption DEF TypeOK
  <2>1. Slot(head_index) \in -Capacity .. Capacity BY <2>0, SlotType
  <2>2. Increment(head_index) \in -IntMax - 1 .. IntMax BY IncrementType DEF TypeOK
  <2>3. TypeOK'
    BY <1>0, <1>7, <2>1, <2>2 DEF PopTicket, Goto, TypeOK, sems
  <2>4. Pushing' BY <1>0, <1>7, ThreadsAssumption DEF PopTicket, Goto, Pushing
  <2>5. InCall' = InCall BY <1>0, <1>7, InCallStay DEF PopTicket
  <2>6. TokenConservation' BY <1>7, <2>5 DEF PopTicket, TokenConservation, sems
  <2>7. QED BY <2>3, <2>4, <2>6
<1>8. ASSUME NEW c \in Consumers, PopLoad(c) PROVE TokenInv'
  <2>1. item' \in [Consumers -> Items \cup {Garbage, NullItem}]
    BY <1>8 DEF PopLoad, TypeOK
  <2>2. TypeOK' BY <1>0, <1>8, <2>1 DEF PopLoad, Goto, TypeOK, sems, ring
  <2>3. Pushing' BY <1>0, <1>8, ThreadsAssumption DEF PopLoad, Goto, Pushing
  <2>4. InCall' = InCall BY <1>0, <1>8, InCallStay DEF PopLoad
  <2>5. TokenConservation' BY <1>8, <2>4 DEF PopLoad, TokenConservation, sems
  <2>6. QED BY <2>2, <2>3, <2>5
<1>9. ASSUME NEW c \in Consumers, PopRelease(c) PROVE TokenInv'
  <2>1. /\ Cardinality(InCall') = Cardinality(InCall) - 1
        /\ Cardinality(InCall) \in Nat /\ Cardinality(InCall') \in Nat
    BY <1>0, <1>9, InCallLeave DEF PopRelease
  <2>2. free_items < Capacity BY <2>1 DEF TokenConservation, TypeOK
  <2>3. free_items' = free_items + 1 BY <1>9, <2>2 DEF PopRelease, Released
  <2>4. popped' \in Seq(Items \cup {Garbage, NullItem}) BY <1>9 DEF PopRelease, TypeOK
  <2>5. TypeOK'
    BY <1>0, <1>9, <2>2, <2>3, <2>4 DEF PopRelease, Goto, TypeOK, ring
  <2>6. Pushing' BY <1>0, <1>9, ThreadsAssumption DEF PopRelease, Goto, Pushing
  <2>7. TokenConservation'
    BY <1>9, <2>1, <2>3 DEF PopRelease, TokenConservation, TypeOK
  <2>8. QED BY <2>5, <2>6, <2>7
<1>10. ASSUME NEW c \in Consumers, TryPopEmpty(c) PROVE TokenInv'
  BY <1>0, <1>10 DEF TryPopEmpty, TypeOK, Pushing, TokenConservation, InCall, sems, ring
<1>11. CASE UNCHANGED queueVars
  BY <1>11 DEF queueVars, sems, ring, TypeOK, Pushing, TokenConservation, InCall
<1>12. QED
  BY <1>1, <1>2, <1>3, <1>4, <1>5, <1>6, <1>7, <1>8, <1>9, <1>10, <1>11
  DEF QueueNext, PushStep, PopStep

(* Whatever calls any number of threads make, the state keeps its types    *)
(* and no semaphore token is lost or made up, so no ReleaseSemaphore of    *)
(* queue.c:42 or 50 ever exceeds its maximum count.                        *)
THEOREM TokensConserved == QueueSpec => [](TypeOK /\ TokenConservation)
<1>1. QueueSpec => []TokenInv BY InitTokenInv, NextTokenInv, PTL DEF QueueSpec
<1>2. TokenInv => TypeOK /\ TokenConservation BY DEF TokenInv
<1>3. QED BY <1>1, <1>2, PTL

-----------------------------------------------------------------------------
(* One producer p and one consumer c: the ring is exact *)

Busy(t)     == IF pc[t] # "idle" THEN 1 ELSE 0
Ticketed(t) == IF pc[t] \in {"ticket", "touched"} THEN 1 ELSE 0

(* The counters say how far p and c are. *)
Counters(p, c) ==
  /\ tail_index = sent[p] + Ticketed(p)
  /\ head_index = Len(popped) + Ticketed(c)
  /\ used_items = sent[p] - Len(popped) - Busy(c)
  /\ free_items = Capacity - (sent[p] - Len(popped)) - Busy(p)

(* The slots between c and p hold the items of p in order, each thread is  *)
(* at its own slot, and what came out is what went in.                     *)
Contents(p, c) ==
  /\ pc[p] \in {"ticket", "touched"} => index[p] = sent[p] % Capacity
  /\ pc[c] \in {"ticket", "touched"} => index[c] = Len(popped) % Capacity
  /\ \A k \in Len(popped) .. sent[p] - 1 : items[k % Capacity] = <<p, k>>
  /\ pc[p] = "touched" => items[sent[p] % Capacity] = <<p, sent[p]>>
  /\ pc[c] = "touched" => item[c] = <<p, Len(popped)>>
  /\ \A i \in 1 .. Len(popped) : popped[i] = <<p, i - 1>>

SpscInv(p, c) == Counters(p, c) /\ Contents(p, c)

LEMMA MulStep ==
  ASSUME NEW C \in Nat \ {0}, NEW d \in Int, d >= 1 PROVE C * d >= C
OBVIOUS

(* Tickets less than a whole ring apart select different slots.            *)
LEMMA ModDistinct ==
  ASSUME NEW a \in Nat, NEW b \in Nat, a < b, b - a < Capacity
  PROVE  a % Capacity # b % Capacity
<1> USE CapacityAssumption
<1> SUFFICES ASSUME a % Capacity = b % Capacity PROVE FALSE OBVIOUS
<1> DEFINE d == (b \div Capacity) - (a \div Capacity)
<1>1. /\ a \div Capacity \in Int /\ b \div Capacity \in Int
      /\ a % Capacity \in Int /\ b % Capacity \in Int
      /\ a = Capacity * (a \div Capacity) + (a % Capacity)
      /\ b = Capacity * (b \div Capacity) + (b % Capacity)
  OBVIOUS
<1>2. b - a = Capacity * (b \div Capacity) - Capacity * (a \div Capacity) BY <1>1
<1>3. Capacity * (b \div Capacity) - Capacity * (a \div Capacity) = Capacity * d
  BY <1>1
<1>4. d \in Int BY <1>1
<1> HIDE DEF d
<1>5. CASE d >= 1
  <2>1. Capacity * d >= Capacity BY <1>4, <1>5, MulStep
  <2>2. QED BY <1>2, <1>3, <2>1
<1>6. CASE d <= 0
  <2>1. Capacity * d <= 0 BY <1>4, <1>6
  <2>2. QED BY <1>2, <1>3, <2>1
<1>7. QED BY <1>4, <1>5, <1>6

(* A slot number picked from a natural ticket is a slot of the ring.       *)
LEMMA SlotOfNat ==
  ASSUME NEW n \in Nat
  PROVE  Slot(n) = n % Capacity /\ n % Capacity \in Slots
BY CapacityAssumption DEF Slot, Slots

LEMMA InitSpsc ==
  ASSUME NEW p \in Producers, NEW c \in Consumers, QueueInit
  PROVE  SpscInv(p, c)
<1>1. p \in Threads /\ c \in Threads BY DEF Threads
<1>2. Counters(p, c) BY <1>1, CapacityAssumption DEF QueueInit, Counters, Busy, Ticketed
<1>3. Contents(p, c) BY <1>1 DEF QueueInit, Contents
<1>4. QED BY <1>2, <1>3 DEF SpscInv

LEMMA NextSpsc ==
  ASSUME NEW p \in Producers, NEW c \in Consumers,
         Producers = {p}, Consumers = {c}, MaxPush <= IntMax,
         TokenInv, SpscInv(p, c), [QueueNext]_queueVars
  PROVE  SpscInv(p, c)'
<1> DEFINE n == sent[p]
           m == Len(popped)
<1>1. /\ p \in Threads /\ c \in Threads /\ p # c
      /\ pc \in [Threads -> {"idle", "acquired", "ticket", "touched"}]
      /\ index \in [Threads -> -Capacity .. Capacity]
  BY ThreadsAssumption DEF TokenInv, TypeOK, Threads
<1>2. /\ sent \in [Producers -> 0 .. MaxPush]
      /\ items \in [Slots -> Items \cup {Garbage}]
      /\ item \in [Consumers -> Items \cup {Garbage, NullItem}]
      /\ popped \in Seq(Items \cup {Garbage, NullItem})
  BY DEF TokenInv, TypeOK
<1>3. /\ n \in Nat /\ m \in Nat /\ Capacity \in Nat \ {0}
      /\ used_items \in Nat /\ free_items \in Nat
      /\ Busy(p) \in {0, 1} /\ Busy(c) \in {0, 1}
      /\ Ticketed(p) \in {0, 1} /\ Ticketed(c) \in {0, 1}
  BY <1>2, CapacityAssumption, MaxPushAssumption DEF TokenInv, TypeOK, Busy, Ticketed
<1>4. pc[p] # "idle" => n < MaxPush BY DEF TokenInv, Pushing
<1>5. /\ tail_index = n + Ticketed(p) /\ head_index = m + Ticketed(c)
      /\ used_items = n - m - Busy(c)
      /\ free_items = Capacity - (n - m) - Busy(p)
  BY DEF SpscInv, Counters
<1>6. CASE PushAcquire(p)
  <2>1. Counters(p, c)'
    <3>1. /\ Busy(p) = 0 /\ Busy(p)' = 1 /\ Busy(c)' = Busy(c)
          /\ Ticketed(p)' = Ticketed(p) /\ Ticketed(c)' = Ticketed(c)
      BY <1>1, <1>6 DEF PushAcquire, Goto, Busy, Ticketed
    <3>2. QED BY <1>3, <1>5, <1>6, <3>1 DEF PushAcquire, Counters, ring
  <2>2. Contents(p, c)'
    BY <1>1, <1>6 DEF PushAcquire, Goto, SpscInv, Contents, ring
  <2>3. QED BY <2>1, <2>2 DEF SpscInv
<1>7. CASE PushTicket(p)
  <2>1. pc[p] = "acquired" /\ tail_index = n /\ n < MaxPush
    BY <1>3, <1>4, <1>5, <1>7 DEF PushTicket, Goto, Ticketed
  <2>2. Slot(tail_index) = n % Capacity BY <1>3, <2>1, SlotOfNat
  <2>3. tail_index' = n + 1
    BY <1>3, <1>7, <2>1, MaxPushAssumption, IntMaxAssumption DEF PushTicket, Increment
  <2>4. Counters(p, c)'
    BY <1>1, <1>3, <1>5, <1>7, <2>3 DEF PushTicket, Goto, Counters, Busy, Ticketed, sems
  <2>5. Contents(p, c)'
    BY <1>1, <1>7, <2>2 DEF PushTicket, Goto, SpscInv, Contents
  <2>6. QED BY <2>4, <2>5 DEF SpscInv
<1>8. CASE PushStore(p)
  <2>1. pc[p] = "ticket" /\ index[p] = n % Capacity /\ n % Capacity \in Slots
    BY <1>3, <1>8, SlotOfNat DEF PushStore, Goto, SpscInv, Contents
  <2>2. items' = [items EXCEPT ![n % Capacity] = <<p, n>>]
    BY <1>8, <2>1 DEF PushStore
  <2>3. n - m < Capacity BY <1>3, <1>5, <2>1 DEF Busy
  <2>4. \A k \in m .. n - 1 : items'[k % Capacity] = <<p, k>>
    <3> TAKE k \in m .. n - 1
    <3>1. k \in Nat /\ k < n /\ n - k < Capacity BY <1>3, <2>3
    <3>2. k % Capacity # n % Capacity BY <1>3, <3>1, ModDistinct
    <3>3. k % Capacity \in Slots BY <3>1, SlotOfNat
    <3>4. items[k % Capacity] = <<p, k>> BY DEF SpscInv, Contents
    <3>5. QED BY <1>2, <2>2, <3>2, <3>3, <3>4
  <2>5. items'[n % Capacity] = <<p, n>> BY <1>2, <2>1, <2>2
  <2>6. Counters(p, c)'
    BY <1>1, <1>3, <1>5, <1>8 DEF PushStore, Goto, Counters, Busy, Ticketed, sems
  <2>7. Contents(p, c)'
    BY <1>1, <1>8, <2>4, <2>5 DEF PushStore, Goto, SpscInv, Contents
  <2>8. QED BY <2>6, <2>7 DEF SpscInv
<1>9. CASE PushRelease(p)
  <2>1. pc[p] = "touched" BY <1>9 DEF PushRelease, Goto
  <2>2. used_items < Capacity BY <1>3, <1>5, <2>1 DEF Busy
  <2>3. used_items' = used_items + 1 BY <1>9, <2>2 DEF PushRelease, Released
  <2>4. sent'[p] = n + 1 BY <1>2, <1>9 DEF PushRelease
  <2>5. \A k \in m .. n : items[k % Capacity] = <<p, k>>
    <3> TAKE k \in m .. n
    <3>1. CASE k = n BY <2>1, <3>1 DEF SpscInv, Contents
    <3>2. CASE k \in m .. n - 1 BY <3>2 DEF SpscInv, Contents
    <3>3. QED BY <1>3, <3>1, <3>2
  <2>6. Counters(p, c)'
    <3>1. /\ Busy(p) = 1 /\ Busy(p)' = 0 /\ Busy(c)' = Busy(c)
          /\ Ticketed(p) = 1 /\ Ticketed(p)' = 0 /\ Ticketed(c)' = Ticketed(c)
      BY <1>1, <1>9 DEF PushRelease, Goto, Busy, Ticketed
    <3>2. UNCHANGED <<free_items, head_index, tail_index, popped>>
      BY <1>9 DEF PushRelease, ring
    <3>3. n + Ticketed(p) = n + 1 + 0 BY <1>3, <3>1
    <3>4. tail_index' = sent'[p] + Ticketed(p)' BY <1>5, <2>4, <3>1, <3>2, <3>3
    <3>5. head_index' = Len(popped)' + Ticketed(c)' BY <1>5, <3>1, <3>2
    <3> DEFINE d == n + 1 - m
    <3>6. d \in Int /\ sent'[p] - Len(popped)' = d BY <1>3, <2>4, <3>2
    <3>7. used_items' = d - Busy(c)'
      <4>1. n - m - Busy(c) + 1 = d - Busy(c) BY <1>3
      <4>2. used_items' = n - m - Busy(c) + 1 BY <1>5, <2>3
      <4>3. QED BY <3>1, <4>1, <4>2
    <3>8. free_items' = Capacity - d - Busy(p)'
      <4>1. \A x, y, z \in Int : x - (y - z) - 1 = x - (y + 1 - z) - 0 OBVIOUS
      <4>2. n \in Int /\ m \in Int /\ Capacity \in Int BY <1>3
      <4>3. QED BY <1>5, <3>1, <3>2, <4>1, <4>2
    <3> HIDE DEF d
    <3>9. used_items' = sent'[p] - Len(popped)' - Busy(c)' BY <3>6, <3>7
    <3>10. free_items' = Capacity - (sent'[p] - Len(popped)') - Busy(p)' BY <3>6, <3>8
    <3>11. QED BY <3>4, <3>5, <3>9, <3>10 DEF Counters
  <2>7. sent'[p] - 1 = n BY <1>3, <2>4
  <2>8. Contents(p, c)'
    BY <1>1, <1>9, <2>5, <2>7 DEF PushRelease, Goto, SpscInv, Contents, ring
  <2>9. QED BY <2>6, <2>8 DEF SpscInv
<1>10. CASE TryPushFull(p)
  BY <1>10 DEF TryPushFull, SpscInv, Counters, Contents, Busy, Ticketed, sems, ring
<1>11. CASE PopAcquire(c)
  <2>1. Counters(p, c)'
    BY <1>1, <1>3, <1>5, <1>11 DEF PopAcquire, Goto, Counters, Busy, Ticketed, ring
  <2>2. Contents(p, c)'
    BY <1>1, <1>11 DEF PopAcquire, Goto, SpscInv, Contents, ring
  <2>3. QED BY <2>1, <2>2 DEF SpscInv
<1>12. CASE PopTicket(c)
  <2>1. pc[c] = "acquired" /\ head_index = m /\ m < n
    BY <1>3, <1>5, <1>12 DEF PopTicket, Goto, Busy, Ticketed
  <2>2. Slot(head_index) = m % Capacity BY <1>3, <2>1, SlotOfNat
  <2>3. n <= MaxPush BY <1>2, <1>3, MaxPushAssumption
  <2>4. head_index' = m + 1
    BY <1>3, <1>12, <2>1, <2>3, MaxPushAssumption, IntMaxAssumption
    DEF PopTicket, Increment
  <2>5. Counters(p, c)'
    BY <1>1, <1>3, <1>5, <1>12, <2>4 DEF PopTicket, Goto, Counters, Busy, Ticketed, sems
  <2>6. Contents(p, c)'
    BY <1>1, <1>12, <2>2 DEF PopTicket, Goto, SpscInv, Contents
  <2>7. QED BY <2>5, <2>6 DEF SpscInv
<1>13. CASE PopLoad(c)
  <2>1. pc[c] = "ticket" /\ m < n BY <1>3, <1>5, <1>13 DEF PopLoad, Goto, Busy
  <2>2. index[c] = m % Capacity /\ m % Capacity \in Slots
    BY <1>3, <2>1, SlotOfNat DEF SpscInv, Contents
  <2>3. m \in m .. n - 1 BY <1>3, <2>1
  <2>4. items[m % Capacity] = <<p, m>> BY <2>3 DEF SpscInv, Contents
  <2>5. item'[c] = <<p, m>> BY <1>2, <1>13, <2>2, <2>4 DEF PopLoad
  <2>6. Counters(p, c)'
    BY <1>1, <1>3, <1>5, <1>13 DEF PopLoad, Goto, Counters, Busy, Ticketed, sems, ring
  <2>7. Contents(p, c)'
    BY <1>1, <1>13, <2>5 DEF PopLoad, Goto, SpscInv, Contents, sems, ring
  <2>8. QED BY <2>6, <2>7 DEF SpscInv
<1>14. CASE PopRelease(c)
  <2>1. pc[c] = "touched" BY <1>14 DEF PopRelease, Goto
  <2>2. item[c] = <<p, m>> BY <2>1 DEF SpscInv, Contents
  <2>3. free_items < Capacity BY <1>3, <1>5, <2>1 DEF Busy
  <2>4. free_items' = free_items + 1 BY <1>14, <2>3 DEF PopRelease, Released
  <2>5. /\ Len(popped') = m + 1
        /\ \A i \in 1 .. m : popped'[i] = popped[i]
        /\ popped'[m + 1] = <<p, m>>
    BY <1>2, <1>3, <1>14, <2>2 DEF PopRelease
  <2>6. \A i \in 1 .. Len(popped') : popped'[i] = <<p, i - 1>>
    <3> TAKE i \in 1 .. Len(popped')
    <3>1. CASE i = m + 1 BY <1>3, <2>5, <3>1
    <3>2. CASE i \in 1 .. m BY <2>5, <3>2 DEF SpscInv, Contents
    <3>3. QED BY <1>3, <2>5, <3>1, <3>2
  <2>7. \A k \in Len(popped') .. n - 1 : items[k % Capacity] = <<p, k>>
    <3> TAKE k \in Len(popped') .. n - 1
    <3>1. k \in m .. n - 1 BY <1>3, <2>5
    <3>2. QED BY <3>1 DEF SpscInv, Contents
  <2>8. Counters(p, c)'
    <3>1. /\ Busy(c) = 1 /\ Busy(c)' = 0 /\ Busy(p)' = Busy(p)
          /\ Ticketed(c) = 1 /\ Ticketed(c)' = 0 /\ Ticketed(p)' = Ticketed(p)
      BY <1>1, <1>14 DEF PopRelease, Goto, Busy, Ticketed
    <3>2. UNCHANGED <<used_items, head_index, tail_index, sent>>
      BY <1>14 DEF PopRelease, ring
    <3>3. /\ m + Ticketed(c) = m + 1 + 0
          /\ n - m - Busy(c) = n - (m + 1) - 0
          /\ Capacity - (n - m) - Busy(p) + 1 = Capacity - (n - (m + 1)) - Busy(p)
      <4>1. \A x, y, z, k \in Int : x - (y - z) - k + 1 = x - (y - (z + 1)) - k OBVIOUS
      <4>2. \A y, z \in Int : y - z - 1 = y - (z + 1) - 0 OBVIOUS
      <4>3. n \in Int /\ m \in Int /\ Capacity \in Int /\ Busy(p) \in Int BY <1>3 DEF Busy
      <4>4. n - m - Busy(c) = n - (m + 1) - 0 BY <3>1, <4>2, <4>3
      <4>5. m + Ticketed(c) = m + 1 + 0 BY <3>1, <4>3
      <4>6. QED BY <4>1, <4>3, <4>4, <4>5
    <3>4. tail_index' = sent'[p] + Ticketed(p)' BY <1>5, <3>1, <3>2
    <3>5. head_index' = Len(popped)' + Ticketed(c)' BY <1>5, <2>5, <3>1, <3>2, <3>3
    <3>6. used_items' = sent'[p] - Len(popped)' - Busy(c)'
      BY <1>5, <2>5, <3>1, <3>2, <3>3
    <3>7. free_items' = Capacity - (sent'[p] - Len(popped)') - Busy(p)'
      BY <1>5, <2>4, <2>5, <3>1, <3>2, <3>3
    <3>8. QED BY <3>4, <3>5, <3>6, <3>7 DEF Counters
  <2>9. Contents(p, c)'
    BY <1>1, <1>14, <2>6, <2>7 DEF PopRelease, Goto, SpscInv, Contents, ring
  <2>10. QED BY <2>8, <2>9 DEF SpscInv
<1>15. CASE TryPopEmpty(c)
  <2>1. Counters(p, c)'
    BY <1>15 DEF TryPopEmpty, SpscInv, Counters, Busy, Ticketed, sems, ring
  <2>2. Contents(p, c)'
    BY <1>1, <1>2, <1>15 DEF TryPopEmpty, SpscInv, Contents, ring
  <2>3. QED BY <2>1, <2>2 DEF SpscInv
<1>16. CASE UNCHANGED queueVars
  BY <1>16 DEF queueVars, sems, ring, SpscInv, Counters, Contents, Busy, Ticketed
<1>17. QED
  BY <1>6, <1>7, <1>8, <1>9, <1>10, <1>11, <1>12, <1>13, <1>14, <1>15, <1>16
  DEF QueueNext, PushStep, PopStep

(* Read and write positions never meet in one slot.                        *)
LEMMA SpscExclusive ==
  ASSUME NEW p \in Producers, NEW c \in Consumers,
         Producers = {p}, Consumers = {c}, TokenInv, SpscInv(p, c)
  PROVE  SlotExclusive
<1> USE CapacityAssumption, MaxPushAssumption
<1>1. /\ sent[p] \in Nat /\ Len(popped) \in Nat /\ used_items \in Nat /\ free_items \in Nat
  BY DEF TokenInv, TypeOK
<1>2. ASSUME pc[p] \in {"ticket", "touched"}, pc[c] \in {"ticket", "touched"}
      PROVE  index[p] # index[c]
  <2>1. Len(popped) < sent[p] /\ sent[p] - Len(popped) < Capacity
    <3>1. Busy(p) = 1 /\ Busy(c) = 1 BY <1>2 DEF Busy
    <3>2. QED BY <1>1, <3>1, CapacityAssumption DEF SpscInv, Counters
  <2>2. sent[p] % Capacity # Len(popped) % Capacity BY <1>1, <2>1, ModDistinct
  <2>3. QED BY <1>2, <2>2 DEF SpscInv, Contents
<1>3. ASSUME NEW t \in Threads, NEW u \in Threads, NEW s \in Slots,
             Touching(t, s), Touching(u, s)
      PROVE  t = u
  <2>1. t \in {p, c} /\ u \in {p, c} BY DEF Threads
  <2>2. QED BY <1>2, <1>3, <2>1 DEF Touching
<1>4. QED BY <1>3 DEF SlotExclusive

(* Items come out once each: the i-th pop returned the i-th push.          *)
LEMMA SpscPoppedOnce ==
  ASSUME NEW p \in Producers, NEW c \in Consumers, TokenInv, SpscInv(p, c)
  PROVE  EachItemPoppedOnce
<1>1. /\ popped \in Seq(Items \cup {Garbage, NullItem})
      /\ sent[p] \in 0 .. MaxPush /\ used_items \in Nat
      /\ DOMAIN popped = 1 .. Len(popped) /\ Len(popped) \in Nat
  BY CapacityAssumption DEF TokenInv, TypeOK
<1>2. Len(popped) <= sent[p] BY <1>1, MaxPushAssumption DEF SpscInv, Counters, Busy
<1>3. \A i \in DOMAIN popped : popped[i] = <<p, i - 1>> BY <1>1 DEF SpscInv, Contents
<1>4. \A i \in DOMAIN popped : popped[i] \in Items
  <2> TAKE i \in DOMAIN popped
  <2>1. i - 1 \in 0 .. MaxPush - 1 BY <1>1, <1>2, MaxPushAssumption
  <2>2. QED BY <1>3, <2>1 DEF Items
<1>5. \A i, j \in DOMAIN popped : popped[i] = popped[j] => i = j BY <1>1, <1>3
<1>6. QED BY <1>4, <1>5 DEF EachItemPoppedOnce

(* With one pushing and one popping thread, and before the counters of     *)
(* queue.c wrap around, no slot is ever touched by both threads at once    *)
(* and every pop returns a pushed item exactly once, whatever the          *)
(* capacity and the interleaving.                                          *)
THEOREM SpscSafe ==
  ASSUME NEW CONSTANT p \in Producers, NEW CONSTANT c \in Consumers,
         Producers = {p}, Consumers = {c}, MaxPush <= IntMax
  PROVE  QueueSpec => [](SlotExclusive /\ EachItemPoppedOnce)
<1>1. QueueInit => TokenInv /\ SpscInv(p, c) BY InitTokenInv, InitSpsc
<1>2. TokenInv /\ SpscInv(p, c) /\ [QueueNext]_queueVars => (TokenInv /\ SpscInv(p, c))'
  BY NextTokenInv, NextSpsc
<1>3. TokenInv /\ SpscInv(p, c) => SlotExclusive /\ EachItemPoppedOnce
  BY SpscExclusive, SpscPoppedOnce
<1>4. QED BY <1>1, <1>2, <1>3, PTL DEF QueueSpec

-----------------------------------------------------------------------------
(* One producer p and one consumer c: the queue is the FIFO of BoundedFifo *)

(* k successive items of p from its a-th push on. *)
Run(p, a, k) == [i \in 1 .. k |-> <<p, a + i - 1>>]

LEMMA RunGrows ==
  ASSUME NEW p, NEW a \in Nat, NEW k \in Nat
  PROVE  /\ Run(p, a, k + 1) = Append(Run(p, a, k), <<p, a + k>>)
         /\ Len(Run(p, a, k)) = k
<1>1. Len(Run(p, a, k)) = k /\ DOMAIN Run(p, a, k) = 1 .. k BY DEF Run
<1>2. Run(p, a, k) \in Seq({p} \X Nat)
  <2>1. \A i \in 1 .. k : a + i - 1 \in Nat OBVIOUS
  <2>2. QED BY <2>1 DEF Run
<1> DEFINE x == <<p, a + k>>
           longer == Append(Run(p, a, k), x)
<1>3. /\ longer = [i \in 1 .. k + 1 |-> IF i = k + 1 THEN x ELSE Run(p, a, k)[i]]
  BY <1>1, <1>2
<1>4. \A i \in 1 .. k + 1 : longer[i] = <<p, a + i - 1>>
  <2> TAKE i \in 1 .. k + 1
  <2>1. CASE i = k + 1 BY <1>3, <2>1
  <2>2. CASE i # k + 1
    <3>1. i \in 1 .. k BY <2>2
    <3>2. Run(p, a, k)[i] = <<p, a + i - 1>> BY <3>1 DEF Run
    <3>3. QED BY <1>3, <2>2, <3>2
  <2>3. QED BY <2>1, <2>2
<1> HIDE DEF x
<1>5. longer = [i \in 1 .. k + 1 |-> longer[i]] BY <1>3
<1> HIDE DEF longer
<1>6. longer = Run(p, a, k + 1) BY <1>4, <1>5 DEF Run
<1>7. QED BY <1>1, <1>6 DEF longer, x

LEMMA TailOf ==
  ASSUME NEW S, NEW s \in Seq(S), s # <<>>
  PROVE  Tail(s) = [i \in 1 .. Len(s) - 1 |-> s[i + 1]]
<1>1. /\ Tail(s) \in Seq(S) /\ Len(Tail(s)) = Len(s) - 1
      /\ \A i \in 1 .. Len(s) - 1 : Tail(s)[i] = s[i + 1]
  OBVIOUS
<1>2. \A z \in Seq(S) : z = [i \in 1 .. Len(z) |-> z[i]] OBVIOUS
<1>3. Tail(s) = [i \in 1 .. Len(s) - 1 |-> Tail(s)[i]] BY <1>1, <1>2
<1>4. QED BY <1>1, <1>3

LEMMA RunShrinks ==
  ASSUME NEW p, NEW a \in Nat, NEW k \in Nat \ {0}
  PROVE  /\ Run(p, a, k) # <<>>
         /\ Head(Run(p, a, k)) = <<p, a>>
         /\ Tail(Run(p, a, k)) = Run(p, a + 1, k - 1)
<1>1. Len(Run(p, a, k)) = k BY DEF Run
<1>2. Run(p, a, k) # <<>> BY <1>1
<1>3. Head(Run(p, a, k)) = <<p, a>> BY DEF Run
<1> DEFINE run == Run(p, a, k)
<1>4. Tail(run) = [i \in 1 .. k - 1 |-> run[i + 1]]
  <2>1. Len(run) = k /\ run \in Seq({p} \X Nat)
    <3>1. \A i \in 1 .. k : a + i - 1 \in Nat OBVIOUS
    <3>2. QED BY <1>1, <3>1 DEF Run
  <2> HIDE DEF run
  <2>2. run # <<>> BY <2>1
  <2>3. QED BY <2>1, <2>2, TailOf
<1>5. \A i \in 1 .. k - 1 : Run(p, a, k)[i + 1] = <<p, (a + 1) + i - 1>>
  <2> TAKE i \in 1 .. k - 1
  <2>1. i + 1 \in 1 .. k /\ a + (i + 1) - 1 = (a + 1) + i - 1 OBVIOUS
  <2>2. QED BY <2>1 DEF Run
<1>6. [i \in 1 .. k - 1 |-> Run(p, a, k)[i + 1]]
        = [i \in 1 .. k - 1 |-> <<p, (a + 1) + i - 1>>]
  BY <1>5
<1>7. QED BY <1>2, <1>3, <1>4, <1>6 DEF Run

LEMMA RunEmpty == ASSUME NEW p, NEW a PROVE Run(p, a, 0) = <<>>
BY DEF Run

(* What the ring stands for: the pushes from the one after c's pop to the  *)
(* last one of p; and a pop in progress has already got its item.          *)
Image(p, c) ==
  /\ Content = Run(p, Len(popped) + Busy(c), used_items)
  /\ Result = [x \in Consumers |-> IF pc[c] = "idle" THEN item[c]
                                                     ELSE <<p, Len(popped)>>]

LEMMA ImageOfRing ==
  ASSUME NEW CONSTANT p \in Producers, NEW CONSTANT c \in Consumers,
         Consumers = {c}, TokenInv, SpscInv(p, c)
  PROVE  Image(p, c)
<1> DEFINE m == Len(popped)
           n == sent[p]
<1>1. /\ m \in Nat /\ n \in Nat /\ used_items \in Nat
      /\ Busy(c) \in {0, 1} /\ Ticketed(c) \in {0, 1}
      /\ pc[c] \in {"idle", "acquired", "ticket", "touched"}
  BY MaxPushAssumption, CapacityAssumption
  DEF TokenInv, TypeOK, Busy, Ticketed, Threads
<1>2. /\ head_index = m + Ticketed(c)
      /\ used_items = n - m - Busy(c)
  BY DEF SpscInv, Counters
<1>3. Cardinality(Claiming) = IF pc[c] = "acquired" THEN 1 ELSE 0
  <2>1. CASE pc[c] = "acquired"
    <3>1. Claiming = {c} BY <2>1 DEF Claiming
    <3>2. QED BY <2>1, <3>1, FS_Singleton
  <2>2. CASE pc[c] # "acquired"
    <3>1. Claiming = {} BY <2>2 DEF Claiming
    <3>2. QED BY <2>2, <3>1, FS_EmptySet
  <2>3. QED BY <2>1, <2>2
<1>4. head_index + Cardinality(Claiming) = m + Busy(c)
  <2>1. CASE pc[c] = "idle" BY <1>1, <1>2, <1>3, <2>1 DEF Busy, Ticketed
  <2>2. CASE pc[c] = "acquired" BY <1>1, <1>2, <1>3, <2>2 DEF Busy, Ticketed
  <2>3. CASE pc[c] \in {"ticket", "touched"} BY <1>1, <1>2, <1>3, <2>3 DEF Busy, Ticketed
  <2>4. QED BY <1>1, <2>1, <2>2, <2>3
<1>5. ASSUME NEW i \in 1 .. used_items
      PROVE  items[(head_index + Cardinality(Claiming) + i - 1) % Capacity]
               = <<p, m + Busy(c) + i - 1>>
  <2> DEFINE k == m + Busy(c) + i - 1
  <2>1. k \in m .. n - 1 BY <1>1, <1>2
  <2>2. items[k % Capacity] = <<p, k>> BY <2>1 DEF SpscInv, Contents
  <2>3. QED BY <1>4, <2>2
<1>6. Content = Run(p, m + Busy(c), used_items) BY <1>5 DEF Content, Run
<1>7. pc[c] # "idle" => m \in m .. n - 1 BY <1>1, <1>2 DEF Busy
<1>8. pc[c] # "idle" => items[m % Capacity] = <<p, m>>
  BY <1>7 DEF SpscInv, Contents
<1>9. pc[c] = "acquired" => head_index = m BY <1>1, <1>2 DEF Ticketed
<1>10. pc[c] = "ticket" => index[c] = m % Capacity BY DEF SpscInv, Contents
<1>11. pc[c] = "touched" => item[c] = <<p, m>> BY DEF SpscInv, Contents
<1>12. ASSUME NEW x \in Consumers
       PROVE  (CASE pc[x] = "acquired" -> items[head_index % Capacity]
                 [] pc[x] = "ticket"   -> items[index[x]]
                 [] OTHER              -> item[x])
              = IF pc[c] = "idle" THEN item[c] ELSE <<p, m>>
  <2>1. x = c OBVIOUS
  <2>2. CASE pc[c] = "idle" BY <2>1, <2>2
  <2>3. CASE pc[c] = "acquired" BY <1>8, <1>9, <2>1, <2>3
  <2>4. CASE pc[c] = "ticket" BY <1>8, <1>10, <2>1, <2>4
  <2>5. CASE pc[c] = "touched" BY <1>11, <2>1, <2>5
  <2>6. QED BY <1>1, <2>2, <2>3, <2>4, <2>5
<1>13. Result = [x \in Consumers |-> IF pc[c] = "idle" THEN item[c] ELSE <<p, m>>]
  BY <1>12 DEF Result
<1>14. QED BY <1>6, <1>13 DEF Image

(* Every step of the ring is a step of the FIFO or changes nothing of it:  *)
(* a push counts from its release of used_items, a pop from its acquire.   *)
LEMMA FifoStep ==
  ASSUME NEW CONSTANT p \in Producers, NEW CONSTANT c \in Consumers,
         Producers = {p}, Consumers = {c},
         TokenInv, SpscInv(p, c), Image(p, c), Image(p, c)', [QueueNext]_queueVars
  PROVE  [Fifo!Next]_(Fifo!vars)
<1> DEFINE m == Len(popped)
           n == sent[p]
<1>1. /\ m \in Nat /\ n \in Nat /\ used_items \in Nat /\ free_items \in Nat
      /\ Busy(p) \in {0, 1} /\ Busy(c) \in {0, 1}
      /\ p \in Threads /\ c \in Threads /\ p # c
      /\ pc \in [Threads -> {"idle", "acquired", "ticket", "touched"}]
      /\ item \in [Consumers -> Items \cup {Garbage, NullItem}]
      /\ popped \in Seq(Items \cup {Garbage, NullItem})
  <2>1. TypeOK BY DEF TokenInv
  <2>2. n \in Nat BY <2>1, MaxPushAssumption DEF TypeOK
  <2>3. used_items \in Nat /\ free_items \in Nat BY <2>1, CapacityAssumption DEF TypeOK
  <2>4. popped \in Seq(Items \cup {Garbage, NullItem}) /\ m \in Nat BY <2>1 DEF TypeOK
  <2>5. Busy(p) \in {0, 1} /\ Busy(c) \in {0, 1} BY DEF Busy
  <2>6. p \in Threads /\ c \in Threads /\ p # c BY ThreadsAssumption DEF Threads
  <2>7. /\ pc \in [Threads -> {"idle", "acquired", "ticket", "touched"}]
        /\ item \in [Consumers -> Items \cup {Garbage, NullItem}]
    BY <2>1 DEF TypeOK
  <2>8. QED BY <2>2, <2>3, <2>4, <2>5, <2>6, <2>7
<1>2. /\ used_items = n - m - Busy(c)
      /\ free_items = Capacity - (n - m) - Busy(p)
  BY DEF SpscInv, Counters
<1>3. /\ Content = Run(p, m + Busy(c), used_items)
      /\ Content' = Run(p, Len(popped') + Busy(c)', used_items')
  BY DEF Image
<1>4. /\ Result = [x \in Consumers |-> IF pc[c] = "idle" THEN item[c] ELSE <<p, m>>]
      /\ Result' = [x \in Consumers |-> IF pc'[c] = "idle" THEN item'[c]
                                                          ELSE <<p, Len(popped')>>]
  BY DEF Image
<1>5. Len(Content) = used_items
  <2>1. m + Busy(c) \in Nat BY <1>1
  <2>2. QED BY <1>1, <1>3, <2>1, RunGrows
<1>6. ASSUME UNCHANGED <<popped, used_items, sent, accepted, item>>,
             Busy(c)' = Busy(c), pc'[c] = "idle" <=> pc[c] = "idle"
      PROVE  UNCHANGED Fifo!vars
  <2>1. Content' = Content BY <1>3, <1>6
  <2>2. Result' = Result BY <1>4, <1>6
  <2>3. QED BY <1>6, <2>1, <2>2 DEF Fifo!vars
<1>7. CASE PushAcquire(p) \/ PushTicket(p) \/ PushStore(p)
  <2>1. UNCHANGED <<popped, used_items, sent, accepted, item>> /\ pc'[c] = pc[c]
    BY <1>1, <1>7 DEF PushAcquire, PushTicket, PushStore, Goto, sems, ring
  <2>2. QED BY <1>6, <2>1 DEF Busy
<1>8. CASE PushRelease(p)
  <2>1. /\ pc[p] = "touched" /\ pc'[c] = pc[c]
        /\ UNCHANGED <<popped, item>>
        /\ sent' = [sent EXCEPT ![p] = @ + 1]
        /\ accepted' = [accepted EXCEPT ![p] = TRUE]
    BY <1>1, <1>8 DEF PushRelease, Goto, ring
  <2>2. n < MaxPush BY <2>1 DEF TokenInv, Pushing
  <2>3. used_items < Capacity
    <3>1. Busy(p) = 1 BY <2>1 DEF Busy
    <3>2. used_items = Capacity - free_items - 1 - Busy(c)
      BY <1>1, <1>2, <3>1, CapacityAssumption
    <3>3. QED BY <1>1, <3>2, CapacityAssumption
  <2>4. used_items' = used_items + 1 BY <1>8, <2>3 DEF PushRelease, Released
  <2>5. Len(popped') + Busy(c)' = m + Busy(c) BY <2>1 DEF Busy
  <2>6. Content' = Run(p, m + Busy(c), used_items + 1) BY <1>3, <2>4, <2>5
  <2>7. m + Busy(c) \in Nat /\ m + Busy(c) + used_items = n
    <3>1. \A x, y, z \in Nat : x + y \in Nat /\ x + y + (z - x - y) = z OBVIOUS
    <3>2. Busy(c) \in Nat BY <1>1
    <3>3. QED BY <1>1, <1>2, <3>1, <3>2
  <2>8. Content' = Append(Content, <<p, n>>)
    <3>1. \A a \in Nat : Run(p, a, used_items + 1)
                           = Append(Run(p, a, used_items), <<p, a + used_items>>)
      BY <1>1, RunGrows
    <3>2. QED BY <1>3, <2>6, <2>7, <3>1
  <2>9. Result' = Result BY <1>4, <2>1
  <2>10. Fifo!Push(p) BY <1>5, <2>1, <2>2, <2>3, <2>8, <2>9 DEF Fifo!Push
  <2>11. QED BY <2>10 DEF Fifo!Next
<1>9. CASE TryPushFull(p)
  <2>1. /\ pc[p] = "idle" /\ n < MaxPush /\ free_items = 0
        /\ UNCHANGED <<popped, used_items, sent, item, pc>>
        /\ accepted' = [accepted EXCEPT ![p] = FALSE]
    BY <1>9 DEF TryPushFull, sems
  <2>2. Fifo!Slack = 1
    <3>1. Cardinality(Producers) = 1 /\ Cardinality(Consumers) = 1 BY FS_Singleton
    <3>2. Fifo!Slack = Cardinality(Consumers) + Cardinality(Producers) - 1
      BY Zenon DEF Fifo!Slack, Fifo!Cardinality, Cardinality
    <3>3. QED BY <3>1, <3>2
  <2>3. used_items + 1 >= Capacity
    <3>1. Busy(p) = 0 BY <2>1 DEF Busy
    <3>2. \A C, d \in Int, b \in {0, 1} : 0 = C - d - 0 => d - b + 1 >= C OBVIOUS
    <3>3. n - m \in Int /\ Capacity \in Int BY <1>1, CapacityAssumption
    <3>4. 0 = Capacity - (n - m) - 0 BY <1>2, <2>1, <3>1
    <3>5. (n - m) - Busy(c) + 1 >= Capacity BY <1>1, <3>2, <3>3, <3>4
    <3>6. QED BY <1>2, <3>5
  <2>4. Content' = Content /\ Result' = Result BY <1>3, <1>4, <2>1 DEF Busy
  <2>5. Fifo!Refuse(p) BY <1>5, <2>1, <2>2, <2>3, <2>4 DEF Fifo!Refuse
  <2>6. QED BY <2>5 DEF Fifo!Next
<1>10. CASE PopAcquire(c)
  <2>1. /\ pc[c] = "idle" /\ pc'[c] = "acquired"
        /\ used_items > 0 /\ used_items' = used_items - 1
        /\ UNCHANGED <<popped, sent, accepted, item>>
    BY <1>1, <1>10 DEF PopAcquire, Goto, ring
  <2>2. Busy(c) = 0 /\ Busy(c)' = 1 BY <2>1 DEF Busy
  <2>3. Content = Run(p, m, used_items) BY <1>1, <1>3, <2>2
  <2>4. Content' = Run(p, m + 1, used_items - 1) BY <1>3, <2>1, <2>2
  <2>5. used_items \in Nat \ {0} BY <1>1, <2>1
  <2>6. /\ Content # <<>> /\ Head(Content) = <<p, m>> /\ Tail(Content) = Content'
    BY <1>1, <2>3, <2>4, <2>5, RunShrinks
  <2>7. Result' = [Result EXCEPT ![c] = <<p, m>>] BY <1>4, <2>1
  <2>8. Fifo!Pop(c) BY <2>1, <2>6, <2>7 DEF Fifo!Pop
  <2>9. QED BY <2>8 DEF Fifo!Next
<1>11. CASE PopTicket(c)
  <2>1. /\ UNCHANGED <<popped, used_items, sent, accepted, item>>
        /\ pc[c] = "acquired" /\ pc'[c] = "ticket"
    BY <1>1, <1>11 DEF PopTicket, Goto, sems
  <2>2. QED BY <1>6, <2>1 DEF Busy
<1>12. CASE PopLoad(c)
  <2>1. /\ UNCHANGED <<popped, used_items, sent, accepted>>
        /\ pc[c] = "ticket" /\ pc'[c] = "touched"
    BY <1>1, <1>12 DEF PopLoad, Goto, sems
  <2>2. Content' = Content BY <1>3, <2>1 DEF Busy
  <2>3. Result' = Result BY <1>4, <2>1
  <2>4. QED BY <2>1, <2>2, <2>3 DEF Fifo!vars
<1>13. CASE PopRelease(c)
  <2>1. /\ pc[c] = "touched" /\ pc'[c] = "idle"
        /\ popped' = Append(popped, item[c])
        /\ UNCHANGED <<used_items, sent, accepted, item>>
    BY <1>1, <1>13 DEF PopRelease, Goto, ring
  <2>2. item[c] = <<p, m>> BY <2>1 DEF SpscInv, Contents
  <2>3. Len(popped') = m + 1 BY <1>1, <2>1
  <2>4. Len(popped') + Busy(c)' = m + Busy(c) BY <1>1, <2>1, <2>3 DEF Busy
  <2>5. Content' = Content BY <1>3, <2>1, <2>4
  <2>6. Result' = Result BY <1>4, <2>1, <2>2
  <2>7. QED BY <2>1, <2>5, <2>6 DEF Fifo!vars
<1>14. CASE TryPopEmpty(c)
  <2>1. /\ pc[c] = "idle" /\ used_items = 0
        /\ UNCHANGED <<popped, used_items, sent, accepted, pc>>
        /\ item' = [item EXCEPT ![c] = NullItem]
    BY <1>14 DEF TryPopEmpty, sems
  <2>2. Content = <<>> BY <1>3, <2>1, RunEmpty
  <2>3. Content' = Content BY <1>3, <2>1 DEF Busy
  <2>4. item'[c] = NullItem BY <1>1, <2>1
  <2>5. Result' = [Result EXCEPT ![c] = NullItem] BY <1>4, <2>1, <2>4
  <2>6. Fifo!PopNothing(c) BY <2>1, <2>2, <2>3, <2>5 DEF Fifo!PopNothing
  <2>7. QED BY <2>6 DEF Fifo!Next
<1>15. CASE UNCHANGED queueVars
  <2>1. UNCHANGED <<popped, used_items, sent, accepted, item, pc>>
    BY <1>15 DEF queueVars, sems
  <2>2. QED BY <1>6, <2>1 DEF Busy
<1>16. QED
  BY <1>7, <1>8, <1>9, <1>10, <1>11, <1>12, <1>13, <1>14, <1>15
  DEF QueueNext, PushStep, PopStep

(* At the start the ring is empty and nothing has come out of it.          *)
LEMMA FifoInit ==
  ASSUME NEW CONSTANT p \in Producers, NEW CONSTANT c \in Consumers,
         Consumers = {c}, QueueInit, Image(p, c)
  PROVE  Fifo!Init
<1>1. pc[c] = "idle" /\ item[c] = NullItem /\ used_items = 0
  BY DEF QueueInit, Threads
<1>2. Content = <<>> BY <1>1, RunEmpty DEF Image
<1>3. Result = [x \in Consumers |-> NullItem] BY <1>1 DEF Image
<1>4. QED BY <1>2, <1>3 DEF QueueInit, Fifo!Init

(* With one pushing and one popping thread, and before the counters wrap,  *)
(* the four interleaved steps of each call of queue.c implement a FIFO     *)
(* queue on which a push and a pop each happen at one instant, for every   *)
(* capacity: order, blocking, what "empty" means, and how early            *)
(* queue_try_push may say "full".                                          *)
THEOREM SpscIsFifo ==
  ASSUME NEW CONSTANT p \in Producers, NEW CONSTANT c \in Consumers,
         Producers = {p}, Consumers = {c}, MaxPush <= IntMax
  PROVE  QueueSpec => ImplementsFifo
<1> DEFINE Inv == TokenInv /\ SpscInv(p, c)
<1>1. QueueInit => Inv BY InitTokenInv, InitSpsc
<1>2. Inv /\ [QueueNext]_queueVars => Inv' BY NextTokenInv, NextSpsc
<1>3. Inv => Image(p, c) BY ImageOfRing
<1>4. QueueInit /\ Image(p, c) => Fifo!Init BY FifoInit
<1>5. Inv /\ Image(p, c) /\ Image(p, c)' /\ [QueueNext]_queueVars => [Fifo!Next]_(Fifo!vars)
  BY FifoStep
<1> HIDE DEF Inv
<1>6. QueueSpec => Fifo!Spec BY <1>1, <1>2, <1>3, <1>4, <1>5, PTL DEF QueueSpec, Fifo!Spec
<1>7. QED BY <1>6 DEF ImplementsFifo
=============================================================================
