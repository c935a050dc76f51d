----------------------------- MODULE RenderProofs -----------------------------
(***************************************************************************)
(* Proofs about Render, for any number of models, frames, slots and frames *)
(* in flight, when every mesh and shader is drawn in each frame, as the    *)
(* game does.                                                              *)
(***************************************************************************)
EXTENDS Render, FiniteSetTheorems, WellFoundedInduction, TLAPS

-----------------------------------------------------------------------------
(* Loops.  What holds of 0 and is passed on by each n below N holds up to  *)
(* N, because the numbers it does not hold of have no smallest one.        *)
LEMMA SmallestIn ==
  ASSUME NEW S \in SUBSET Nat, S # {}
  PROVE  \E i \in S : \A j \in S : i <= j
<1> DEFINE Below == {pair \in Nat \X Nat : pair[1] < pair[2]}
<1>1. Below = OpToRel(<, Nat) BY DEF OpToRel
<1>2. IsWellFoundedOn(Below, Nat) BY <1>1, NatLessThanWellFounded
<1>3. PICK i \in S : \A j \in S : ~ (<<j, i>> \in Below)
  <2> HIDE DEF Below
  <2> QED BY <1>2, WFMin
<1>4. ASSUME NEW j \in S PROVE i <= j
  <2>1. j \in Nat /\ i \in Nat OBVIOUS
  <2>2. <<j, i>> \in Nat \X Nat BY <2>1
  <2>3. ~ (j < i) BY <1>3, <2>2
  <2> QED BY <2>1, <2>3
<1>5. QED BY <1>4

LEMMA UpTo ==
  ASSUME NEW N \in Nat, NEW S, 0 \in S,
         \A n \in 0 .. N - 1 : n \in S => n + 1 \in S
  PROVE  \A n \in 0 .. N : n \in S
<1> SUFFICES ASSUME NEW m \in 0 .. N, m \notin S PROVE FALSE OBVIOUS
<1> DEFINE Missing == {n \in 0 .. N : n \notin S}
<1>1. Missing \in SUBSET Nat /\ Missing # {} OBVIOUS
<1>2. PICK k \in Missing : \A j \in Missing : k <= j BY <1>1, SmallestIn
<1>3. k \in 0 .. N /\ k \notin S /\ k # 0 BY <1>2
<1>4. k - 1 \in 0 .. N - 1 BY <1>3
<1>5. k - 1 \notin S BY <1>3, <1>4
<1>6. k - 1 \in Missing BY <1>4, <1>5
<1>7. QED BY <1>2, <1>3, <1>6

(* destroy_stale_data goes from the last slot of a table to the first. *)
Shifted(t, i) == [count |-> t.count - 1,
                  slots |-> [t.slots EXCEPT ![i] = t.slots[t.count - 1]]]
Removed(s, i) ==
  LET slot == s.t.slots[i]
  IN [t |-> Shifted(s.t, i),
      live |-> s.live \ {slot.object},
      bad |-> s.bad \cup ({slot.object} \ s.live),
      sets |-> s.sets + slot.sets]
SweepStep(s, i, now) == IF Stale(s.t.slots[i], now) THEN Removed(s, i) ELSE s
Unswept(t, before) == [t |-> t, live |-> before, bad |-> {}, sets |-> 0]

Sweeps(Sweep, t, now, before) ==
  /\ Sweep[t.count] = Unswept(t, before)
  /\ \A i \in 0 .. t.count - 1 : Sweep[i] = SweepStep(Sweep[i + 1], i, now)
  /\ Reclaimed(t, now, before) = Sweep[0]

LEMMA RemovedIs ==
  ASSUME NEW s, NEW i
  PROVE  /\ Removed(s, i).t = Shifted(s.t, i)
         /\ Removed(s, i).live = s.live \ {s.t.slots[i].object}
         /\ Removed(s, i).bad = s.bad \cup ({s.t.slots[i].object} \ s.live)
         /\ Removed(s, i).sets = s.sets + s.t.slots[i].sets
BY DEF Removed

LEMMA ShiftedIs ==
  ASSUME NEW t, NEW i
  PROVE  Shifted(t, i).count = t.count - 1
BY DEF Shifted

LEMMA SweepLoop ==
  ASSUME NEW t, NEW now, NEW before, t.count \in Nat
  PROVE  \E Sweep : Sweeps(Sweep, t, now, before)
<1> DEFINE N == t.count
           Step(s, i) == SweepStep(s, i, now)
           first == Unswept(t, before)
           Is(g, m) == g = [i \in m .. N |-> IF i = N THEN first ELSE Step(g[i + 1], i)]
           Sweep == CHOOSE g : Is(g, 0)
           Lengths == {n \in 0 .. N : \E g : Is(g, N - n)}
<1>1. Reclaimed(t, now, before) = Sweep[0] BY DEF Reclaimed, SweepStep, Removed, Shifted, Unswept
<1> HIDE DEF Step, first
<1>2. 0 \in Lengths
  <2> DEFINE h == [i \in N .. N |-> first]
  <2>1. Is(h, N) OBVIOUS
  <2>2. N - 0 = N OBVIOUS
  <2> HIDE DEF h, Is
  <2>3. \E g : Is(g, N - 0) BY <2>1, <2>2
  <2>4. QED BY <2>3
<1>3. ASSUME NEW n \in 0 .. N - 1, n \in Lengths PROVE n + 1 \in Lengths
  <2> DEFINE m == N - n
  <2>0. m \in 1 .. N /\ N - (n + 1) = m - 1 /\ n + 1 \in 0 .. N OBVIOUS
  <2>1. PICK g : Is(g, m) BY <1>3
  <2> HIDE DEF m
  <2> DEFINE h == [i \in m - 1 .. N |-> IF i = m - 1 THEN Step(g[m], m - 1) ELSE g[i]]
  <2>2. \A i \in m - 1 .. N : h[i] = IF i = N THEN first ELSE Step(h[i + 1], i)
    <3> TAKE i \in m - 1 .. N
    <3>1. CASE i = m - 1
      <4>1. i # N /\ i + 1 = m /\ m \in m - 1 .. N /\ m # m - 1 BY <2>0, <3>1
      <4>2. h[i] = Step(g[m], i) /\ h[m] = g[m] BY <3>1, <4>1
      <4>3. QED BY <4>1, <4>2
    <3>2. CASE i # m - 1
      <4>1. i \in m .. N /\ i + 1 # m - 1 /\ (i # N => i + 1 \in m - 1 .. N) BY <2>0, <3>2
      <4>2. h[i] = g[i] /\ (i # N => h[i + 1] = g[i + 1]) BY <3>2, <4>1
      <4>3. g[i] = IF i = N THEN first ELSE Step(g[i + 1], i) BY <2>1, <4>1
      <4>4. QED BY <4>2, <4>3
    <3>3. QED BY <3>1, <3>2
  <2>3. h = [i \in m - 1 .. N |-> h[i]] OBVIOUS
  <2> HIDE DEF h
  <2>4. h = [i \in m - 1 .. N |-> IF i = N THEN first ELSE Step(h[i + 1], i)]
    BY <2>2, <2>3
  <2>5. Is(h, N - (n + 1)) BY <2>0, <2>4
  <2> HIDE DEF Is
  <2>6. \E g2 : Is(g2, N - (n + 1)) BY <2>5
  <2>7. QED BY <2>0, <2>6
<1>4. N \in Lengths
  <2> HIDE DEF Lengths
  <2>1. \A n \in 0 .. N : n \in Lengths BY <1>2, <1>3, UpTo
  <2>2. QED BY <2>1
<1>5. Is(Sweep, 0)
  <2>1. N - N = 0 OBVIOUS
  <2>2. \E g : Is(g, 0) BY <1>4, <2>1
  <2>3. QED BY <2>2
<1>6. Sweep[N] = first /\ \A i \in 0 .. N - 1 : Sweep[i] = Step(Sweep[i + 1], i)
  <2> HIDE DEF Sweep
  <2>1. \A i \in 0 .. N : Sweep[i] = IF i = N THEN first ELSE Step(Sweep[i + 1], i)
    BY <1>5
  <2>2. N \in 0 .. N /\ \A i \in 0 .. N - 1 : i \in 0 .. N /\ i # N OBVIOUS
  <2>3. QED BY <2>1, <2>2
<1>7. Sweeps(Sweep, t, now, before)
  <2> HIDE DEF Sweep
  <2>1. QED BY <1>1, <1>6 DEF Sweeps, Step, first
<1>8. QED BY <1>7

-----------------------------------------------------------------------------
(* Tables *)
InfosOf(kind) == {Info(m, kind) : m \in Models}
Infos   == {NULL} \cup UNION {InfosOf(kind) : kind \in Kinds}
Objects == {NULL} \cup (Kinds \X Infos \X Nat)
Slot    == [info : Infos, object : Objects, used : Nat, sets : Nat]
Table   == [count : 0 .. MaxDrawables, slots : [0 .. MaxDrawables - 1 -> Slot]]

(* An info has one slot at most, and the object in it is its own. *)
UniqueInfos(t) == \A i, j \in 0 .. t.count - 1 :
                    t.slots[i].info = t.slots[j].info => i = j
Named(t) == \A i \in 0 .. t.count - 1 : t.slots[i].object[2] = t.slots[i].info

(* The objects of stale slots from i on. *)
StaleAt(t, l, now) == Stale(t.slots[l], now)
Gone(t, i, now) == {o \in Objects : \E l \in 0 .. t.count - 1 :
                      l >= i /\ StaleAt(t, l, now) /\ o = t.slots[l].object}

(* The sweep has reached slot i: the stale slots from i on are gone. *)
Swept(s, i, t, now, before) ==
  /\ s.t \in Table /\ s.sets \in Nat
  /\ i <= s.t.count /\ s.t.count <= t.count
  /\ \A j \in 0 .. i - 1 : s.t.slots[j] = t.slots[j]
  /\ UniqueInfos(s.t)
  /\ \A j \in 0 .. s.t.count - 1 : \E l \in 0 .. t.count - 1 :
       s.t.slots[j] = t.slots[l] /\ ~(l >= i /\ StaleAt(t, l, now))
  /\ \A l \in 0 .. t.count - 1 : ~(l >= i /\ StaleAt(t, l, now)) =>
       \E j \in 0 .. s.t.count - 1 : s.t.slots[j] = t.slots[l]
  /\ s.live = before \ Gone(t, i, now)
  /\ s.bad = {}

LEMMA SweptMore ==
  ASSUME NEW t \in Table, NEW now, NEW before, UniqueInfos(t), Named(t),
         \A l \in 0 .. t.count - 1 : t.slots[l].object \in before,
         NEW i \in 0 .. t.count - 1, NEW s, Swept(s, i + 1, t, now, before)
  PROVE  Swept(SweepStep(s, i, now), i, t, now, before)
<1> DEFINE c == s.t.count
           to == SweepStep(s, i, now)
           M == MaxDrawables
<1>1. /\ M \in Nat /\ t.count \in 0 .. M /\ i \in Nat /\ c \in 0 .. M
      /\ i + 1 <= c /\ c <= t.count /\ s.t.slots \in [0 .. M - 1 -> Slot]
      /\ t.slots \in [0 .. M - 1 -> Slot] /\ s.sets \in Nat
  <2>1. M \in Nat BY SizesAssumption
  <2>2. s.t \in Table /\ s.sets \in Nat /\ i + 1 <= c /\ c <= t.count BY DEF Swept
  <2>3. t.count \in 0 .. M /\ t.slots \in [0 .. M - 1 -> Slot] BY DEF Table
  <2>4. c \in 0 .. M /\ s.t.slots \in [0 .. M - 1 -> Slot] BY <2>2 DEF Table
  <2>5. i \in Nat BY <2>1, <2>3
  <2>6. QED BY <2>1, <2>2, <2>3, <2>4, <2>5
<1>2. s.t.slots[i] = t.slots[i]
  <2>1. i \in 0 .. (i + 1) - 1 BY <1>1
  <2>2. QED BY <2>1 DEF Swept
<1>3. i \in 0 .. M - 1 /\ i \in 0 .. c - 1 /\ c - 1 \in 0 .. M - 1 /\ c - 1 \in 0 .. c - 1
      /\ t.slots[i] \in Slot /\ t.slots[i].sets \in Nat
  <2>1. i \in 0 .. M - 1 /\ i \in 0 .. c - 1 /\ c - 1 \in 0 .. M - 1 /\ c - 1 \in 0 .. c - 1
    BY <1>1
  <2>2. t.slots[i] \in Slot BY <1>1, <2>1
  <2>3. t.slots[i].sets \in Nat BY <2>2 DEF Slot
  <2>4. QED BY <2>1, <2>2, <2>3
<1>4. \A l \in 0 .. t.count - 1 :
        /\ l >= i <=> l = i \/ l >= i + 1
        /\ l # i => t.slots[l].info # t.slots[i].info
                    /\ t.slots[l].object # t.slots[i].object
  <2> TAKE l \in 0 .. t.count - 1
  <2>1. l >= i <=> l = i \/ l >= i + 1 BY <1>1
  <2>2. l # i => t.slots[l].info # t.slots[i].info BY DEF UniqueInfos
  <2>3. /\ t.slots[l].object[2] = t.slots[l].info
        /\ t.slots[i].object[2] = t.slots[i].info
    BY DEF Named
  <2>4. QED BY <2>1, <2>2, <2>3
<1>5. CASE ~StaleAt(t, i, now)
  <2>1. to = s BY <1>2, <1>5 DEF SweepStep, StaleAt
  <2>2. \A l \in 0 .. t.count - 1 : l >= i /\ StaleAt(t, l, now)
                                      <=> l >= i + 1 /\ StaleAt(t, l, now)
    BY <1>4, <1>5
  <2>3. Gone(t, i, now) = Gone(t, i + 1, now) BY <2>2 DEF Gone
  <2>4. \A j \in 0 .. i - 1 : j \in 0 .. (i + 1) - 1 BY <1>1
  <2>5. i <= c BY <1>1
  <2>6. QED BY <2>1, <2>2, <2>3, <2>4, <2>5 DEF Swept
<1>6. CASE StaleAt(t, i, now)
  <2> DEFINE slots == [s.t.slots EXCEPT ![i] = s.t.slots[c - 1]]
             From(j) == IF j = i THEN c - 1 ELSE j
  <2>1. /\ to.t = [count |-> c - 1, slots |-> slots] /\ to.t.count = c - 1 /\ to.t.slots = slots
        /\ to.live = s.live \ {t.slots[i].object}
        /\ to.bad = s.bad \cup ({t.slots[i].object} \ s.live)
        /\ to.sets = s.sets + t.slots[i].sets
    <3>1. to = Removed(s, i) BY <1>2, <1>6 DEF SweepStep, StaleAt
    <3> HIDE DEF to
    <3>2. to.t = [count |-> c - 1, slots |-> slots] BY <3>1, RemovedIs DEF Shifted
    <3>3. /\ to.live = s.live \ {t.slots[i].object}
          /\ to.bad = s.bad \cup ({t.slots[i].object} \ s.live)
          /\ to.sets = s.sets + t.slots[i].sets
      BY <1>2, <3>1, RemovedIs
    <3> HIDE DEF slots
    <3>4. QED BY <3>2, <3>3
  <2>2. slots \in [0 .. M - 1 -> Slot] /\ \A j \in 0 .. M - 1 : slots[j] = s.t.slots[From(j)]
    BY <1>1, <1>3
  <2>3. \A j \in 0 .. c - 2 : /\ j \in 0 .. M - 1 /\ j \in 0 .. c - 1
                              /\ From(j) \in 0 .. c - 1 /\ From(j) # i
    BY <1>1, <1>3
  <2>4. \A j, l \in 0 .. c - 2 : From(j) = From(l) => j = l BY <1>1
  <2> HIDE DEF slots, From
  <2>5. to.t \in Table /\ to.sets \in Nat /\ to.t.count = c - 1 /\ to.t.slots = slots
    <3>1. c - 1 \in 0 .. M BY <1>1
    <3>2. to.t \in Table BY <2>1, <2>2, <3>1 DEF Table
    <3>3. to.sets \in Nat BY <1>1, <1>3, <2>1
    <3>4. QED BY <2>1, <3>2, <3>3
  <2>6. i <= c - 1 /\ c - 1 <= t.count /\ (c - 1) - 1 = c - 2 BY <1>1
  <2>7. \A j \in 0 .. i - 1 : slots[j] = t.slots[j]
    <3> TAKE j \in 0 .. i - 1
    <3>0. \A a, b \in Nat : \A x \in 0 .. a - 1 : a <= b =>
            x \in 0 .. b - 1 /\ x # a /\ x \in 0 .. (a + 1) - 1
      OBVIOUS
    <3>1. j \in 0 .. M - 1 /\ j # i /\ j \in 0 .. (i + 1) - 1
      <4>1. i \in Nat /\ M \in Nat /\ i <= M BY <1>1, <1>3
      <4>2. QED BY <3>0, <4>1
    <3>2. slots[j] = s.t.slots[j] BY <2>2, <3>1 DEF From
    <3>3. QED BY <3>1, <3>2 DEF Swept
  <2>8. UniqueInfos(to.t)
    <3> SUFFICES ASSUME NEW j \in 0 .. c - 2, NEW l \in 0 .. c - 2,
                        slots[j].info = slots[l].info
                 PROVE  j = l
      BY <2>5, <2>6 DEF UniqueInfos
    <3>1. s.t.slots[From(j)].info = s.t.slots[From(l)].info BY <2>2, <2>3
    <3>2. From(j) = From(l) BY <2>3, <3>1 DEF Swept, UniqueInfos
    <3>3. QED BY <2>4, <3>2
  <2>9. ASSUME NEW j \in 0 .. c - 2
        PROVE  \E l \in 0 .. t.count - 1 :
                 slots[j] = t.slots[l] /\ ~(l >= i /\ StaleAt(t, l, now))
    <3>1. PICK l \in 0 .. t.count - 1 : /\ s.t.slots[From(j)] = t.slots[l]
                                        /\ ~(l >= i + 1 /\ StaleAt(t, l, now))
      BY <2>3 DEF Swept
    <3>2. l # i
      <4> SUFFICES ASSUME l = i PROVE FALSE OBVIOUS
      <4>1. s.t.slots[From(j)].info = s.t.slots[i].info BY <1>2, <3>1
      <4>2. From(j) = i BY <1>3, <2>3, <4>1 DEF Swept, UniqueInfos
      <4>3. QED BY <2>3, <4>2
    <3>3. slots[j] = t.slots[l] BY <2>2, <2>3, <3>1
    <3>4. QED BY <1>4, <3>1, <3>2, <3>3
  <2>10. ASSUME NEW l \in 0 .. t.count - 1, ~(l >= i /\ StaleAt(t, l, now))
         PROVE  \E j \in 0 .. c - 2 : slots[j] = t.slots[l]
    <3>1. l # i /\ ~(l >= i + 1 /\ StaleAt(t, l, now)) BY <1>1, <1>4, <1>6, <2>10
    <3>2. PICK j \in 0 .. c - 1 : s.t.slots[j] = t.slots[l] BY <3>1 DEF Swept
    <3>3. j # i BY <1>2, <1>4, <3>1, <3>2
    <3>4. CASE j = c - 1
      <4>1. i \in 0 .. c - 2 BY <1>1, <1>3, <3>3, <3>4
      <4>2. slots[i] = s.t.slots[j] BY <1>3, <2>2, <3>4 DEF From
      <4>3. QED BY <3>2, <4>1, <4>2
    <3>5. CASE j # c - 1
      <4>1. j \in 0 .. c - 2
        <5>1. \A a \in Nat : \A b \in 0 .. a - 1 : b # a - 1 => b \in 0 .. a - 2 OBVIOUS
        <5>2. c \in Nat BY <1>1
        <5>3. QED BY <3>5, <5>1, <5>2
      <4>2. slots[j] = s.t.slots[j] BY <2>2, <2>3, <3>3, <4>1 DEF From
      <4>3. QED BY <3>2, <4>1, <4>2
    <3>6. QED BY <3>4, <3>5
  <2>11. Gone(t, i, now) = Gone(t, i + 1, now) \cup {t.slots[i].object}
    <3>1. t.slots[i].object \in Objects BY <1>3 DEF Slot
    <3>2. i >= i BY <1>1
    <3>3. QED BY <1>4, <1>6, <3>1, <3>2 DEF Gone
  <2>12. t.slots[i].object \in s.live
    <3>1. t.slots[i].object \notin Gone(t, i + 1, now)
      <4> SUFFICES ASSUME NEW l \in 0 .. t.count - 1, l >= i + 1,
                          t.slots[i].object = t.slots[l].object
                   PROVE  FALSE
        BY DEF Gone
      <4>1. QED BY <1>1, <1>4
    <3>2. QED BY <3>1 DEF Swept
  <2>13. to.live = before \ Gone(t, i, now) BY <2>1, <2>11 DEF Swept
  <2>14. to.bad = {} BY <2>1, <2>12 DEF Swept
  <2> HIDE DEF to
  <2>15. /\ i <= to.t.count /\ to.t.count <= t.count
         /\ \A j \in 0 .. i - 1 : to.t.slots[j] = t.slots[j]
         /\ \A j \in 0 .. to.t.count - 1 : \E l \in 0 .. t.count - 1 :
              to.t.slots[j] = t.slots[l] /\ ~(l >= i /\ StaleAt(t, l, now))
         /\ \A l \in 0 .. t.count - 1 : ~(l >= i /\ StaleAt(t, l, now)) =>
              \E j \in 0 .. to.t.count - 1 : to.t.slots[j] = t.slots[l]
    BY <2>5, <2>6, <2>7, <2>9, <2>10
  <2>16. Swept(to, i, t, now, before) BY <2>5, <2>8, <2>13, <2>14, <2>15 DEF Swept
  <2>17. QED BY <2>16 DEF to
<1>7. QED BY <1>5, <1>6

(* What destroy_stale_data makes of one table: what is not stale stays, in *)
(* some slot, and what is stale is destroyed, once.                        *)
Reclaims(R, t, now, before) ==
  /\ R.t \in Table /\ R.t.count <= t.count /\ UniqueInfos(R.t) /\ R.sets \in Nat
  /\ \A j \in 0 .. R.t.count - 1 : \E l \in 0 .. t.count - 1 :
       R.t.slots[j] = t.slots[l] /\ ~StaleAt(t, l, now)
  /\ \A l \in 0 .. t.count - 1 : ~StaleAt(t, l, now) =>
       \E j \in 0 .. R.t.count - 1 : R.t.slots[j] = t.slots[l]
  /\ R.live = before \ Gone(t, 0, now)
  /\ R.bad = {}

LEMMA ReclaimedTable ==
  ASSUME NEW t \in Table, NEW now, NEW before, UniqueInfos(t), Named(t),
         \A l \in 0 .. t.count - 1 : t.slots[l].object \in before
  PROVE  Reclaims(Reclaimed(t, now, before), t, now, before)
<1> DEFINE N == t.count
<1>1. N \in Nat BY SizesAssumption DEF Table
<1>2. PICK Sweep : Sweeps(Sweep, t, now, before) BY <1>1, SweepLoop
<1>3. /\ Sweep[N] = Unswept(t, before) /\ Reclaimed(t, now, before) = Sweep[0]
      /\ \A i \in 0 .. N - 1 : Sweep[i] = SweepStep(Sweep[i + 1], i, now)
  BY <1>2 DEF Sweeps
<1> DEFINE Good == {n \in 0 .. N : Swept(Sweep[N - n], N - n, t, now, before)}
<1>4. Swept(Sweep[N], N, t, now, before)
  <2>1. \A l \in 0 .. N - 1 : ~(l >= N) BY <1>1
  <2>2. Gone(t, N, now) = {} BY <2>1 DEF Gone
  <2>3. N <= N BY <1>1
  <2>4. QED BY <1>3, <2>1, <2>2, <2>3 DEF Swept, Unswept
<1>5. 0 \in Good
  <2>1. N - 0 = N /\ 0 \in 0 .. N BY <1>1
  <2>2. QED BY <1>4, <2>1
<1>6. ASSUME NEW n \in 0 .. N - 1, n \in Good PROVE n + 1 \in Good
  <2> DEFINE i == N - (n + 1)
  <2>1. i \in 0 .. N - 1 /\ i + 1 = N - n /\ n + 1 \in 0 .. N BY <1>1
  <2> HIDE DEF N, i
  <2>2. Swept(Sweep[i + 1], i + 1, t, now, before) BY <1>6, <2>1
  <2>3. Sweep[i] = SweepStep(Sweep[i + 1], i, now) BY <1>3, <2>1
  <2>4. Swept(Sweep[i], i, t, now, before) BY <2>1, <2>2, <2>3, SweptMore DEF N
  <2>5. QED BY <2>1, <2>4 DEF i
<1>7. N \in Good
  <2> HIDE DEF Good
  <2>1. \A n \in 0 .. N : n \in Good BY <1>1, <1>5, <1>6, UpTo
  <2>2. QED BY <1>1, <2>1
<1>8. Swept(Sweep[0], 0, t, now, before)
  <2>1. N - N = 0 BY <1>1
  <2>2. QED BY <1>7, <2>1
<1>9. \A l \in 0 .. N - 1 : l >= 0 BY <1>1
<1>10. QED BY <1>3, <1>8, <1>9 DEF Swept, Reclaims

(* A table without stale slots stays as it is. *)
LEMMA NothingStale ==
  ASSUME NEW t \in Table, NEW now, NEW before,
         \A l \in 0 .. t.count - 1 : ~StaleAt(t, l, now)
  PROVE  Reclaimed(t, now, before) = Unswept(t, before)
<1> DEFINE N == t.count
           first == Unswept(t, before)
<1>1. N \in Nat /\ first.t = t BY SizesAssumption DEF Table, Unswept
<1>2. PICK Sweep : Sweeps(Sweep, t, now, before) BY <1>1, SweepLoop
<1>3. /\ Sweep[N] = first /\ Reclaimed(t, now, before) = Sweep[0]
      /\ \A i \in 0 .. N - 1 : Sweep[i] = SweepStep(Sweep[i + 1], i, now)
  BY <1>2 DEF Sweeps
<1> DEFINE Good == {n \in 0 .. N : Sweep[N - n] = first}
<1>4. 0 \in Good
  <2>1. N - 0 = N /\ 0 \in 0 .. N BY <1>1
  <2>2. QED BY <1>3, <2>1
<1>5. ASSUME NEW n \in 0 .. N - 1, n \in Good PROVE n + 1 \in Good
  <2> DEFINE i == N - (n + 1)
  <2>1. i \in 0 .. N - 1 /\ i + 1 = N - n /\ n + 1 \in 0 .. N BY <1>1
  <2> HIDE DEF N, i, first
  <2>2. Sweep[i] = SweepStep(first, i, now) BY <1>3, <1>5, <2>1
  <2>3. ~Stale(first.t.slots[i], now) BY <1>1, <2>1 DEF StaleAt, N
  <2>4. Sweep[i] = first BY <2>2, <2>3 DEF SweepStep
  <2>5. QED BY <2>1, <2>4 DEF i
<1>6. N \in Good
  <2> HIDE DEF Good
  <2>1. \A n \in 0 .. N : n \in Good BY <1>1, <1>4, <1>5, UpTo
  <2>2. QED BY <1>1, <2>1
<1>7. N - N = 0 BY <1>1
<1>8. QED BY <1>3, <1>6, <1>7

-----------------------------------------------------------------------------
(* The three tables, and what the GPU has *)
SlotOk(kind, s, now) == /\ s.object[1] = kind /\ s.object[2] = s.info
                        /\ s.used <= now /\ s.info \in InfosOf(kind)
TablesOk(T, now) == \A k \in Kinds :
  /\ T[k] \in Table /\ UniqueInfos(T[k])
  /\ \A i \in 0 .. T[k].count - 1 : SlotOk(k, T[k].slots[i], now)

HasObject(T, k, o) == \E i \in 0 .. T[k].count - 1 : o = T[k].slots[i].object
ObjectsIn(T) == {o \in Objects : \E k \in Kinds : HasObject(T, k, o)}

(* An object is in the table of its kind, drawn with in frame since or     *)
(* later.                                                                  *)
Holds(t, info, object, since) == \E i \in 0 .. t.count - 1 :
  /\ t.slots[i].info = info /\ t.slots[i].object = object /\ t.slots[i].used >= since

LEMMA SlotTyped ==
  ASSUME NEW t \in Table, NEW i \in 0 .. t.count - 1
  PROVE  /\ t.slots[i] \in Slot /\ t.slots[i].object \in Objects /\ t.slots[i].used \in Nat
         /\ t.slots[i].info \in Infos /\ t.slots[i].sets \in Nat
<1>1. t.count \in 0 .. MaxDrawables /\ t.slots \in [0 .. MaxDrawables - 1 -> Slot]
  BY DEF Table
<1>2. i \in 0 .. MaxDrawables - 1 BY <1>1, SizesAssumption
<1>3. t.slots[i] \in Slot BY <1>1, <1>2
<1>4. QED BY <1>3 DEF Slot

(* What destroy_stale_data makes of the tables. *)
Destroyed(T, now, lv) == [k \in Kinds |-> Reclaimed(T[k], now, lv)]
TablesOf(R)   == [k \in Kinds |-> R[k].t]
LiveOf(R, lv) == {o \in lv : \A k \in Kinds : o \in R[k].live}
BadOf(R)      == UNION {R[k].bad : k \in Kinds}

ReclaimsAll(R, T, now, lv) ==
  /\ TablesOk(TablesOf(R), now) /\ LiveOf(R, lv) = ObjectsIn(TablesOf(R))
  /\ BadOf(R) = {} /\ R["instance"].sets \in Nat
  /\ \A k \in Kinds : TablesOf(R)[k] = R[k].t /\ Reclaims(R[k], T[k], now, lv)

LEMMA DestroyedTables ==
  ASSUME NEW T, NEW now, TablesOk(T, now), NEW lv, lv = ObjectsIn(T)
  PROVE  ReclaimsAll(Destroyed(T, now, lv), T, now, lv)
<1> DEFINE R   == Destroyed(T, now, lv)
           T2  == TablesOf(R)
           lv2 == LiveOf(R, lv)
<1>0. /\ \A k \in Kinds : R[k] = Reclaimed(T[k], now, lv) /\ T2[k] = R[k].t
      /\ \A o : o \in lv2 <=> o \in lv /\ \A k \in Kinds : o \in R[k].live
  BY DEF Destroyed, TablesOf, LiveOf
<1> HIDE DEF R, T2, lv2
<1>1. ASSUME NEW k \in Kinds
      PROVE  /\ T[k] \in Table /\ UniqueInfos(T[k]) /\ Named(T[k])
             /\ \A l \in 0 .. T[k].count - 1 : T[k].slots[l].object \in lv
  <2>1. T[k] \in Table /\ UniqueInfos(T[k]) BY DEF TablesOk
  <2>2. Named(T[k]) BY DEF TablesOk, SlotOk, Named
  <2>3. \A l \in 0 .. T[k].count - 1 : T[k].slots[l].object \in lv
    BY <2>1, SlotTyped DEF ObjectsIn, HasObject
  <2>4. QED BY <2>1, <2>2, <2>3
<1>2. ASSUME NEW k \in Kinds PROVE Reclaims(R[k], T[k], now, lv) /\ T2[k] = R[k].t
  BY <1>0, <1>1, ReclaimedTable
<1>3. TablesOk(T2, now)
  <2> SUFFICES ASSUME NEW k \in Kinds
               PROVE  /\ T2[k] \in Table /\ UniqueInfos(T2[k])
                      /\ \A i \in 0 .. T2[k].count - 1 : SlotOk(k, T2[k].slots[i], now)
    BY DEF TablesOk
  <2>1. ASSUME NEW i \in 0 .. T2[k].count - 1 PROVE SlotOk(k, T2[k].slots[i], now)
    <3>1. PICK l \in 0 .. T[k].count - 1 : T2[k].slots[i] = T[k].slots[l]
      BY <1>2 DEF Reclaims
    <3>2. QED BY <3>1 DEF TablesOk
  <2>2. QED BY <1>2, <2>1 DEF Reclaims
<1>4. ASSUME NEW o, o \in lv2 PROVE o \in ObjectsIn(T2)
  <2>1. o \in lv /\ \A k \in Kinds : o \in R[k].live BY <1>0, <1>4
  <2>9. o \in Objects BY <2>1 DEF ObjectsIn
  <2>2. PICK k \in Kinds : \E l \in 0 .. T[k].count - 1 : o = T[k].slots[l].object
    BY <2>1 DEF ObjectsIn, HasObject
  <2>0. PICK l \in 0 .. T[k].count - 1 : o = T[k].slots[l].object BY <2>2
  <2>3. o \notin Gone(T[k], 0, now) BY <1>2, <2>1 DEF Reclaims
  <2>4. l >= 0 OBVIOUS
  <2>5. ~StaleAt(T[k], l, now) BY <2>0, <2>3, <2>4, <2>9 DEF Gone
  <2>6. PICK j \in 0 .. R[k].t.count - 1 : R[k].t.slots[j] = T[k].slots[l]
    BY <1>2, <2>5 DEF Reclaims
  <2>7. HasObject(T2, k, o) BY <1>2, <2>0, <2>6 DEF HasObject
  <2>8. QED BY <2>7, <2>9 DEF ObjectsIn
<1>5. ASSUME NEW o, o \in ObjectsIn(T2) PROVE o \in lv2
  <2>0. PICK k \in Kinds : \E j \in 0 .. T2[k].count - 1 : o = T2[k].slots[j].object
    BY <1>5 DEF ObjectsIn, HasObject
  <2>1. PICK j \in 0 .. T2[k].count - 1 : o = T2[k].slots[j].object BY <2>0
  <2>2. PICK l \in 0 .. T[k].count - 1 : T2[k].slots[j] = T[k].slots[l]
                                         /\ ~StaleAt(T[k], l, now)
    BY <1>2, <2>1 DEF Reclaims
  <2>3. o = T[k].slots[l].object /\ o \in lv BY <1>1, <2>1, <2>2
  <2>4. ASSUME NEW k2 \in Kinds, o \in Gone(T[k2], 0, now) PROVE FALSE
    <3>1. PICK l2 \in 0 .. T[k2].count - 1 : StaleAt(T[k2], l2, now)
                                             /\ o = T[k2].slots[l2].object
      BY <2>4 DEF Gone
    <3>2. /\ T[k].slots[l].object[1] = k /\ T[k].slots[l].object[2] = T[k].slots[l].info
          /\ T[k2].slots[l2].object[1] = k2
          /\ T[k2].slots[l2].object[2] = T[k2].slots[l2].info
      BY DEF TablesOk, SlotOk
    <3>3. k = k2 /\ T[k].slots[l].info = T[k].slots[l2].info BY <2>3, <3>1, <3>2
    <3>4. l = l2 BY <1>1, <3>3 DEF UniqueInfos
    <3>5. QED BY <2>2, <3>1, <3>3, <3>4
  <2>5. \A k2 \in Kinds : o \in R[k2].live BY <1>2, <2>3, <2>4 DEF Reclaims
  <2>6. QED BY <1>0, <2>3, <2>5
<1>6. lv2 = ObjectsIn(T2) BY <1>4, <1>5
<1>7. BadOf(R) = {} /\ R["instance"].sets \in Nat
  <2>1. \A k \in Kinds : R[k].bad = {} /\ R[k].sets \in Nat BY <1>2 DEF Reclaims
  <2>2. "instance" \in Kinds BY DEF Kinds
  <2>3. QED BY <2>1, <2>2 DEF BadOf
<1>8. ReclaimsAll(R, T, now, lv)
  BY <1>2, <1>3, <1>6, <1>7 DEF ReclaimsAll, T2, lv2
<1>9. QED BY <1>8 DEF R

LEMMA HeldStays ==
  ASSUME NEW t \in Table, NEW now, NEW before, NEW R, Reclaims(R, t, now, before),
         NEW info, NEW object, NEW since, Holds(t, info, object, since),
         now \in Int, since \in Int, since + FrameCount > now
  PROVE  Holds(R.t, info, object, since)
<1>1. PICK l \in 0 .. t.count - 1 : /\ t.slots[l].info = info /\ t.slots[l].object = object
                                    /\ t.slots[l].used >= since
  BY DEF Holds
<1>2. ~StaleAt(t, l, now)
  <2>1. t.slots[l].used \in Nat BY SlotTyped
  <2>2. FrameCount \in Nat BY FramesAssumption
  <2>3. QED BY <1>1, <2>1, <2>2 DEF StaleAt, Stale
<1>3. PICK j \in 0 .. R.t.count - 1 : R.t.slots[j] = t.slots[l] BY <1>2 DEF Reclaims
<1>4. QED BY <1>1, <1>3 DEF Holds

-----------------------------------------------------------------------------
(* create_or_get_*_for_model_command *)

(* What was never used holds no object; only instances' slots are used     *)
(* again.                                                                  *)
FreshSlots(k, t) == k # "instance" =>
                      \A i \in t.count .. MaxDrawables - 1 : t.slots[i].object = NULL

LEMMA PlaceIs ==
  ASSUME NEW k, NEW info, table[k] \in Table
  PROVE  LET i == Place(k, info)
         IN \/ i \in Used(k) /\ table[k].slots[i].info = info
            \/ i = table[k].count /\ \A j \in Used(k) : table[k].slots[j].info # info
<1> DEFINE found == {i \in Used(k) : table[k].slots[i].info = info}
<1>1. CASE found = {} BY <1>1 DEF Place
<1>2. CASE found # {}
  <2>1. found \in SUBSET Nat BY SizesAssumption DEF Used, Table
  <2>2. \E i \in found : \A j \in found : i <= j BY <1>2, <2>1, SmallestIn
  <2>3. Place(k, info) \in found BY <1>2, <2>2 DEF Place
  <2>4. QED BY <2>3
<1>3. QED BY <1>1, <1>2

Gets(k, info, t2, o) ==
  /\ t2 \in Table /\ UniqueInfos(t2) /\ FreshSlots(k, t2)
  /\ \A i \in 0 .. t2.count - 1 : SlotOk(k, t2.slots[i], frame_counter)
  /\ o \in Objects /\ o[1] = k /\ o[2] = info
  /\ Holds(t2, info, o, frame_counter)
  /\ \A x, y : \A since \in Int : since <= frame_counter /\ Holds(table[k], x, y, since)
                                   => Holds(t2, x, y, since)
  /\ \A z : (\E i \in 0 .. t2.count - 1 : z = t2.slots[i].object)
            <=> HasObject(table, k, z) \/ (Creates(k, info) /\ z = Object(k, info))

LEMMA GetsOne ==
  ASSUME TablesOk(table, frame_counter), NEW k \in Kinds, FreshSlots(k, table[k]),
         NEW info \in InfosOf(k), Place(k, info) < MaxDrawables,
         frame_counter \in Nat, freeSets \in Nat
  PROVE  Gets(k, info, CreateOrGet(k, info), ObjectFor(k, info))
<1> DEFINE t  == table[k]
           n  == t.count
           p  == Place(k, info)
           o  == ObjectFor(k, info)
           fc == frame_counter
           sets == SetsFor(k, info)
           new == [info |-> info, object |-> o, used |-> fc, sets |-> sets]
           slots2 == [t.slots EXCEPT ![p] = new]
           t2 == CreateOrGet(k, info)
           M  == MaxDrawables
<1>1. /\ t \in Table /\ UniqueInfos(t) /\ M \in Nat /\ n \in 0 .. M
      /\ t.slots \in [0 .. M - 1 -> Slot]
      /\ \A i \in 0 .. n - 1 : SlotOk(k, t.slots[i], fc)
  BY SizesAssumption DEF TablesOk, Table
<1>2. \/ p \in 0 .. n - 1 /\ t.slots[p].info = info
      \/ p = n /\ \A j \in 0 .. n - 1 : t.slots[j].info # info
  BY <1>1, PlaceIs DEF Used
<1>3. p \in 0 .. M - 1 BY <1>1, <1>2
<1>4. info \in Infos /\ Object(k, info) \in Objects /\ Object(k, info)[1] = k
      /\ Object(k, info)[2] = info
  BY DEF Infos, Objects, Object
<1>5. \A i \in 0 .. n - 1 : t.slots[i].object \in Objects /\ t.slots[i].object[1] = k
                            /\ t.slots[i].object # NULL /\ t.slots[i].sets \in Nat
                            /\ t.slots[i].used \in Nat
  <2> TAKE i \in 0 .. n - 1
  <2>1. t.slots[i].object[1] = k BY <1>1 DEF SlotOk
  <2>2. NULL[1] # k BY DEF NULL, Kinds
  <2>3. QED BY <1>1, <2>1, <2>2, SlotTyped
<1>6. Creates(k, info) <=> p = n
  <2>1. CASE p \in 0 .. n - 1
    <3>1. p # n BY <1>1, <2>1
    <3>2. QED BY <1>5, <2>1, <3>1 DEF Creates
  <2>2. CASE p = n
    <3>1. k # "instance" => t.slots[n].object = NULL BY <1>1, <1>3, <2>2 DEF FreshSlots
    <3>2. QED BY <2>2, <3>1 DEF Creates
  <2>3. QED BY <1>2, <2>1, <2>2
<1>7. o = IF p = n THEN Object(k, info) ELSE t.slots[p].object
  BY <1>6 DEF ObjectFor
<1>8. p # n => p \in 0 .. n - 1 /\ t.slots[p].info = info BY <1>2
<1>9. o \in Objects /\ o[1] = k /\ o[2] = info
  BY <1>1, <1>4, <1>5, <1>7, <1>8 DEF SlotOk
<1>10. sets \in Nat
  <2>1. FrameCount \in Nat BY FramesAssumption
  <2>2. p # n => t.slots[p].sets \in Nat BY <1>5, <1>8
  <2>3. CASE Creates(k, info) BY <2>1, <2>3 DEF SetsFor
  <2>4. CASE ~Creates(k, info) BY <1>6, <2>2, <2>4 DEF SetsFor
  <2>5. QED BY <2>3, <2>4
<1>11. new \in Slot BY <1>4, <1>9, <1>10 DEF Slot
<1>12. t2 = [count |-> IF p = n THEN p + 1 ELSE n, slots |-> slots2] BY DEF CreateOrGet
<1>24. \A i, j \in 0 .. n - 1 : t.slots[i].info = t.slots[j].info => i = j
  BY <1>1 DEF UniqueInfos
<1> HIDE DEF t, t2, o, sets, p, n
<1>13. /\ slots2 \in [0 .. M - 1 -> Slot] /\ slots2[p] = new
       /\ \A i \in 0 .. M - 1 : i # p => slots2[i] = t.slots[i]
  <2> HIDE DEF new
  <2>1. QED BY <1>1, <1>3, <1>11
<1> HIDE DEF slots2
<1>14. /\ t2.slots = slots2 /\ t2.count = IF p = n THEN n + 1 ELSE n
       /\ t2.count \in 0 .. M /\ p \in 0 .. t2.count - 1 /\ n <= t2.count
       /\ \A i \in 0 .. t2.count - 1 : i \in 0 .. M - 1 /\ (i = p \/ i \in 0 .. n - 1)
       /\ \A i \in 0 .. n - 1 : i \in 0 .. t2.count - 1 /\ i \in 0 .. M - 1
  BY <1>1, <1>2, <1>3, <1>12
<1>15. t2 \in Table BY <1>12, <1>13, <1>14 DEF Table
<1>16. \A i \in 0 .. n - 1 : i # p => t.slots[i].info # info
  BY <1>2, <1>24
<1>17. UniqueInfos(t2)
  <2> SUFFICES ASSUME NEW i \in 0 .. t2.count - 1, NEW j \in 0 .. t2.count - 1,
                      slots2[i].info = slots2[j].info
               PROVE  i = j
    BY <1>14 DEF UniqueInfos
  <2>1. CASE i = p /\ j = p BY <2>1
  <2>2. CASE i # p /\ j = p
    <3>1. i \in 0 .. n - 1 /\ slots2[i] = t.slots[i] /\ slots2[j].info = info
      BY <1>13, <1>14, <2>2
    <3>2. QED BY <1>16, <2>2, <3>1
  <2>3. CASE i = p /\ j # p
    <3>1. j \in 0 .. n - 1 /\ slots2[j] = t.slots[j] /\ slots2[i].info = info
      BY <1>13, <1>14, <2>3
    <3>2. QED BY <1>16, <2>3, <3>1
  <2>4. CASE i # p /\ j # p
    <3>1. i \in 0 .. n - 1 /\ slots2[i] = t.slots[i] /\ j \in 0 .. n - 1 /\ slots2[j] = t.slots[j]
      BY <1>13, <1>14, <2>4
    <3>2. t.slots[i].info = t.slots[j].info BY <3>1
    <3>3. QED BY <1>24, <3>1, <3>2
  <2>5. QED BY <2>1, <2>2, <2>3, <2>4
<1>18. FreshSlots(k, t2)
  <2> SUFFICES ASSUME k # "instance", NEW i \in t2.count .. M - 1 PROVE slots2[i].object = NULL
    BY <1>14 DEF FreshSlots
  <2>1. i \in n .. M - 1 /\ i # p /\ i \in 0 .. M - 1 BY <1>1, <1>14
  <2>2. QED BY <1>13, <2>1 DEF FreshSlots, t, n
<1>19. \A i \in 0 .. t2.count - 1 : SlotOk(k, t2.slots[i], fc)
  <2> TAKE i \in 0 .. t2.count - 1
  <2>1. CASE i = p BY <1>9, <1>13, <1>14, <2>1 DEF SlotOk
  <2>2. CASE i # p BY <1>1, <1>13, <1>14, <2>2
  <2>3. QED BY <2>1, <2>2
<1>20. Holds(t2, info, o, fc)
  <2>1. fc >= fc OBVIOUS
  <2>2. QED BY <1>13, <1>14, <2>1 DEF Holds
<1>21. ASSUME NEW x, NEW y, NEW since \in Int, since <= fc, Holds(t, x, y, since)
       PROVE  Holds(t2, x, y, since)
  <2>1. PICK i \in 0 .. n - 1 : /\ t.slots[i].info = x /\ t.slots[i].object = y
                                /\ t.slots[i].used >= since
    BY <1>21 DEF Holds, n
  <2>2. CASE i # p BY <1>13, <1>14, <2>1, <2>2 DEF Holds
  <2>3. CASE i = p
    <3>1. p # n /\ t.slots[p].info = info BY <1>1, <1>8, <2>3
    <3>2. slots2[p].info = x /\ slots2[p].object = y /\ slots2[p].used = fc
      BY <1>7, <1>13, <2>1, <2>3, <3>1
    <3>3. fc >= since BY <1>21
    <3>4. QED BY <1>14, <3>2, <3>3 DEF Holds
  <2>4. QED BY <2>2, <2>3
<1>22. ASSUME NEW z
       PROVE  (\E i \in 0 .. t2.count - 1 : z = t2.slots[i].object)
              <=> HasObject(table, k, z) \/ (Creates(k, info) /\ z = Object(k, info))
  <2>1. HasObject(table, k, z) <=> \E i \in 0 .. n - 1 : z = t.slots[i].object
    BY DEF HasObject, t, n
  <2>2. \A i \in 0 .. n - 1 : slots2[i].object = t.slots[i].object
    <3> TAKE i \in 0 .. n - 1
    <3>1. CASE i # p BY <1>13, <1>14, <3>1
    <3>2. CASE i = p
      <4>1. p # n BY <1>1, <3>2
      <4>2. QED BY <1>7, <1>13, <3>2, <4>1
    <3>3. QED BY <3>1, <3>2
  <2>3. CASE p = n
    <3>1. slots2[p].object = Object(k, info) /\ Creates(k, info)
      BY <1>6, <1>7, <1>13, <2>3
    <3>2. QED BY <1>14, <2>1, <2>2, <3>1
  <2>4. CASE p # n
    <3>1. ~Creates(k, info) /\ t2.count = n BY <1>6, <1>14, <2>4
    <3>2. QED BY <1>14, <2>1, <2>2, <3>1
  <2>5. QED BY <2>3, <2>4
<1>23. QED
  <2>1. Gets(k, info, t2, o)
    BY <1>9, <1>15, <1>17, <1>18, <1>19, <1>20, <1>21, <1>22 DEF Gets, t
  <2>2. QED BY <2>1 DEF t2, o

-----------------------------------------------------------------------------
(* The frames in the queue.  cur are the models drawn in the frame being   *)
(* recorded; Segment is what the frame is made of after n more commands.   *)
NoDone(q, a, b) == \A l \in a .. b : q[l] # Done
Since(q, n) == {m \in Models : \E j \in 1 .. n : q[j] = m /\ NoDone(q, j, n)}
Segment(q, n, cur) == IF NoDone(q, 1, n) THEN Since(q, n) \cup cur ELSE Since(q, n)

(* Main draws what it has to keep in every frame. *)
Covers(S) == Kept \subseteq {m[2] : m \in S} \cup {m[3] : m \in S}

(* What main has pushed for its frame is the last segment, and each end of *)
(* frame comes after all that is kept.                                     *)
Flow(q, cur, pu) ==
  /\ pu = Segment(q, Len(q), cur)
  /\ \A n \in 1 .. Len(q) : q[n] = Done => Covers(Segment(q, n - 1, cur))

LEMMA SegmentFirst ==
  ASSUME NEW q, NEW cur PROVE Segment(q, 0, cur) = cur
BY DEF Segment, Since, NoDone

LEMMA SegmentPushed ==
  ASSUME NEW A, NEW q \in Seq(A), NEW x, NEW cur, cur \subseteq Models,
         NEW n \in 0 .. Len(q)
  PROVE  Segment(Append(q, x), n, cur) = Segment(q, n, cur)
<1>1. \A l \in 1 .. n : Append(q, x)[l] = q[l] OBVIOUS
<1>2. NoDone(Append(q, x), 1, n) <=> NoDone(q, 1, n) BY <1>1 DEF NoDone
<1>3. \A j \in 1 .. n : NoDone(Append(q, x), j, n) <=> NoDone(q, j, n)
  <2> TAKE j \in 1 .. n
  <2>1. \A l \in j .. n : l \in 1 .. n OBVIOUS
  <2>2. QED BY <1>1, <2>1 DEF NoDone
<1>4. Since(Append(q, x), n) = Since(q, n) BY <1>1, <1>3 DEF Since
<1>5. QED BY <1>2, <1>4 DEF Segment

LEMMA SegmentLast ==
  ASSUME NEW A, NEW q \in Seq(A), NEW x, NEW cur, cur \subseteq Models
  PROVE  LET s2 == Segment(Append(q, x), Len(q) + 1, cur)
             s  == Segment(q, Len(q), cur)
         IN /\ x = Done => s2 = {}
            /\ x # Done /\ x \in Models => s2 = s \cup {x}
            /\ x # Done /\ x \notin Models => s2 = s
<1> DEFINE L  == Len(q)
           q2 == Append(q, x)
<1>1. L \in Nat /\ L + 1 \in 1 .. L + 1 /\ q2[L + 1] = x
      /\ \A l \in 1 .. L : q2[l] = q[l] /\ l \in 1 .. L + 1
  OBVIOUS
<1> HIDE DEF L, q2
<1>2. \A j \in 1 .. L + 1 : NoDone(q2, j, L + 1) <=> x # Done /\ NoDone(q, j, L)
  <2> TAKE j \in 1 .. L + 1
  <2>1. \A l \in j .. L + 1 : l = L + 1 \/ l \in j .. L BY <1>1
  <2>2. \A l \in j .. L : l \in 1 .. L /\ l \in j .. L + 1 BY <1>1
  <2>3. L + 1 \in j .. L + 1 BY <1>1
  <2>4. QED BY <1>1, <2>1, <2>2, <2>3 DEF NoDone
<1>3. CASE x = Done
  <2>1. Since(q2, L + 1) = {} BY <1>2, <1>3 DEF Since
  <2>2. ~NoDone(q2, 1, L + 1) BY <1>1, <1>2, <1>3
  <2>3. Segment(q2, L + 1, cur) = {} BY <2>1, <2>2 DEF Segment
  <2>4. QED BY <1>3, <2>3 DEF L, q2
<1>4. CASE x # Done
  <2>1. NoDone(q, L + 1, L) BY <1>1 DEF NoDone
  <2>2. \A m \in Models : m \in Since(q2, L + 1) <=> m \in Since(q, L) \/ m = x
    <3> TAKE m \in Models
    <3>1. ASSUME NEW j \in 1 .. L + 1, q2[j] = m, NoDone(q2, j, L + 1)
          PROVE  m \in Since(q, L) \/ m = x
      <4>1. CASE j = L + 1 BY <1>1, <3>1, <4>1
      <4>2. CASE j \in 1 .. L BY <1>1, <1>2, <3>1, <4>2 DEF Since
      <4>3. QED BY <1>1, <4>1, <4>2
    <3>2. ASSUME NEW j \in 1 .. L, q[j] = m, NoDone(q, j, L) PROVE m \in Since(q2, L + 1)
      <4>1. j \in 1 .. L + 1 /\ q2[j] = m BY <1>1, <3>2
      <4>2. NoDone(q2, j, L + 1) BY <1>2, <1>4, <3>2, <4>1
      <4>3. QED BY <4>1, <4>2 DEF Since
    <3>3. ASSUME m = x PROVE m \in Since(q2, L + 1)
      <4>1. NoDone(q2, L + 1, L + 1) BY <1>1, <1>2, <1>4, <2>1
      <4>2. QED BY <1>1, <3>3, <4>1 DEF Since
    <3>4. QED BY <3>1, <3>2, <3>3 DEF Since
  <2>3. NoDone(q2, 1, L + 1) <=> NoDone(q, 1, L) BY <1>1, <1>2, <1>4
  <2>4. Since(q2, L + 1) \subseteq Models /\ Since(q, L) \subseteq Models BY DEF Since
  <2>5. x \in Models => Segment(q2, L + 1, cur) = Segment(q, L, cur) \cup {x}
    <3> SUFFICES ASSUME x \in Models
                 PROVE  Segment(q2, L + 1, cur) = Segment(q, L, cur) \cup {x}
      OBVIOUS
    <3>1. Since(q2, L + 1) = Since(q, L) \cup {x} BY <2>2, <2>4
    <3>2. CASE NoDone(q, 1, L) BY <2>3, <3>1, <3>2 DEF Segment
    <3>3. CASE ~NoDone(q, 1, L) BY <2>3, <3>1, <3>3 DEF Segment
    <3>4. QED BY <3>2, <3>3
  <2>6. x \notin Models => Segment(q2, L + 1, cur) = Segment(q, L, cur)
    <3> SUFFICES ASSUME x \notin Models
                 PROVE  Segment(q2, L + 1, cur) = Segment(q, L, cur)
      OBVIOUS
    <3>1. Since(q2, L + 1) = Since(q, L) BY <2>2, <2>4
    <3>2. QED BY <2>3, <3>1 DEF Segment
  <2>7. QED BY <1>4, <2>5, <2>6 DEF L, q2
<1>5. QED BY <1>3, <1>4

LEMMA SegmentPopped ==
  ASSUME NEW A, NEW q \in Seq(A), q # <<>>, NEW cur, NEW cur2,
         cur2 = IF Head(q) = Done THEN {}
                ELSE IF Head(q) \in Models THEN cur \cup {Head(q)} ELSE cur,
         cur \subseteq Models, NEW n \in 0 .. Len(Tail(q))
  PROVE  Segment(Tail(q), n, cur2) = Segment(q, n + 1, cur)
<1> DEFINE h  == Head(q)
           q2 == Tail(q)
<1>1. /\ Len(q) \in Nat \ {0} /\ Len(q2) = Len(q) - 1 /\ h = q[1] /\ n \in Nat
      /\ n + 1 <= Len(q)
  OBVIOUS
<1>2. \A l \in 1 .. n : q2[l] = q[l + 1] BY <1>1
<1> HIDE DEF h, q2
<1>3. \A j \in 1 .. n + 1 : NoDone(q2, j, n) <=> NoDone(q, j + 1, n + 1)
  <2> TAKE j \in 1 .. n + 1
  <2>1. \A l \in j .. n : l \in 1 .. n /\ l + 1 \in j + 1 .. n + 1 BY <1>1
  <2>2. \A l \in j + 1 .. n + 1 : l - 1 \in j .. n /\ l - 1 \in 1 .. n /\ (l - 1) + 1 = l BY <1>1
  <2>3. ASSUME NoDone(q2, j, n), NEW l \in j + 1 .. n + 1 PROVE q[l] # Done
    <3>1. q2[l - 1] = q[l] BY <1>2, <2>2
    <3>2. q2[l - 1] # Done BY <2>2, <2>3 DEF NoDone
    <3>3. QED BY <3>1, <3>2
  <2>4. ASSUME NoDone(q, j + 1, n + 1), NEW l \in j .. n PROVE q2[l] # Done
    BY <1>2, <2>1, <2>4 DEF NoDone
  <2>5. QED BY <2>3, <2>4 DEF NoDone
<1>4. NoDone(q, 1, n + 1) <=> h # Done /\ NoDone(q2, 1, n)
  <2>1. \A l \in 1 .. n + 1 : l = 1 \/ l \in 1 + 1 .. n + 1 BY <1>1
  <2>2. 1 \in 1 .. n + 1 /\ \A l \in 1 + 1 .. n + 1 : l \in 1 .. n + 1 BY <1>1
  <2>3. NoDone(q, 1, n + 1) <=> h # Done /\ NoDone(q, 1 + 1, n + 1)
    BY <1>1, <2>1, <2>2 DEF NoDone
  <2>4. QED BY <1>3, <2>2, <2>3
<1>5. \A m \in Models : m \in Since(q, n + 1)
                          <=> m \in Since(q2, n) \/ (m = h /\ NoDone(q, 1, n + 1))
  <2> TAKE m \in Models
  <2>1. ASSUME NEW j \in 1 .. n + 1, q[j] = m, NoDone(q, j, n + 1)
        PROVE  m \in Since(q2, n) \/ (m = h /\ NoDone(q, 1, n + 1))
    <3>1. CASE j = 1 BY <1>1, <2>1, <3>1
    <3>2. CASE j # 1
      <4>1. j - 1 \in 1 .. n /\ (j - 1) + 1 = j /\ j - 1 \in 1 .. n + 1 BY <1>1, <3>2
      <4>2. q2[j - 1] = m BY <1>2, <2>1, <4>1
      <4>3. NoDone(q2, j - 1, n) BY <1>3, <2>1, <4>1
      <4>4. QED BY <4>1, <4>2, <4>3 DEF Since
    <3>3. QED BY <3>1, <3>2
  <2>2. ASSUME NEW j \in 1 .. n, q2[j] = m, NoDone(q2, j, n) PROVE m \in Since(q, n + 1)
    <3>1. j + 1 \in 1 .. n + 1 /\ j \in 1 .. n + 1 BY <1>1
    <3>2. q[j + 1] = m /\ NoDone(q, j + 1, n + 1) BY <1>2, <1>3, <2>2, <3>1
    <3>3. QED BY <3>1, <3>2 DEF Since
  <2>3. ASSUME m = h, NoDone(q, 1, n + 1) PROVE m \in Since(q, n + 1)
    <3>1. 1 \in 1 .. n + 1 BY <1>1
    <3>2. QED BY <1>1, <2>3, <3>1 DEF Since
  <2>4. QED BY <2>1, <2>2, <2>3 DEF Since
<1>6. Since(q, n + 1) \subseteq Models /\ Since(q2, n) \subseteq Models BY DEF Since
<1>7. cur2 = IF h = Done THEN {} ELSE IF h \in Models THEN cur \cup {h} ELSE cur BY DEF h
<1>8. Segment(q2, n, cur2) = Segment(q, n + 1, cur)
  <2>1. CASE h = Done
    <3>1. cur2 = {} /\ ~NoDone(q, 1, n + 1) BY <1>4, <1>7, <2>1
    <3>2. Since(q, n + 1) = Since(q2, n) BY <1>5, <1>6, <3>1
    <3>3. QED BY <3>1, <3>2 DEF Segment
  <2>2. CASE h # Done /\ NoDone(q2, 1, n)
    <3>1. NoDone(q, 1, n + 1) BY <1>4, <2>2
    <3>2. Since(q, n + 1) = Since(q2, n) \cup (IF h \in Models THEN {h} ELSE {})
      BY <1>5, <1>6, <3>1
    <3>3. QED BY <1>7, <2>2, <3>1, <3>2 DEF Segment
  <2>3. CASE h # Done /\ ~NoDone(q2, 1, n)
    <3>1. ~NoDone(q, 1, n + 1) BY <1>4, <2>3
    <3>2. Since(q, n + 1) = Since(q2, n) BY <1>5, <1>6, <3>1
    <3>3. QED BY <2>3, <3>1, <3>2 DEF Segment
  <2>4. QED BY <2>1, <2>2, <2>3
<1>9. QED BY <1>8 DEF q2

LEMMA FlowPushed ==
  ASSUME NEW A, NEW q \in Seq(A), NEW x, NEW cur, cur \subseteq Models, NEW pu,
         Flow(q, cur, pu), x = Done => Covers(pu)
  PROVE  Flow(Append(q, x), cur, IF x = Done THEN {} ELSE IF x \in Models THEN pu \cup {x} ELSE pu)
<1> DEFINE L  == Len(q)
           q2 == Append(q, x)
<1>1. L \in Nat /\ Len(q2) = L + 1 /\ q2[L + 1] = x /\ \A l \in 1 .. L : q2[l] = q[l]
      /\ (L + 1) - 1 = L
  OBVIOUS
<1>2. pu = Segment(q, L, cur) BY DEF Flow
<1>3. Segment(q2, L + 1, cur) = IF x = Done THEN {}
                                ELSE IF x \in Models THEN pu \cup {x} ELSE pu
  BY <1>2, SegmentLast
<1>4. ASSUME NEW n \in 1 .. L + 1, q2[n] = Done PROVE Covers(Segment(q2, n - 1, cur))
  <2>1. n - 1 \in 0 .. L BY <1>1
  <2>2. Segment(q2, n - 1, cur) = Segment(q, n - 1, cur) BY <2>1, SegmentPushed
  <2>3. CASE n = L + 1 BY <1>1, <1>2, <1>4, <2>2, <2>3
  <2>4. CASE n \in 1 .. L BY <1>1, <1>4, <2>2, <2>4 DEF Flow
  <2>5. QED BY <1>1, <2>3, <2>4
<1> HIDE DEF q2, L
<1>5. QED BY <1>1, <1>3, <1>4 DEF Flow, q2

LEMMA FlowPopped ==
  ASSUME NEW A, NEW q \in Seq(A), q # <<>>, NEW cur, NEW cur2,
         cur2 = IF Head(q) = Done THEN {}
                ELSE IF Head(q) \in Models THEN cur \cup {Head(q)} ELSE cur,
         cur \subseteq Models, NEW pu, Flow(q, cur, pu)
  PROVE  /\ Flow(Tail(q), cur2, pu)
         /\ Head(q) = Done => Covers(cur)
<1> DEFINE q2 == Tail(q)
<1>1. /\ Len(q) \in Nat \ {0} /\ Len(q2) = Len(q) - 1 /\ Head(q) = q[1]
      /\ \A n \in 1 .. Len(q2) : q2[n] = q[n + 1]
  OBVIOUS
<1>2. \A n \in 0 .. Len(q2) : Segment(q2, n, cur2) = Segment(q, n + 1, cur)
  BY SegmentPopped
<1>3. pu = Segment(q2, Len(q2), cur2)
  <2>1. Len(q2) \in 0 .. Len(q2) /\ Len(q2) + 1 = Len(q) BY <1>1
  <2>2. QED BY <1>2, <2>1 DEF Flow
<1>4. ASSUME NEW n \in 1 .. Len(q2), q2[n] = Done PROVE Covers(Segment(q2, n - 1, cur2))
  <2>1. n - 1 \in 0 .. Len(q2) /\ (n - 1) + 1 = n /\ n + 1 \in 1 .. Len(q) /\ (n + 1) - 1 = n
    BY <1>1
  <2>2. Segment(q2, n - 1, cur2) = Segment(q, n, cur) BY <1>2, <2>1
  <2>3. q[n + 1] = Done BY <1>1, <1>4
  <2>4. QED BY <2>1, <2>2, <2>3 DEF Flow
<1>5. Head(q) = Done => Covers(cur)
  <2>1. 1 \in 1 .. Len(q) /\ 1 - 1 = 0 BY <1>1
  <2>2. QED BY <1>1, <2>1, SegmentFirst DEF Flow
<1>6. QED BY <1>3, <1>4, <1>5 DEF Flow

-----------------------------------------------------------------------------
(* The inductive invariant *)

(* What the proofs assume of main: every mesh and shader is drawn in every *)
(* frame, and no info is both.                                             *)
DrawsAll == /\ \A m \in Models : m[2] \in Kept /\ m[3] \in Kept
            /\ \A m, n \in Models : m[2] # n[3]

Draw   == [model : Models, pipeline : Objects, mesh : Objects, instance : Objects]
CmdBuf == [open : BOOLEAN, pipeline : Objects, mesh : Objects, draws : SUBSET Draw]

Commands == Models \cup {Done, Stop}
ThreadsTyped ==
  /\ queue \in Seq(Commands)
  /\ main \in {"running", "joining", "joined", "infos freed"}
  /\ at \in {"pop", "fence", "wait idle", "exited"}
  /\ pushed \subseteq Models
BuffersTyped ==
  /\ cmdbuf \in CmdBuf
  /\ frame_index \in Indices /\ fence \in [Indices -> {"signaled", "reset"}]
  /\ inFlight \in Seq([index : Indices, draws : SUBSET Draw])
TypeOK == ThreadsTyped /\ BuffersTyped /\ frame_counter \in Nat /\ freeSets \in Nat

(* The frames main pushes reach the end of frame whole, and a stop is the  *)
(* last command.                                                           *)
ModelsOf(draws) == {d.model : d \in draws}
Recorded == IF at = "pop" THEN ModelsOf(cmdbuf.draws) ELSE {}
StopIsLast(q, m) == \A n \in 1 .. Len(q) : q[n] = Stop => n = Len(q) /\ m = "joining"
QueueInv ==
  /\ Flow(queue, Recorded, pushed) /\ StopIsLast(queue, main)
  /\ at = "fence" => Covers(ModelsOf(cmdbuf.draws))
  /\ at \in {"wait idle", "exited"} => queue = <<>> /\ cmdbuf.draws = {} /\ main # "running"
  /\ main # "running" => pushed = {}
  /\ main \in {"joined", "infos freed"} => at = "exited"

(* What the thread remembers to have bound is bound in its command buffer. *)
BindInv == /\ last_pipeline = cmdbuf.pipeline /\ last_mesh = cmdbuf.mesh
           /\ ~cmdbuf.open => cmdbuf = Closed

(* The frames in flight are the last ones before frame_index, in order,    *)
(* and their fences are not signaled.                                      *)
Back(i, j) == IF i >= j THEN i - j ELSE i - j + FrameCount
InOrder(flight, i) == /\ Len(flight) <= FrameCount
                      /\ \A n \in 1 .. Len(flight) : flight[n].index = Back(i, Len(flight) - n + 1)
FenceInv == /\ InOrder(inFlight, frame_index)
            /\ \A n \in 1 .. Len(inFlight) : fence[inFlight[n].index] = "reset"

(* The live objects are those in the tables. *)
StoreInv == /\ TablesOk(table, frame_counter) /\ live = ObjectsIn(table) /\ badDestroys = {}
            /\ at # "exited" => \A k \in Kinds : FreshSlots(k, table[k])
            /\ at = "exited" => inFlight = <<>> /\ live = {}

(* Every draw has its model's objects, and each of them is in its table,   *)
(* drawn with at least as late as in the frame of the draw.                *)
DrawOk(T, d, since) == /\ Holds(T["shader"], d.model[3], d.pipeline, since)
                       /\ Holds(T["mesh"], d.model[2], d.mesh, since)
                       /\ Holds(T["instance"], d.model[1], d.instance, since)
AllOk(T, draws, since) == \A d \in draws : DrawOk(T, d, since)
FlightOk(T, flight, now) == \A n \in 1 .. Len(flight) :
                              AllOk(T, flight[n].draws, now - 1 - (Len(flight) - n))
DrawsInv == /\ AllOk(table, cmdbuf.draws, frame_counter)
            /\ FlightOk(table, inFlight, frame_counter)

IInv == TypeOK /\ QueueInv /\ BindInv /\ FenceInv /\ StoreInv /\ DrawsInv

-----------------------------------------------------------------------------
(* Main's steps *)

(* Sequences *)
LEMMA TailOf ==
  ASSUME NEW A, NEW q \in Seq(A), q # <<>>
  PROVE  /\ Tail(q) \in Seq(A) /\ Head(q) = q[1] /\ Head(q) \in A
         /\ Len(q) \in Nat \ {0} /\ Len(Tail(q)) = Len(q) - 1
         /\ \A n \in 1 .. Len(q) - 1 : Tail(q)[n] = q[n + 1]
OBVIOUS

LEMMA TailOfOne ==
  ASSUME NEW A, NEW q \in Seq(A), Len(q) = 1
  PROVE  Tail(q) = <<>>
<1>1. q # <<>> OBVIOUS
<1>2. Tail(q) \in Seq(A) BY <1>1
<1>3. Len(Tail(q)) = 0 BY <1>1
<1>4. \A s \in Seq(A) : Len(s) = 0 => s = <<>> OBVIOUS
<1>5. QED BY <1>2, <1>3, <1>4

LEMMA AppendOf ==
  ASSUME NEW A, NEW q \in Seq(A), NEW x \in A
  PROVE  /\ Append(q, x) \in Seq(A) /\ Len(q) \in Nat /\ Len(Append(q, x)) = Len(q) + 1
         /\ Append(q, x)[Len(q) + 1] = x
         /\ \A n \in 1 .. Len(q) : Append(q, x)[n] = q[n]
OBVIOUS

(* The queue gets a command. *)
LEMMA PushKeeps ==
  ASSUME ThreadsTyped, NEW x \in Commands, Push(x)
  PROVE  /\ queue' \in Seq(Commands) /\ queue' = Append(queue, x)
         /\ StopIsLast(queue, "running") /\ (x = Stop => main' = "joining") =>
              StopIsLast(queue', main')
<1> DEFINE L  == Len(queue)
           q2 == Append(queue, x)
<1>1. /\ queue' = q2 /\ L \in Nat /\ Len(q2) = L + 1 /\ q2 \in Seq(Commands)
      /\ q2[L + 1] = x /\ \A n \in 1 .. L : q2[n] = queue[n]
  <2>1. queue \in Seq(Commands) /\ queue' = q2 BY DEF ThreadsTyped, Push
  <2>2. QED BY <2>1, AppendOf
<1> HIDE DEF L, q2
<1>2. ASSUME StopIsLast(queue, "running"), x = Stop => main' = "joining"
      PROVE  StopIsLast(queue', main')
  <2> SUFFICES ASSUME NEW n \in 1 .. L + 1, q2[n] = Stop PROVE n = L + 1 /\ main' = "joining"
    BY <1>1 DEF StopIsLast
  <2>1. CASE n = L + 1 BY <1>1, <1>2, <2>1
  <2>2. CASE n \in 1 .. L BY <1>1, <1>2, <2>2 DEF StopIsLast, L
  <2>3. QED BY <1>1, <2>1, <2>2
<1>3. QED BY <1>1, <1>2 DEF q2

LEMMA RecordedModels ==
  ASSUME TypeOK PROVE Recorded \subseteq Models /\ cmdbuf.draws \subseteq Draw
<1>1. cmdbuf.draws \subseteq Draw BY DEF TypeOK, BuffersTyped, CmdBuf
<1>2. \A d \in Draw : d.model \in Models BY DEF Draw
<1>3. ModelsOf(cmdbuf.draws) \subseteq Models BY <1>1, <1>2 DEF ModelsOf
<1>4. QED BY <1>1, <1>3 DEF Recorded

LEMMA StoreKept ==
  ASSUME IInv, UNCHANGED <<at, frame_counter, local, store, device>>
  PROVE  BindInv' /\ FenceInv' /\ StoreInv' /\ DrawsInv' /\ BuffersTyped'
<1>1. /\ at' = at /\ frame_counter' = frame_counter /\ cmdbuf' = cmdbuf
      /\ last_pipeline' = last_pipeline /\ last_mesh' = last_mesh /\ table' = table
      /\ freeSets' = freeSets /\ live' = live /\ badDestroys' = badDestroys
      /\ frame_index' = frame_index /\ fence' = fence /\ inFlight' = inFlight
  BY DEF local, store, device
<1>2. BindInv' BY <1>1 DEF IInv, BindInv
<1>3. FenceInv' BY <1>1 DEF IInv, FenceInv
<1>4. StoreInv' BY <1>1 DEF IInv, StoreInv
<1>5. DrawsInv' BY <1>1 DEF IInv, DrawsInv
<1>6. BuffersTyped' BY <1>1 DEF IInv, TypeOK, BuffersTyped
<1>7. QED BY <1>2, <1>3, <1>4, <1>5, <1>6

LEMMA PushStep ==
  ASSUME IInv, NEW x \in Commands, Push(x), main = "running",
         x = Done => Covers(pushed),
         pushed' = (IF x = Done THEN {} ELSE IF x \in Models THEN pushed \cup {x} ELSE pushed),
         main' = (IF x = Stop THEN "joining" ELSE "running"), x = Stop => pushed = {},
         UNCHANGED <<at, frame_counter, local, store, device>>
  PROVE  IInv'
<1>1. ThreadsTyped /\ frame_counter \in Nat /\ freeSets \in Nat /\ TypeOK /\ QueueInv
  BY DEF IInv, TypeOK
<1>2. /\ at' = at /\ frame_counter' = frame_counter /\ freeSets' = freeSets /\ cmdbuf' = cmdbuf
  BY DEF local, store
<1>3. queue' \in Seq(Commands) /\ queue' = Append(queue, x)
  BY <1>1, PushKeeps
<1>4. ThreadsTyped' BY <1>1, <1>2, <1>3 DEF ThreadsTyped
<1>5. QueueInv'
  <2>1. Recorded \subseteq Models /\ Recorded' = Recorded BY <1>1, <1>2, RecordedModels DEF Recorded
  <2>2. queue \in Seq(Commands) /\ Flow(queue, Recorded, pushed)
    BY <1>1 DEF ThreadsTyped, QueueInv
  <2>3. Flow(queue', Recorded', pushed')
    <3> HIDE DEF Recorded
    <3>1. QED BY <1>3, <2>1, <2>2, FlowPushed
  <2>4. StopIsLast(queue, "running") BY <1>1 DEF QueueInv
  <2>5. StopIsLast(queue', main')
    <3>1. x = Stop => main' = "joining" OBVIOUS
    <3>2. QED BY <1>1, <2>4, <3>1, PushKeeps
  <2>6. at \notin {"wait idle", "exited"} BY <1>1 DEF QueueInv
  <2>7. main' # "running" => pushed' = {}
    <3>1. Stop # Done BY DEF Stop, Done
    <3>2. Stop \notin Models BY ModelsAssumption
    <3>3. QED BY <3>1, <3>2
  <2>8. main' \notin {"joined", "infos freed"} OBVIOUS
  <2>9. at' = "fence" => Covers(ModelsOf(cmdbuf'.draws)) BY <1>1, <1>2 DEF QueueInv
  <2>10. QED BY <1>2, <2>3, <2>5, <2>6, <2>7, <2>8, <2>9 DEF QueueInv
<1>6. QED BY <1>1, <1>2, <1>4, <1>5, StoreKept DEF IInv, TypeOK

LEMMA MainStep ==
  ASSUME IInv, Main PROVE IInv'
<1>0. /\ Done # Stop /\ Done \notin Models /\ Stop \notin Models
      /\ Done \in Commands /\ Stop \in Commands /\ Models \subseteq Commands
  BY ModelsAssumption DEF Done, Stop, Commands
<1>1. ASSUME NEW model \in Models, PushModel(model) PROVE IInv'
  BY <1>0, <1>1, PushStep DEF PushModel
<1>2. ASSUME PushDone PROVE IInv'
  BY <1>0, <1>2, PushStep DEF PushDone, Covers
<1>3. ASSUME Destroy PROVE IInv'
  BY <1>0, <1>3, PushStep DEF Destroy
<1>4. QED BY <1>1, <1>2, <1>3 DEF Main

LEMMA ClosingStep ==
  ASSUME IInv, Closing PROVE IInv'
<1>1. TypeOK /\ QueueInv BY DEF IInv
<1>2. /\ UNCHANGED <<queue, pushed, at, frame_counter, local, store, device>>
      /\ main' \in {"joined", "infos freed"} /\ main \in {"joining", "joined"} /\ at = "exited"
  BY <1>1 DEF Closing, Joined, GameDestroyed, QueueInv
<1>3. frame_counter' = frame_counter /\ freeSets' = freeSets /\ cmdbuf' = cmdbuf
  BY <1>2 DEF local, store
<1>4. TypeOK'
  BY <1>1, <1>2, <1>3, StoreKept DEF TypeOK, ThreadsTyped
<1>5. queue = <<>> /\ pushed = {} BY <1>1, <1>2 DEF QueueInv
<1>6. QueueInv'
  <2>1. Recorded' = Recorded /\ Flow(queue, Recorded, pushed) BY <1>1, <1>2, <1>3 DEF Recorded, QueueInv
  <2>2. StopIsLast(queue', main')
    <3>1. queue' = <<>> /\ Len(<<>>) = 0 BY <1>2, <1>5
    <3>2. QED BY <3>1 DEF StopIsLast
  <2>3. Flow(queue', Recorded', pushed') BY <1>2, <2>1
  <2>4. QED BY <1>1, <1>2, <1>3, <2>2, <2>3 DEF QueueInv
<1>7. QED BY <1>2, <1>4, <1>6, StoreKept DEF IInv

-----------------------------------------------------------------------------
(* The render thread takes a command. *)

LEMMA StopTaken ==
  ASSUME NEW A, NEW q \in Seq(A), q # <<>>, NEW m, StopIsLast(q, m)
  PROVE  StopIsLast(Tail(q), m) /\ (Head(q) = Stop => Len(q) = 1 /\ m = "joining")
<1> DEFINE L  == Len(q)
           q2 == Tail(q)
<1>1. /\ L \in Nat \ {0} /\ Len(q2) = L - 1 /\ Head(q) = q[1]
      /\ \A n \in 1 .. L - 1 : q2[n] = q[n + 1]
  BY TailOf
<1>2. \A n \in 1 .. L : q[n] = Stop => n = L /\ m = "joining" BY DEF StopIsLast
<1> HIDE DEF L, q2
<1>3. ASSUME NEW n \in 1 .. L - 1, q2[n] = Stop PROVE n = L - 1 /\ m = "joining"
  <2>1. n + 1 \in 1 .. L /\ q[n + 1] = Stop BY <1>1, <1>3
  <2>2. n + 1 = L /\ m = "joining" BY <1>2, <2>1
  <2>3. QED BY <1>1, <2>2
<1>4. StopIsLast(q2, m) BY <1>1, <1>3 DEF StopIsLast
<1>5. Head(q) = Stop => L = 1 /\ m = "joining"
  <2>1. 1 \in 1 .. L BY <1>1
  <2>2. QED BY <1>1, <1>2, <2>1
<1>6. QED BY <1>4, <1>5 DEF L, q2

LEMMA FlowEmpty ==
  ASSUME NEW cur PROVE Flow(<<>>, cur, {}) <=> cur = {}
<1>1. Len(<<>>) = 0 OBVIOUS
<1>2. Segment(<<>>, 0, cur) = cur BY SegmentFirst
<1>3. \A n \in 1 .. 0 : FALSE OBVIOUS
<1>4. QED BY <1>1, <1>2, <1>3 DEF Flow

Takes(x) ==
  /\ Popped(x) /\ UNCHANGED client
  /\ at' = CASE x = Done -> "fence" [] x = Stop -> "wait idle" [] OTHER -> "pop"
  /\ ModelsOf(cmdbuf'.draws) = ModelsOf(cmdbuf.draws) \cup (IF x \in Models THEN {x} ELSE {})
  /\ x = Stop => cmdbuf' = cmdbuf

LEMMA PopStep ==
  ASSUME TypeOK, QueueInv, NEW x \in Commands, Takes(x)
  PROVE  QueueInv' /\ ThreadsTyped'
<1>0. Done # Stop /\ Done \notin Models /\ Stop \notin Models
  BY ModelsAssumption DEF Done, Stop
<1>1. /\ queue \in Seq(Commands) /\ queue # <<>> /\ x = Head(queue)
      /\ queue' = Tail(queue) /\ at = "pop" /\ main' = main /\ pushed' = pushed
  BY DEF Popped, TypeOK, ThreadsTyped, client, Takes
<1>2. /\ x = Done => at' = "fence"
      /\ x = Stop => at' = "wait idle" /\ cmdbuf'.draws = cmdbuf.draws
      /\ x \in Models => at' = "pop" /\ ModelsOf(cmdbuf'.draws) = ModelsOf(cmdbuf.draws) \cup {x}
      /\ x \notin Models => ModelsOf(cmdbuf'.draws) = ModelsOf(cmdbuf.draws)
      /\ x \in Models \/ x = Done \/ x = Stop
  BY <1>0 DEF Takes, Commands
<1>15. ThreadsTyped' BY <1>1, <1>2, TailOf DEF TypeOK, ThreadsTyped
<1>3. Recorded = ModelsOf(cmdbuf.draws) /\ Recorded \subseteq Models
  BY <1>1, RecordedModels DEF Recorded
<1>4. x # Stop => Recorded' = IF x = Done THEN {}
                              ELSE IF x \in Models THEN Recorded \cup {x} ELSE Recorded
  BY <1>0, <1>2, <1>3 DEF Recorded
<1> DEFINE cur2 == IF x = Done THEN {} ELSE IF x \in Models THEN Recorded \cup {x} ELSE Recorded
<1>5. Flow(Tail(queue), cur2, pushed) /\ (x = Done => Covers(Recorded))
  <2>1. Flow(queue, Recorded, pushed) BY DEF QueueInv
  <2> HIDE DEF Recorded
  <2>2. QED BY <1>1, <1>3, <2>1, FlowPopped
<1>6. StopIsLast(Tail(queue), main) /\ (x = Stop => Tail(queue) = <<>> /\ main = "joining")
  <2>1. StopIsLast(queue, main) BY DEF QueueInv
  <2>2. /\ StopIsLast(Tail(queue), main)
        /\ Head(queue) = Stop => Len(queue) = 1 /\ main = "joining"
    BY <1>1, <2>1, StopTaken
  <2>3. Len(queue) = 1 => Tail(queue) = <<>> BY <1>1, TailOfOne
  <2>4. QED BY <1>1, <2>2, <2>3
<1>7. StopIsLast(queue', main') BY <1>1, <1>6
<1>8. x = Stop => queue' = <<>> /\ main = "joining" /\ pushed = {} /\ cmdbuf.draws = {}
  <2> SUFFICES ASSUME x = Stop
               PROVE  queue' = <<>> /\ main = "joining" /\ pushed = {} /\ cmdbuf.draws = {}
    OBVIOUS
  <2>1. pushed = {} BY <1>6 DEF QueueInv
  <2>2. Flow(<<>>, Recorded, {}) BY <1>0, <1>5, <1>6, <2>1
  <2>3. Recorded = {}
    <3> HIDE DEF Recorded
    <3>1. QED BY <2>2, FlowEmpty
  <2>4. cmdbuf.draws = {} BY <1>3, <2>3 DEF ModelsOf
  <2>5. QED BY <1>1, <1>6, <2>1, <2>4
<1>9. Flow(queue', Recorded', pushed')
  <2>1. CASE x # Stop
    <3>1. Recorded' = cur2 BY <1>4, <2>1
    <3>2. QED BY <1>1, <1>5, <3>1
  <2>2. CASE x = Stop
    <3>1. Recorded' = {} /\ queue' = <<>> /\ pushed' = {} BY <1>1, <1>2, <1>8, <2>2 DEF Recorded
    <3>2. Flow(<<>>, {}, {}) BY FlowEmpty
    <3>3. QED BY <3>1, <3>2
  <2>3. QED BY <2>1, <2>2
<1>10. at' = "fence" => Covers(ModelsOf(cmdbuf'.draws)) BY <1>0, <1>2, <1>3, <1>5
<1>11. at' \in {"wait idle", "exited"} => queue' = <<>> /\ cmdbuf'.draws = {} /\ main' # "running"
  BY <1>1, <1>2, <1>8
<1>12. main' # "running" => pushed' = {} BY <1>1 DEF QueueInv
<1>13. main' \notin {"joined", "infos freed"} BY <1>1 DEF QueueInv
<1>14. QED BY <1>7, <1>9, <1>10, <1>11, <1>12, <1>13, <1>15 DEF QueueInv

LEMMA BegunIs ==
  ASSUME TypeOK, BindInv
  PROVE  /\ Begun \in CmdBuf /\ Begun.open
         /\ Begun.draws = cmdbuf.draws
         /\ Begun.pipeline = cmdbuf.pipeline /\ Begun.mesh = cmdbuf.mesh
<1>1. cmdbuf \in CmdBuf BY DEF TypeOK, BuffersTyped
<1>2. CASE cmdbuf.open BY <1>1, <1>2 DEF Begun
<1>3. CASE ~cmdbuf.open
  <2>1. cmdbuf = Closed /\ Begun = [Closed EXCEPT !.open = TRUE] BY <1>3 DEF BindInv, Begun
  <2>2. Begun = [open |-> TRUE, pipeline |-> NULL, mesh |-> NULL, draws |-> {}]
    BY <2>1 DEF Closed
  <2>3. /\ cmdbuf.pipeline = NULL /\ cmdbuf.mesh = NULL /\ cmdbuf.draws = {}
    BY <2>1 DEF Closed
  <2>4. NULL \in Objects BY DEF Objects
  <2>5. QED BY <2>2, <2>3, <2>4 DEF CmdBuf
<1>4. QED BY <1>2, <1>3

LEMMA FrameDoneStep ==
  ASSUME IInv, FrameDone PROVE IInv'
<1>0. Done \in Commands /\ Done # Stop /\ Done \notin Models
  BY ModelsAssumption DEF Commands, Done, Stop
<1>1. /\ TypeOK /\ QueueInv /\ BindInv /\ FenceInv /\ StoreInv /\ DrawsInv
      /\ cmdbuf' = Begun /\ at' = "fence" /\ at = "pop" /\ Popped(Done) /\ UNCHANGED client
      /\ frame_counter' = frame_counter
      /\ last_pipeline' = last_pipeline /\ last_mesh' = last_mesh /\ table' = table
      /\ freeSets' = freeSets /\ live' = live /\ badDestroys' = badDestroys
      /\ frame_index' = frame_index /\ fence' = fence /\ inFlight' = inFlight
  BY DEF IInv, FrameDone, Popped, store, device
<1>2. /\ cmdbuf' \in CmdBuf /\ cmdbuf'.open /\ cmdbuf'.draws = cmdbuf.draws
      /\ cmdbuf'.pipeline = cmdbuf.pipeline /\ cmdbuf'.mesh = cmdbuf.mesh
  BY <1>1, BegunIs
<1>3. Takes(Done) BY <1>0, <1>1, <1>2 DEF Takes
<1>4. QueueInv' /\ ThreadsTyped' BY <1>0, <1>1, <1>3, PopStep
<1>5. BindInv' BY <1>1, <1>2 DEF BindInv
<1>6. FenceInv' BY <1>1 DEF FenceInv
<1>7. StoreInv' BY <1>1 DEF StoreInv
<1>8. DrawsInv' BY <1>1, <1>2 DEF DrawsInv
<1>9. TypeOK' BY <1>1, <1>2, <1>4 DEF TypeOK, BuffersTyped
<1>10. QED BY <1>4, <1>5, <1>6, <1>7, <1>8, <1>9 DEF IInv

LEMMA StopPoppedStep ==
  ASSUME IInv, StopPopped PROVE IInv'
<1>0. Stop \in Commands /\ Done # Stop /\ Stop \notin Models
  BY ModelsAssumption DEF Commands, Done, Stop
<1>1. /\ TypeOK /\ QueueInv /\ BindInv /\ FenceInv /\ StoreInv /\ DrawsInv
      /\ cmdbuf' = cmdbuf /\ at' = "wait idle" /\ at = "pop" /\ Popped(Stop) /\ UNCHANGED client
      /\ frame_counter' = frame_counter
      /\ last_pipeline' = last_pipeline /\ last_mesh' = last_mesh /\ table' = table
      /\ freeSets' = freeSets /\ live' = live /\ badDestroys' = badDestroys
      /\ frame_index' = frame_index /\ fence' = fence /\ inFlight' = inFlight
  BY DEF IInv, StopPopped, Popped, local, store, device
<1>3. Takes(Stop) BY <1>0, <1>1 DEF Takes
<1>4. QueueInv' /\ ThreadsTyped' BY <1>0, <1>1, <1>3, PopStep
<1>5. BindInv' BY <1>1 DEF BindInv
<1>6. FenceInv' BY <1>1 DEF FenceInv
<1>7. StoreInv' BY <1>1 DEF StoreInv
<1>8. DrawsInv' BY <1>1 DEF DrawsInv
<1>9. TypeOK' BY <1>1, <1>4 DEF TypeOK, BuffersTyped
<1>10. QED BY <1>4, <1>5, <1>6, <1>7, <1>8, <1>9 DEF IInv

-----------------------------------------------------------------------------
(* The render thread draws a model. *)

DrawnTable(m) == [k \in Kinds |-> CreateOrGet(k, Info(m, k))]
GetsAll(m, T2) == \A k \in Kinds : Gets(k, Info(m, k), T2[k], ObjectFor(k, Info(m, k)))

LEMMA DrawGets ==
  ASSUME TypeOK, StoreInv, at # "exited", NEW m \in Models, Fits(m)
  PROVE  GetsAll(m, DrawnTable(m))
<1> SUFFICES ASSUME NEW k \in Kinds
             PROVE  Gets(k, Info(m, k), CreateOrGet(k, Info(m, k)), ObjectFor(k, Info(m, k)))
  BY DEF GetsAll, DrawnTable
<1>1. Info(m, k) \in InfosOf(k) BY DEF InfosOf
<1>2. Place(k, Info(m, k)) < MaxDrawables BY DEF Fits
<1>3. TablesOk(table, frame_counter) /\ FreshSlots(k, table[k]) BY DEF StoreInv
<1>4. frame_counter \in Nat /\ freeSets \in Nat BY DEF TypeOK
<1> HIDE DEF Info
<1>5. QED BY <1>1, <1>2, <1>3, <1>4, GetsOne

LEMMA DrawKeeps ==
  ASSUME NEW m, NEW T2, GetsAll(m, T2), NEW d, NEW since \in Int, since <= frame_counter,
         DrawOk(table, d, since)
  PROVE  DrawOk(T2, d, since)
<1>1. \A k \in Kinds : \A x, y : Holds(table[k], x, y, since) => Holds(T2[k], x, y, since)
  BY DEF GetsAll, Gets
<1>2. "shader" \in Kinds /\ "mesh" \in Kinds /\ "instance" \in Kinds BY DEF Kinds
<1>3. QED BY <1>1, <1>2 DEF DrawOk

LEMMA DrawStore ==
  ASSUME TypeOK, StoreInv, NEW m \in Models, NEW T2, GetsAll(m, T2), NEW lv,
         lv = live \cup {Object(k, Info(m, k)) : k \in {k \in Kinds : Creates(k, Info(m, k))}}
  PROVE  /\ TablesOk(T2, frame_counter) /\ lv = ObjectsIn(T2)
         /\ \A k \in Kinds : FreshSlots(k, T2[k])
<1>1. TablesOk(T2, frame_counter) /\ \A k \in Kinds : FreshSlots(k, T2[k])
  BY DEF GetsAll, Gets, TablesOk
<1>2. \A k \in Kinds : \A z : HasObject(T2, k, z) <=>
        HasObject(table, k, z) \/ (Creates(k, Info(m, k)) /\ z = Object(k, Info(m, k)))
  BY DEF GetsAll, Gets, HasObject
<1>3. \A k \in Kinds : Object(k, Info(m, k)) \in Objects
  <2> TAKE k \in Kinds
  <2>1. Info(m, k) \in InfosOf(k) BY DEF InfosOf
  <2>2. Info(m, k) \in Infos BY <2>1 DEF Infos
  <2>3. frame_counter \in Nat BY DEF TypeOK
  <2>4. QED BY <2>2, <2>3 DEF Object, Objects
<1>4. \A z : z \in lv <=> z \in ObjectsIn(table)
                          \/ \E k \in Kinds : Creates(k, Info(m, k)) /\ z = Object(k, Info(m, k))
  BY DEF StoreInv
<1>5. \A z : z \in lv <=> z \in ObjectsIn(T2)
  <2> TAKE z
  <2>1. z \in ObjectsIn(T2) <=> z \in Objects /\ \E k \in Kinds : HasObject(T2, k, z)
    BY DEF ObjectsIn
  <2>2. z \in ObjectsIn(table) <=> z \in Objects /\ \E k \in Kinds : HasObject(table, k, z)
    BY DEF ObjectsIn
  <2>3. QED BY <1>2, <1>3, <1>4, <2>1, <2>2
<1>6. lv = ObjectsIn(T2)
  <2>1. \A z : z \in ObjectsIn(T2) => z \in lv BY <1>5
  <2>2. QED BY <1>5, <2>1
<1>7. QED BY <1>1, <1>6

LEMMA DrawBinds ==
  ASSUME NEW m, NEW T2, GetsAll(m, T2)
  PROVE  LET shader   == ObjectFor("shader", m[3])
             mesh     == ObjectFor("mesh", m[2])
             instance == ObjectFor("instance", m[1])
         IN /\ shader \in Objects /\ mesh \in Objects /\ instance \in Objects
            /\ DrawOk(T2, [model |-> m, pipeline |-> shader, mesh |-> mesh,
                           instance |-> instance], frame_counter)
<1>1. "shader" \in Kinds /\ "mesh" \in Kinds /\ "instance" \in Kinds BY DEF Kinds
<1>2. Info(m, "shader") = m[3] /\ Info(m, "mesh") = m[2] /\ Info(m, "instance") = m[1]
  BY DEF Info
<1>3. \A k \in Kinds : LET o == ObjectFor(k, Info(m, k))
                       IN o \in Objects /\ Holds(T2[k], Info(m, k), o, frame_counter)
  BY DEF GetsAll, Gets
<1>4. QED BY <1>1, <1>2, <1>3 DEF DrawOk

LEMMA DrawModelStep ==
  ASSUME IInv, NEW m \in Models, DrawModel(m) PROVE IInv'
<1> DEFINE shader   == ObjectFor("shader", m[3])
           mesh     == ObjectFor("mesh", m[2])
           instance == ObjectFor("instance", m[1])
           new == [model |-> m, pipeline |-> shader, mesh |-> mesh, instance |-> instance]
           T2  == DrawnTable(m)
<1>1. /\ TypeOK /\ QueueInv /\ BindInv /\ FenceInv /\ StoreInv /\ DrawsInv
      /\ at = "pop" /\ at' = at /\ Popped(m) /\ UNCHANGED client
      /\ Fits(m) /\ table' = T2 /\ frame_counter' = frame_counter
      /\ live' = live \cup {Object(k, Info(m, k)) : k \in {k \in Kinds : Creates(k, Info(m, k))}}
      /\ badDestroys' = badDestroys
      /\ frame_index' = frame_index /\ fence' = fence /\ inFlight' = inFlight
  BY DEF IInv, DrawModel, DrawnTable, Popped, device
<1>2. /\ Begun \in CmdBuf /\ Begun.draws = cmdbuf.draws
      /\ Begun.pipeline = last_pipeline /\ Begun.mesh = last_mesh
  BY <1>1, BegunIs DEF BindInv
<1>3. /\ last_pipeline' = shader /\ last_mesh' = mesh
      /\ cmdbuf' = [open |-> TRUE, pipeline |-> shader, mesh |-> mesh,
                    draws |-> cmdbuf.draws \cup {new}]
  BY <1>2 DEF DrawModel
<1>4. GetsAll(m, T2) BY <1>1, DrawGets
<1> HIDE DEF shader, mesh, instance, T2
<1>5. /\ shader \in Objects /\ mesh \in Objects /\ instance \in Objects
      /\ DrawOk(T2, new, frame_counter)
  BY <1>4, DrawBinds DEF shader, mesh, instance
<1>6. new \in Draw /\ cmdbuf.draws \subseteq Draw /\ new.model = m
  BY <1>1, <1>5, RecordedModels DEF Draw
<1> HIDE DEF new
<1>7. /\ cmdbuf' \in CmdBuf /\ cmdbuf'.open /\ cmdbuf'.draws = cmdbuf.draws \cup {new}
      /\ cmdbuf'.pipeline = shader /\ cmdbuf'.mesh = mesh
  BY <1>3, <1>5, <1>6 DEF CmdBuf
<1>8. ModelsOf(cmdbuf'.draws) = ModelsOf(cmdbuf.draws) \cup {m} BY <1>6, <1>7 DEF ModelsOf
<1>9. m \in Commands /\ m # Done /\ m # Stop BY ModelsAssumption DEF Commands
<1>10. QueueInv' /\ ThreadsTyped'
  <2>1. Takes(m) BY <1>1, <1>8, <1>9 DEF Takes
  <2>2. QED BY <1>1, <1>9, <2>1, PopStep
<1>11. BindInv' BY <1>3, <1>7 DEF BindInv
<1>12. FenceInv' BY <1>1 DEF FenceInv
<1>13. StoreInv'
  <2>1. /\ TablesOk(T2, frame_counter) /\ live' = ObjectsIn(T2)
        /\ \A k \in Kinds : FreshSlots(k, T2[k])
    BY <1>1, <1>4, DrawStore
  <2>2. QED BY <1>1, <2>1 DEF StoreInv
<1>14. frame_counter \in Nat BY <1>1 DEF TypeOK
<1>15. DrawsInv'
  <2>1. AllOk(T2, cmdbuf'.draws, frame_counter)
    <3>1. \A d \in cmdbuf.draws : DrawOk(T2, d, frame_counter)
      BY <1>1, <1>4, <1>14, DrawKeeps DEF DrawsInv, AllOk
    <3>2. QED BY <1>5, <1>7, <3>1 DEF AllOk
  <2>2. FlightOk(T2, inFlight, frame_counter)
    <3> SUFFICES ASSUME NEW n \in 1 .. Len(inFlight), NEW d \in inFlight[n].draws
                 PROVE  DrawOk(T2, d, frame_counter - 1 - (Len(inFlight) - n))
      BY DEF FlightOk, AllOk
    <3> DEFINE since == frame_counter - 1 - (Len(inFlight) - n)
    <3>1. Len(inFlight) \in Nat BY <1>1 DEF TypeOK, BuffersTyped
    <3>2. since \in Int /\ since <= frame_counter BY <1>14, <3>1
    <3>3. DrawOk(table, d, since) BY <1>1 DEF DrawsInv, FlightOk, AllOk
    <3> HIDE DEF since
    <3>4. DrawOk(T2, d, since) BY <1>4, <3>2, <3>3, DrawKeeps
    <3>5. QED BY <3>4 DEF since
  <2>3. QED BY <1>1, <2>1, <2>2 DEF DrawsInv
<1>16. freeSets' \in Nat
  <2>1. freeSets \in Nat /\ FrameCount \in Nat BY <1>1, FramesAssumption DEF TypeOK
  <2>2. freeSets' = IF Creates("instance", m[1])
                    THEN freeSets - SetsFor("instance", m[1]) ELSE freeSets
    BY DEF DrawModel
  <2>3. Creates("instance", m[1]) =>
          SetsFor("instance", m[1]) = IF freeSets < FrameCount THEN freeSets ELSE FrameCount
    BY DEF SetsFor
  <2>4. QED BY <2>1, <2>2, <2>3
<1>17. TypeOK' BY <1>1, <1>7, <1>10, <1>14, <1>16 DEF TypeOK, BuffersTyped
<1>18. QED BY <1>10, <1>11, <1>12, <1>13, <1>15, <1>17 DEF IInv

-----------------------------------------------------------------------------
(* The frames in flight *)

Frame == [index : Indices, draws : SUBSET Draw]
NextIndex(i) == IF i + 1 = FrameCount THEN 0 ELSE i + 1

LEMMA NextIs ==
  ASSUME NEW i \in Indices
  PROVE  (i + 1) % FrameCount = NextIndex(i) /\ NextIndex(i) \in Indices
<1>1. FrameCount \in Nat \ {0} /\ i \in 0 .. FrameCount - 1 BY FramesAssumption DEF Indices
<1>2. CASE i + 1 = FrameCount
  <2>1. FrameCount % FrameCount = 0 BY <1>1
  <2>2. QED BY <1>1, <1>2, <2>1 DEF NextIndex, Indices
<1>3. CASE i + 1 # FrameCount
  <2>1. i + 1 \in 0 .. FrameCount - 1 BY <1>1, <1>3
  <2>2. \A x \in 0 .. FrameCount - 1 : x % FrameCount = x BY <1>1
  <2>3. (i + 1) % FrameCount = i + 1 BY <2>1, <2>2
  <2>4. QED BY <1>3, <2>1, <2>3 DEF NextIndex, Indices
<1>4. QED BY <1>2, <1>3

LEMMA BackIs ==
  ASSUME NEW i \in Indices, NEW j \in 1 .. FrameCount
  PROVE  /\ Back(i, j) \in Indices
         /\ \A k \in 1 .. FrameCount : Back(i, j) = Back(i, k) => j = k
         /\ Back(i, FrameCount) = i
         /\ j < FrameCount => Back(NextIndex(i), j + 1) = Back(i, j)
         /\ Back(NextIndex(i), 1) = i
<1>1. FrameCount \in Nat \ {0} /\ i \in 0 .. FrameCount - 1 BY FramesAssumption DEF Indices
<1>2. Back(i, j) \in Indices BY <1>1 DEF Back, Indices
<1>3. \A k \in 1 .. FrameCount : Back(i, j) = Back(i, k) => j = k BY <1>1 DEF Back
<1>4. Back(i, FrameCount) = i BY <1>1 DEF Back
<1>5. j < FrameCount => Back(NextIndex(i), j + 1) = Back(i, j)
  BY <1>1 DEF Back, NextIndex
<1>6. Back(NextIndex(i), 1) = i BY <1>1 DEF Back, NextIndex
<1>7. QED BY <1>2, <1>3, <1>4, <1>5, <1>6

LEMMA DistinctFrames ==
  ASSUME NEW flight \in Seq(Frame), NEW i \in Indices, InOrder(flight, i)
  PROVE  \A m, n \in 1 .. Len(flight) : flight[m].index = flight[n].index => m = n
<1> DEFINE L == Len(flight)
<1>1. L \in Nat /\ L <= FrameCount /\ FrameCount \in Nat BY FramesAssumption DEF InOrder
<1>2. \A n \in 1 .. L : flight[n].index = Back(i, L - n + 1) BY DEF InOrder
<1> HIDE DEF L
<1>3. \A n \in 1 .. L : L - n + 1 \in 1 .. FrameCount BY <1>1
<1>4. ASSUME NEW m \in 1 .. L, NEW n \in 1 .. L, flight[m].index = flight[n].index
      PROVE  m = n
  <2>1. L - m + 1 = L - n + 1 BY <1>2, <1>3, <1>4, BackIs
  <2>2. QED BY <1>1, <2>1
<1>5. QED BY <1>4 DEF L

LEMMA FrameAdded ==
  ASSUME NEW flight \in Seq(Frame), NEW i \in Indices, InOrder(flight, i),
         \A n \in 1 .. Len(flight) : flight[n].index # i, NEW draws \in SUBSET Draw
  PROVE  LET flight2 == Append(flight, [index |-> i, draws |-> draws])
         IN /\ flight2 \in Seq(Frame) /\ Len(flight) < FrameCount
            /\ InOrder(flight2, NextIndex(i))
<1> DEFINE L == Len(flight)
           f == [index |-> i, draws |-> draws]
           flight2 == Append(flight, f)
<1>1. L \in Nat /\ L <= FrameCount /\ FrameCount \in Nat \ {0} BY FramesAssumption DEF InOrder
<1>2. \A n \in 1 .. L : flight[n].index = Back(i, L - n + 1) BY DEF InOrder
<1>3. f \in Frame /\ f.index = i BY DEF Frame
<1> HIDE DEF f
<1>4. /\ flight2 \in Seq(Frame) /\ Len(flight2) = L + 1 /\ flight2[L + 1] = f
      /\ \A n \in 1 .. L : flight2[n] = flight[n]
  BY <1>3, AppendOf
<1> HIDE DEF L, flight2
<1>5. L < FrameCount
  <2> SUFFICES ASSUME L = FrameCount PROVE FALSE BY <1>1
  <2>1. 1 \in 1 .. L /\ L - 1 + 1 = FrameCount BY <1>1
  <2>2. flight[1].index = Back(i, FrameCount) BY <1>2, <2>1
  <2>3. Back(i, FrameCount) = i
    <3>1. 1 \in 1 .. FrameCount BY <1>1
    <3>2. QED BY <3>1, BackIs
  <2>4. flight[1].index # i BY <2>1 DEF L
  <2>5. QED BY <2>2, <2>3, <2>4
<1>6. ASSUME NEW n \in 1 .. L + 1
      PROVE  flight2[n].index = Back(NextIndex(i), (L + 1) - n + 1)
  <2>1. CASE n = L + 1
    <3>1. (L + 1) - n + 1 = 1 /\ 1 \in 1 .. FrameCount BY <1>1, <2>1
    <3>2. Back(NextIndex(i), 1) = i BY <3>1, BackIs
    <3>3. QED BY <1>3, <1>4, <2>1, <3>1, <3>2
  <2>2. CASE n \in 1 .. L
    <3> DEFINE j == L - n + 1
    <3>1. (L + 1) - n + 1 = j + 1 /\ j \in 1 .. FrameCount /\ j < FrameCount
      BY <1>1, <1>5, <2>2
    <3>2. flight[n].index = Back(i, j) BY <1>2, <2>2
    <3> HIDE DEF j
    <3>3. Back(NextIndex(i), j + 1) = Back(i, j) BY <3>1, BackIs
    <3>4. QED BY <1>4, <2>2, <3>1, <3>2, <3>3
  <2>3. QED BY <1>1, <2>1, <2>2
<1>7. L + 1 <= FrameCount BY <1>1, <1>5
<1>8. InOrder(flight2, NextIndex(i)) BY <1>4, <1>6, <1>7 DEF InOrder
<1>9. QED BY <1>4, <1>5, <1>8 DEF flight2, L, f

LEMMA FrameTaken ==
  ASSUME NEW flight \in Seq(Frame), flight # <<>>, NEW i, InOrder(flight, i)
  PROVE  Tail(flight) \in Seq(Frame) /\ InOrder(Tail(flight), i)
<1> DEFINE L == Len(flight)
           flight2 == Tail(flight)
<1>1. /\ flight2 \in Seq(Frame) /\ L \in Nat \ {0} /\ Len(flight2) = L - 1
      /\ \A n \in 1 .. L - 1 : flight2[n] = flight[n + 1]
  BY TailOf
<1>2. /\ L <= FrameCount /\ FrameCount \in Nat
      /\ \A n \in 1 .. L : flight[n].index = Back(i, L - n + 1)
  BY FramesAssumption DEF InOrder
<1> HIDE DEF L, flight2
<1>3. ASSUME NEW n \in 1 .. L - 1 PROVE flight2[n].index = Back(i, (L - 1) - n + 1)
  <2>1. n + 1 \in 1 .. L /\ L - (n + 1) + 1 = (L - 1) - n + 1 BY <1>1
  <2>2. flight[n + 1].index = Back(i, L - (n + 1) + 1) BY <1>2, <2>1
  <2>3. QED BY <1>1, <2>1, <2>2
<1>4. L - 1 <= FrameCount BY <1>1, <1>2
<1>5. InOrder(flight2, i) BY <1>1, <1>3, <1>4 DEF InOrder
<1>6. QED BY <1>1, <1>5 DEF flight2

LEMMA FlightTaken ==
  ASSUME NEW flight \in Seq(Frame), flight # <<>>, NEW T, NEW now \in Nat,
         FlightOk(T, flight, now)
  PROVE  FlightOk(T, Tail(flight), now)
<1> DEFINE L == Len(flight)
           flight2 == Tail(flight)
<1>1. /\ L \in Nat \ {0} /\ Len(flight2) = L - 1
      /\ \A n \in 1 .. L - 1 : flight2[n] = flight[n + 1]
  BY TailOf
<1>2. \A n \in 1 .. L : AllOk(T, flight[n].draws, now - 1 - (L - n)) BY DEF FlightOk
<1> HIDE DEF L, flight2
<1>3. ASSUME NEW n \in 1 .. L - 1
      PROVE  AllOk(T, flight2[n].draws, now - 1 - ((L - 1) - n))
  <2>1. n + 1 \in 1 .. L /\ now - 1 - (L - (n + 1)) = now - 1 - ((L - 1) - n) BY <1>1
  <2>2. AllOk(T, flight[n + 1].draws, now - 1 - (L - (n + 1))) BY <1>2, <2>1
  <2>3. QED BY <1>1, <2>1, <2>2
<1>4. QED BY <1>1, <1>3 DEF FlightOk, flight2

LEMMA CompleteStep ==
  ASSUME IInv, Complete PROVE IInv'
<1> DEFINE first == Head(inFlight)
           L == Len(inFlight)
<1>1. /\ TypeOK /\ QueueInv /\ BindInv /\ FenceInv /\ StoreInv /\ DrawsInv
      /\ inFlight # <<>> /\ inFlight' = Tail(inFlight)
      /\ fence' = [fence EXCEPT ![first.index] = "signaled"]
      /\ queue' = queue /\ main' = main /\ pushed' = pushed /\ at' = at
      /\ frame_counter' = frame_counter /\ cmdbuf' = cmdbuf
      /\ last_pipeline' = last_pipeline /\ last_mesh' = last_mesh /\ table' = table
      /\ freeSets' = freeSets /\ live' = live /\ badDestroys' = badDestroys
      /\ frame_index' = frame_index
  BY DEF IInv, Complete, client, local, store
<1>2. /\ inFlight \in Seq(Frame) /\ frame_index \in Indices
      /\ fence \in [Indices -> {"signaled", "reset"}] /\ frame_counter \in Nat
  BY <1>1 DEF TypeOK, BuffersTyped, Frame
<1>3. /\ inFlight' \in Seq(Frame) /\ InOrder(inFlight', frame_index)
  BY <1>1, <1>2, FrameTaken DEF FenceInv
<1>4. /\ first \in Frame /\ first = inFlight[1] /\ L \in Nat \ {0} /\ Len(inFlight') = L - 1
      /\ \A n \in 1 .. L - 1 : inFlight'[n] = inFlight[n + 1]
  BY <1>1, <1>2, TailOf
<1>5. \A m, n \in 1 .. L : inFlight[m].index = inFlight[n].index => m = n
  BY <1>1, <1>2, DistinctFrames DEF FenceInv
<1>6. \A n \in 1 .. L : inFlight[n] \in Frame /\ fence[inFlight[n].index] = "reset"
  BY <1>1, <1>2 DEF FenceInv
<1>7. first.index \in Indices BY <1>4 DEF Frame
<1> HIDE DEF first, L
<1>8. fence' \in [Indices -> {"signaled", "reset"}] BY <1>1, <1>2, <1>7
<1>9. ASSUME NEW n \in 1 .. L - 1 PROVE fence'[inFlight'[n].index] = "reset"
  <2>1. n + 1 \in 1 .. L /\ 1 \in 1 .. L /\ n + 1 # 1 BY <1>4
  <2>2. inFlight[n + 1].index # first.index BY <1>4, <1>5, <2>1
  <2>3. inFlight[n + 1].index \in Indices BY <1>6, <2>1 DEF Frame
  <2>4. fence[inFlight[n + 1].index] = "reset" BY <1>6, <2>1
  <2>5. fence'[inFlight[n + 1].index] = "reset" BY <1>1, <1>2, <2>2, <2>3, <2>4
  <2>6. QED BY <1>4, <2>5
<1>10. FenceInv' BY <1>1, <1>3, <1>4, <1>9 DEF FenceInv
<1>11. FlightOk(table, inFlight', frame_counter)
  BY <1>1, <1>2, FlightTaken DEF DrawsInv
<1>12. DrawsInv' BY <1>1, <1>11 DEF DrawsInv
<1>13. QueueInv' /\ BindInv' BY <1>1 DEF QueueInv, Recorded, BindInv
<1>14. StoreInv'
  <2>1. at # "exited" BY <1>1 DEF StoreInv
  <2>2. QED BY <1>1, <2>1 DEF StoreInv
<1>15. TypeOK' BY <1>1, <1>3, <1>8 DEF TypeOK, ThreadsTyped, BuffersTyped, Frame
<1>16. QED BY <1>10, <1>12, <1>13, <1>14, <1>15 DEF IInv

-----------------------------------------------------------------------------
(* The end of a frame *)

(* Every mesh and shader in the tables was drawn with in this frame. *)
LEMMA AllDrawn ==
  ASSUME DrawsAll, TypeOK, StoreInv, Covers(ModelsOf(cmdbuf.draws)),
         AllOk(table, cmdbuf.draws, frame_counter),
         NEW k \in Kinds, k # "instance", NEW l \in 0 .. table[k].count - 1
  PROVE  ~StaleAt(table[k], l, frame_counter)
<1> DEFINE field == IF k = "mesh" THEN 2 ELSE 3
           slot  == table[k].slots[l]
<1>1. k = "mesh" \/ k = "shader" BY DEF Kinds
<1>2. \A m \in Models : Info(m, k) = m[field] /\ m[field] \in Kept
  BY <1>1 DEF Info, DrawsAll
<1>3. \A d \in cmdbuf.draws : d.model \in Models
  BY RecordedModels DEF Draw
<1>4. table[k] \in Table /\ UniqueInfos(table[k]) /\ SlotOk(k, slot, frame_counter)
  BY DEF StoreInv, TablesOk
<1>5. PICK m \in Models : slot.info = m[field] BY <1>2, <1>4 DEF SlotOk, InfosOf
<1>6. PICK d \in cmdbuf.draws : d.model[2] = m[field] \/ d.model[3] = m[field]
  BY <1>2 DEF Covers, ModelsOf
<1>7. d.model[field] = m[field]
  BY <1>3, <1>6 DEF DrawsAll
<1>8. \E o : Holds(table[k], d.model[field], o, frame_counter)
  BY <1>1, <1>6 DEF AllOk, DrawOk
<1>9. PICK j \in 0 .. table[k].count - 1 : /\ table[k].slots[j].info = slot.info
                                           /\ table[k].slots[j].used >= frame_counter
  BY <1>5, <1>7, <1>8 DEF Holds
<1>10. j = l BY <1>4, <1>9 DEF UniqueInfos
<1>11. /\ slot.used >= frame_counter /\ slot.used \in Nat /\ frame_counter \in Nat
       /\ FrameCount \in Nat \ {0}
  BY <1>4, <1>9, <1>10, SlotTyped, FramesAssumption DEF TypeOK
<1>12. QED BY <1>11 DEF StaleAt, Stale

LEMMA LaterOk ==
  ASSUME NEW T, NEW now \in Int, NEW later \in Int, now <= later, TablesOk(T, now)
  PROVE  TablesOk(T, later)
<1>1. ASSUME NEW k \in Kinds, NEW i \in 0 .. T[k].count - 1
      PROVE  SlotOk(k, T[k].slots[i], later)
  <2>1. T[k] \in Table /\ SlotOk(k, T[k].slots[i], now) BY DEF TablesOk
  <2>2. T[k].slots[i].used \in Nat BY <2>1, SlotTyped
  <2>3. QED BY <2>1, <2>2 DEF SlotOk
<1>2. QED BY <1>1 DEF TablesOk

(* destroy_stale_data on the tables of render_t. *)
LEMMA DestroyedStore ==
  ASSUME NEW now, TablesOk(table, now), live = ObjectsIn(table), badDestroys = {},
         freeSets \in Nat, DestroyStaleData(now)
  PROVE  /\ TablesOk(table', now) /\ live' = ObjectsIn(table') /\ badDestroys' = {}
         /\ freeSets' \in Nat
         /\ \A k \in Kinds : LET r == Reclaimed(table[k], now, live)
                             IN table'[k] = r.t /\ Reclaims(r, table[k], now, live)
<1> DEFINE R == Destroyed(table, now, live)
<1>1. /\ table' = TablesOf(R) /\ live' = LiveOf(R, live)
      /\ badDestroys' = badDestroys \cup BadOf(R) /\ freeSets' = freeSets + R["instance"].sets
      /\ \A k \in Kinds : R[k] = Reclaimed(table[k], now, live)
  BY DEF DestroyStaleData, Destroyed, TablesOf, LiveOf, BadOf
<1>2. ReclaimsAll(R, table, now, live) BY DestroyedTables
<1> HIDE DEF R
<1>3. QED BY <1>1, <1>2 DEF ReclaimsAll

(* The frames in flight keep their objects when a frame ends, and so does  *)
(* the frame that is submitted.                                            *)
LEMMA FlightKept ==
  ASSUME NEW flight \in Seq(Frame), Len(flight) < FrameCount, NEW now \in Nat,
         NEW f \in Frame, NEW T, NEW T2,
         FlightOk(T, flight, now), AllOk(T, f.draws, now),
         \A k \in Kinds : \A x, y : \A since \in Int :
           since + FrameCount > now /\ Holds(T[k], x, y, since) => Holds(T2[k], x, y, since)
  PROVE  FlightOk(T2, Append(flight, f), now + 1)
<1> DEFINE L == Len(flight)
           flight2 == Append(flight, f)
<1>1. FrameCount \in Nat /\ L \in Nat /\ L < FrameCount BY FramesAssumption
<1>2. /\ Len(flight2) = L + 1 /\ flight2[L + 1] = f
      /\ \A n \in 1 .. L : flight2[n] = flight[n]
  BY AppendOf
<1>3. \A n \in 1 .. L : AllOk(T, flight[n].draws, now - 1 - (L - n)) BY DEF FlightOk
<1>4. ASSUME NEW since \in Int, since + FrameCount > now, NEW draws, AllOk(T, draws, since)
      PROVE  AllOk(T2, draws, since)
  <2>1. "shader" \in Kinds /\ "mesh" \in Kinds /\ "instance" \in Kinds BY DEF Kinds
  <2>2. \A k \in Kinds : \A x, y : Holds(T[k], x, y, since) => Holds(T2[k], x, y, since)
    BY <1>4
  <2>3. \A d : DrawOk(T, d, since) => DrawOk(T2, d, since) BY <2>1, <2>2 DEF DrawOk
  <2>4. QED BY <1>4, <2>3 DEF AllOk
<1> HIDE DEF L, flight2
<1>5. ASSUME NEW n \in 1 .. L + 1
      PROVE  AllOk(T2, flight2[n].draws, (now + 1) - 1 - ((L + 1) - n))
  <2>1. CASE n = L + 1
    <3>1. (now + 1) - 1 - ((L + 1) - n) = now /\ now \in Int /\ now + FrameCount > now
      BY <1>1, <2>1
    <3>2. AllOk(T2, f.draws, now) BY <1>4, <3>1
    <3>3. QED BY <1>2, <2>1, <3>1, <3>2
  <2>2. CASE n \in 1 .. L
    <3> DEFINE since == now - 1 - (L - n)
    <3>1. /\ (now + 1) - 1 - ((L + 1) - n) = since /\ since \in Int
          /\ since + FrameCount > now
      BY <1>1, <2>2
    <3>2. AllOk(T, flight[n].draws, since) BY <1>3, <2>2
    <3> HIDE DEF since
    <3>3. AllOk(T2, flight[n].draws, since) BY <1>4, <3>1, <3>2
    <3>4. QED BY <1>2, <2>2, <3>1, <3>3
  <2>3. QED BY <1>1, <2>1, <2>2
<1>6. FlightOk(T2, flight2, now + 1) BY <1>2, <1>5 DEF FlightOk
<1>7. QED BY <1>6 DEF flight2

LEMMA FrameEndStep ==
  ASSUME DrawsAll, IInv, FrameEnd PROVE IInv'
<1> DEFINE now == frame_counter
           f   == [index |-> frame_index, draws |-> cmdbuf.draws]
<1>1. /\ TypeOK /\ QueueInv /\ BindInv /\ FenceInv /\ StoreInv /\ DrawsInv
      /\ at = "fence" /\ fence[frame_index] = "signaled"
      /\ fence' = [fence EXCEPT ![frame_index] = "reset"]
      /\ inFlight' = Append(inFlight, f)
      /\ frame_index' = (frame_index + 1) % FrameCount
      /\ cmdbuf' = Closed /\ last_pipeline' = NULL /\ last_mesh' = NULL
      /\ DestroyStaleData(now) /\ frame_counter' = now + 1 /\ at' = "pop"
      /\ queue' = queue /\ main' = main /\ pushed' = pushed
  BY DEF IInv, FrameEnd, client
<1>2. /\ inFlight \in Seq(Frame) /\ frame_index \in Indices
      /\ fence \in [Indices -> {"signaled", "reset"}] /\ now \in Nat /\ freeSets \in Nat
      /\ cmdbuf.draws \in SUBSET Draw
  BY <1>1 DEF TypeOK, BuffersTyped, Frame, CmdBuf
<1>3. f \in Frame /\ f.draws = cmdbuf.draws /\ f.index = frame_index BY <1>2 DEF Frame
<1>4. \A n \in 1 .. Len(inFlight) : inFlight[n].index # frame_index
  BY <1>1 DEF FenceInv
<1>5. /\ inFlight' \in Seq(Frame) /\ Len(inFlight) < FrameCount
      /\ InOrder(inFlight', frame_index') /\ frame_index' \in Indices
  BY <1>1, <1>2, <1>4, FrameAdded, NextIs DEF FenceInv
<1> HIDE DEF f
<1>6. FenceInv' /\ fence' \in [Indices -> {"signaled", "reset"}]
  <2>1. /\ Len(inFlight) \in Nat /\ Len(inFlight') = Len(inFlight) + 1
        /\ inFlight'[Len(inFlight) + 1] = f
        /\ \A n \in 1 .. Len(inFlight) : inFlight'[n] = inFlight[n]
    BY <1>1, <1>2, <1>3, AppendOf
  <2>2. \A n \in 1 .. Len(inFlight) :
          inFlight[n].index \in Indices /\ fence[inFlight[n].index] = "reset"
    <3> TAKE n \in 1 .. Len(inFlight)
    <3>1. inFlight[n] \in Frame BY <1>2
    <3>2. inFlight[n].index \in Indices BY <3>1 DEF Frame
    <3>3. fence[inFlight[n].index] = "reset" BY <1>1 DEF FenceInv
    <3>4. QED BY <3>2, <3>3
  <2>3. fence' \in [Indices -> {"signaled", "reset"}] /\ fence'[frame_index] = "reset"
        /\ \A i \in Indices : fence[i] = "reset" => fence'[i] = "reset"
    BY <1>1, <1>2
  <2>4. ASSUME NEW n \in 1 .. Len(inFlight) + 1 PROVE fence'[inFlight'[n].index] = "reset"
    <3>1. CASE n = Len(inFlight) + 1 BY <1>3, <2>1, <2>3, <3>1
    <3>2. CASE n \in 1 .. Len(inFlight) BY <2>1, <2>2, <2>3, <3>2
    <3>3. QED BY <2>1, <3>1, <3>2
  <2>5. QED BY <1>5, <2>1, <2>3, <2>4 DEF FenceInv
<1>7. /\ TablesOk(table', now) /\ live' = ObjectsIn(table') /\ badDestroys' = {}
      /\ freeSets' \in Nat
      /\ \A k \in Kinds : LET r == Reclaimed(table[k], now, live)
                          IN table'[k] = r.t /\ Reclaims(r, table[k], now, live)
  BY <1>1, <1>2, DestroyedStore DEF StoreInv
<1>8. \A k \in Kinds : table[k] \in Table BY <1>1 DEF StoreInv, TablesOk
<1>9. ASSUME NEW k \in Kinds PROVE FreshSlots(k, table'[k])
  <2>1. CASE k = "instance" BY <2>1 DEF FreshSlots
  <2>2. CASE k # "instance"
    <3>1. Covers(ModelsOf(cmdbuf.draws)) BY <1>1 DEF QueueInv
    <3>2. \A l \in 0 .. table[k].count - 1 : ~StaleAt(table[k], l, now)
      BY <1>1, <2>2, <3>1, AllDrawn DEF DrawsInv
    <3>3. Reclaimed(table[k], now, live) = Unswept(table[k], live)
      BY <1>8, <3>2, NothingStale
    <3>4. table'[k] = table[k] BY <1>7, <3>3 DEF Unswept
    <3>5. FreshSlots(k, table[k]) BY <1>1 DEF StoreInv
    <3>6. QED BY <3>4, <3>5
  <2>3. QED BY <2>1, <2>2
<1>10. StoreInv'
  <2>1. TablesOk(table', now + 1)
    <3>1. now \in Int /\ now + 1 \in Int /\ now <= now + 1 BY <1>2
    <3>2. QED BY <1>7, <3>1, LaterOk
  <2>2. QED BY <1>1, <1>7, <1>9, <2>1 DEF StoreInv
<1>11. DrawsInv'
  <2>1. ASSUME NEW k \in Kinds, NEW x, NEW y, NEW since \in Int, since + FrameCount > now,
               Holds(table[k], x, y, since)
        PROVE  Holds(table'[k], x, y, since)
    <3>1. now \in Int BY <1>2
    <3>2. QED BY <1>7, <1>8, <2>1, <3>1, HeldStays
  <2>2. FlightOk(table, inFlight, now) /\ AllOk(table, f.draws, now)
    BY <1>1, <1>3 DEF DrawsInv
  <2>3. FlightOk(table', Append(inFlight, f), now + 1)
    BY <1>2, <1>3, <1>5, <2>1, <2>2, FlightKept
  <2>4. AllOk(table', Closed.draws, now + 1) BY DEF AllOk, Closed
  <2>5. QED BY <1>1, <2>3, <2>4 DEF DrawsInv
<1>12. Closed \in CmdBuf /\ Closed.draws = {} /\ ~Closed.open /\ Closed.pipeline = NULL
       /\ Closed.mesh = NULL
  BY DEF Closed, CmdBuf, Objects
<1>13. BindInv' BY <1>1, <1>12 DEF BindInv
<1>14. QueueInv'
  <2>1. Recorded = {} /\ Recorded' = {} BY <1>1, <1>12 DEF Recorded, ModelsOf
  <2>2. QED BY <1>1, <2>1 DEF QueueInv
<1>15. TypeOK'
  <2>1. now + 1 \in Nat BY <1>2
  <2>2. QED BY <1>1, <1>5, <1>6, <1>7, <1>12, <2>1 DEF TypeOK, ThreadsTyped, BuffersTyped, Frame
<1>16. QED BY <1>6, <1>10, <1>11, <1>13, <1>14, <1>15 DEF IInv

-----------------------------------------------------------------------------
(* The end of the render thread, and the theorems *)

LEMMA ExitStep ==
  ASSUME IInv, Exit PROVE IInv'
<1> DEFINE now == frame_counter + FrameCount + 1
<1>1. /\ TypeOK /\ QueueInv /\ BindInv /\ FenceInv /\ StoreInv /\ DrawsInv
      /\ at = "wait idle" /\ at' = "exited" /\ inFlight = <<>>
      /\ frame_counter' = now /\ DestroyStaleData(now)
      /\ queue' = queue /\ main' = main /\ pushed' = pushed /\ cmdbuf' = cmdbuf
      /\ last_pipeline' = last_pipeline /\ last_mesh' = last_mesh
      /\ frame_index' = frame_index /\ fence' = fence /\ inFlight' = inFlight
  BY DEF IInv, Exit, client, local, device
<1>2. /\ frame_counter \in Nat /\ FrameCount \in Nat /\ freeSets \in Nat
      /\ now \in Nat /\ frame_counter <= now
  <2>1. frame_counter \in Nat /\ freeSets \in Nat BY <1>1 DEF TypeOK
  <2>2. FrameCount \in Nat BY FramesAssumption
  <2>3. now \in Nat /\ frame_counter <= now BY <2>1, <2>2
  <2>4. QED BY <2>1, <2>2, <2>3
<1>3. \A k \in Kinds : table[k] \in Table
                       /\ \A i \in 0 .. table[k].count - 1 :
                            SlotOk(k, table[k].slots[i], frame_counter)
  BY <1>1 DEF StoreInv, TablesOk
<1>4. ASSUME NEW k \in Kinds, NEW l \in 0 .. table[k].count - 1
      PROVE  StaleAt(table[k], l, now)
  <2>1. table[k].slots[l].used \in Nat /\ table[k].slots[l].used <= frame_counter
    BY <1>3, SlotTyped DEF SlotOk
  <2>2. QED BY <1>2, <2>1 DEF StaleAt, Stale
<1> HIDE DEF now
<1>5. TablesOk(table, now)
  <2>1. frame_counter \in Int /\ now \in Int BY <1>2
  <2>2. TablesOk(table, frame_counter) BY <1>1 DEF StoreInv
  <2>3. QED BY <1>2, <2>1, <2>2, LaterOk
<1>6. /\ TablesOk(table', now) /\ live' = ObjectsIn(table') /\ badDestroys' = {}
      /\ freeSets' \in Nat
      /\ \A k \in Kinds : LET r == Reclaimed(table[k], now, live)
                          IN table'[k] = r.t /\ Reclaims(r, table[k], now, live)
  BY <1>1, <1>2, <1>5, DestroyedStore DEF StoreInv
<1>7. live' = {}
  <2>1. ASSUME NEW k \in Kinds, NEW j \in 0 .. table'[k].count - 1 PROVE FALSE
    <3>1. \E l \in 0 .. table[k].count - 1 : ~StaleAt(table[k], l, now)
      BY <1>6, <2>1 DEF Reclaims
    <3>2. QED BY <1>4, <3>1
  <2>2. \A o : o \notin ObjectsIn(table') BY <2>1 DEF ObjectsIn, HasObject
  <2>3. QED BY <1>6, <2>2
<1>8. StoreInv' BY <1>1, <1>6, <1>7 DEF StoreInv
<1>9. queue = <<>> /\ cmdbuf.draws = {} BY <1>1 DEF QueueInv
<1>10. DrawsInv'
  <2>1. Len(<<>>) = 0 OBVIOUS
  <2>2. FlightOk(table', <<>>, now) BY <2>1 DEF FlightOk
  <2>3. AllOk(table', cmdbuf.draws, now) BY <1>9 DEF AllOk
  <2>4. QED BY <1>1, <2>2, <2>3 DEF DrawsInv
<1>11. QueueInv' BY <1>1, <1>9 DEF QueueInv, Recorded
<1>12. BindInv' /\ FenceInv' BY <1>1 DEF BindInv, FenceInv
<1>13. TypeOK' BY <1>1, <1>2, <1>6 DEF TypeOK, ThreadsTyped, BuffersTyped
<1>14. QED BY <1>8, <1>10, <1>11, <1>12, <1>13 DEF IInv

LEMMA StutterStep ==
  ASSUME IInv, UNCHANGED vars PROVE IInv'
<1>1. /\ queue' = queue /\ main' = main /\ pushed' = pushed /\ at' = at
      /\ UNCHANGED <<at, frame_counter, local, store, device>>
      /\ frame_counter' = frame_counter /\ freeSets' = freeSets /\ cmdbuf' = cmdbuf
  BY DEF vars, client, local, store
<1>2. BindInv' /\ FenceInv' /\ StoreInv' /\ DrawsInv' /\ BuffersTyped' BY <1>1, StoreKept
<1>3. QueueInv' BY <1>1 DEF IInv, QueueInv, Recorded
<1>4. TypeOK' BY <1>1, <1>2 DEF IInv, TypeOK, ThreadsTyped
<1>5. QED BY <1>2, <1>3, <1>4 DEF IInv

LEMMA InitIInv == ASSUME Init PROVE IInv
<1> DEFINE slots == [i \in 0 .. MaxDrawables - 1 |-> EmptySlot]
           empty == [count |-> 0, slots |-> slots]
<1>1. /\ queue = <<>> /\ main = "running" /\ pushed = {} /\ at = "pop"
      /\ table = [k \in Kinds |-> empty] /\ frame_counter = 0
      /\ cmdbuf = Closed /\ last_pipeline = NULL /\ last_mesh = NULL
      /\ frame_index = 0 /\ fence = [i \in Indices |-> "signaled"] /\ inFlight = <<>>
      /\ freeSets = PoolSets /\ live = {} /\ badDestroys = {}
  BY DEF Init
<1>2. Closed \in CmdBuf /\ Closed.draws = {} /\ ~Closed.open /\ Closed.pipeline = NULL
      /\ Closed.mesh = NULL
  BY DEF Closed, CmdBuf, Objects
<1>3. Len(<<>>) = 0 /\ FrameCount \in Nat \ {0} BY FramesAssumption
<1>4. ThreadsTyped
  <2>1. <<>> \in Seq(Commands) OBVIOUS
  <2>2. QED BY <1>1, <2>1 DEF ThreadsTyped
<1>5. BuffersTyped
  <2>1. <<>> \in Seq([index : Indices, draws : SUBSET Draw]) OBVIOUS
  <2>2. 0 \in Indices BY <1>3 DEF Indices
  <2>3. QED BY <1>1, <1>2, <2>1, <2>2 DEF BuffersTyped
<1>6. TypeOK BY <1>1, <1>4, <1>5, SizesAssumption DEF TypeOK
<1>7. QueueInv
  <2>1. Recorded = {} BY <1>1, <1>2 DEF Recorded, ModelsOf
  <2>2. Flow(queue, Recorded, pushed) BY <1>1, <2>1, FlowEmpty
  <2>3. StopIsLast(queue, main) BY <1>1, <1>3 DEF StopIsLast
  <2>4. QED BY <1>1, <2>2, <2>3 DEF QueueInv
<1>8. BindInv BY <1>1, <1>2 DEF BindInv
<1>9. FenceInv BY <1>1, <1>3 DEF FenceInv, InOrder
<1>10. EmptySlot \in Slot /\ EmptySlot.object = NULL
  BY DEF EmptySlot, Slot, Infos, Objects
<1>11. slots \in [0 .. MaxDrawables - 1 -> Slot] BY <1>10
<1>12. \A i \in 0 .. MaxDrawables - 1 : slots[i].object = NULL BY <1>10
<1> HIDE DEF slots
<1>13. /\ empty \in Table /\ empty.count = 0 /\ empty.slots = slots
       /\ \A k \in Kinds : table[k] = empty
  BY <1>1, <1>11, SizesAssumption DEF Table
<1> HIDE DEF empty
<1>14. \A k \in Kinds : \A i \in 0 .. table[k].count - 1 : FALSE BY <1>13
<1>15. TablesOk(table, frame_counter) BY <1>13, <1>14 DEF TablesOk, UniqueInfos
<1>16. ObjectsIn(table) = {} BY <1>14 DEF ObjectsIn, HasObject
<1>17. \A k \in Kinds : FreshSlots(k, table[k]) BY <1>12, <1>13 DEF FreshSlots
<1>18. StoreInv BY <1>1, <1>15, <1>16, <1>17 DEF StoreInv
<1>19. DrawsInv BY <1>1, <1>2, <1>3 DEF DrawsInv, AllOk, FlightOk
<1>20. QED BY <1>6, <1>7, <1>8, <1>9, <1>18, <1>19 DEF IInv

LEMMA Inductive ==
  ASSUME DrawsAll, IInv, [Next]_vars PROVE IInv'
<1>1. CASE Main BY <1>1, MainStep
<1>2. CASE Closing BY <1>2, ClosingStep
<1>3. CASE RenderThread
  BY <1>3, DrawModelStep, FrameDoneStep, FrameEndStep, StopPoppedStep, ExitStep
  DEF RenderThread
<1>4. CASE Complete BY <1>4, CompleteStep
<1>5. CASE Finished BY <1>5, StutterStep DEF Finished
<1>6. CASE UNCHANGED vars BY <1>6, StutterStep
<1>7. QED BY <1>1, <1>2, <1>3, <1>4, <1>5, <1>6 DEF Next

LEMMA DrawsHold ==
  ASSUME IInv, NEW d \in Draws
  PROVE  /\ d \in Draw /\ \E since \in Int : DrawOk(table, d, since)
<1>1. /\ cmdbuf.draws \subseteq Draw /\ frame_counter \in Nat /\ Len(inFlight) \in Nat
      /\ inFlight \in Seq(Frame)
  BY RecordedModels DEF IInv, TypeOK, BuffersTyped, Frame
<1>2. CASE d \in cmdbuf.draws BY <1>1, <1>2 DEF IInv, DrawsInv, AllOk
<1>3. CASE d \notin cmdbuf.draws
  <2>1. PICK n \in 1 .. Len(inFlight) : d \in inFlight[n].draws BY <1>1, <1>3 DEF Draws
  <2>2. inFlight[n] \in Frame BY <1>1
  <2>3. d \in Draw BY <2>1, <2>2 DEF Frame
  <2>4. frame_counter - 1 - (Len(inFlight) - n) \in Int BY <1>1
  <2>5. DrawOk(table, d, frame_counter - 1 - (Len(inFlight) - n))
    BY <2>1 DEF IInv, DrawsInv, FlightOk, AllOk
  <2>6. QED BY <2>3, <2>4, <2>5
<1>4. QED BY <1>2, <1>3

LEMMA HeldIsLive ==
  ASSUME StoreInv, NEW k \in Kinds, NEW x, NEW y, NEW since, Holds(table[k], x, y, since)
  PROVE  y \in live /\ y[1] = k /\ y[2] = x
<1>1. PICK i \in 0 .. table[k].count - 1 : /\ table[k].slots[i].info = x
                                           /\ table[k].slots[i].object = y
  BY DEF Holds
<1>2. table[k] \in Table /\ SlotOk(k, table[k].slots[i], frame_counter)
  BY DEF StoreInv, TablesOk
<1>3. y \in Objects BY <1>1, <1>2, SlotTyped
<1>4. HasObject(table, k, y) BY <1>1 DEF HasObject
<1>5. QED BY <1>1, <1>2, <1>3, <1>4 DEF SlotOk, StoreInv, ObjectsIn

LEMMA DrawnIsLive ==
  ASSUME IInv, NEW d \in Draws
  PROVE  /\ Drawn(d) \subseteq live
         /\ d.pipeline[1] = "shader"   /\ d.pipeline[2] = d.model[3]
         /\ d.mesh[1] = "mesh"         /\ d.mesh[2] = d.model[2]
         /\ d.instance[1] = "instance" /\ d.instance[2] = d.model[1]
<1>1. PICK since \in Int : DrawOk(table, d, since) BY DrawsHold
<1>2. StoreInv /\ "shader" \in Kinds /\ "mesh" \in Kinds /\ "instance" \in Kinds
  BY DEF IInv, Kinds
<1>3. d.pipeline \in live /\ d.pipeline[1] = "shader" /\ d.pipeline[2] = d.model[3]
  <2>1. Holds(table["shader"], d.model[3], d.pipeline, since) BY <1>1 DEF DrawOk
  <2>2. QED BY <1>2, <2>1, HeldIsLive
<1>4. d.mesh \in live /\ d.mesh[1] = "mesh" /\ d.mesh[2] = d.model[2]
  <2>1. Holds(table["mesh"], d.model[2], d.mesh, since) BY <1>1 DEF DrawOk
  <2>2. QED BY <1>2, <2>1, HeldIsLive
<1>5. d.instance \in live /\ d.instance[1] = "instance" /\ d.instance[2] = d.model[1]
  <2>1. Holds(table["instance"], d.model[1], d.instance, since) BY <1>1 DEF DrawOk
  <2>2. QED BY <1>2, <2>1, HeldIsLive
<1>6. QED BY <1>3, <1>4, <1>5 DEF Drawn

LEMMA InvariantMeans ==
  ASSUME IInv PROVE NothingDestroyedInUse /\ DrawsItsModel /\ DestroyedOnce
<1>1. \A d \in Draws : Drawn(d) \subseteq live BY DrawnIsLive
<1>2. \A m, n \in DOMAIN inFlight : inFlight[m].index = inFlight[n].index => m = n
  <2>1. /\ inFlight \in Seq(Frame) /\ frame_index \in Indices /\ InOrder(inFlight, frame_index)
    BY DEF IInv, TypeOK, BuffersTyped, Frame, FenceInv
  <2>2. DOMAIN inFlight = 1 .. Len(inFlight) BY <2>1
  <2>3. QED BY <2>1, <2>2, DistinctFrames
<1>3. main = "infos freed" => queue = <<>> /\ at = "exited" BY DEF IInv, QueueInv
<1>4. NothingDestroyedInUse BY <1>1, <1>2, <1>3 DEF NothingDestroyedInUse
<1>5. DrawsItsModel BY DrawnIsLive DEF DrawsItsModel
<1>6. DestroyedOnce BY DEF DestroyedOnce, IInv, StoreInv
<1>7. QED BY <1>4, <1>5, <1>6

LEMMA Invariant == ASSUME DrawsAll PROVE Spec => []IInv
<1>1. Init => IInv BY InitIInv
<1>2. IInv /\ [Next]_vars => IInv' BY Inductive
<1>3. QED BY <1>1, <1>2, PTL DEF Spec

(* If main draws every mesh and shader in every frame, nothing is          *)
(* destroyed while a command buffer refers to it, no command buffer is     *)
(* submitted before it completed, and the game frees its infos only when   *)
(* the render thread is done.                                              *)
THEOREM NothingInUse == ASSUME DrawsAll PROVE Spec => []NothingDestroyedInUse
<1>1. IInv => NothingDestroyedInUse BY InvariantMeans
<1>2. QED BY <1>1, Invariant, PTL

(* Every draw has its own model's pipeline, mesh and instance bound. *)
THEOREM DrawsOwn == ASSUME DrawsAll PROVE Spec => []DrawsItsModel
<1>1. IInv => DrawsItsModel BY InvariantMeans
<1>2. QED BY <1>1, Invariant, PTL

(* Every object is destroyed once, and none is left when the thread ends.  *)
THEOREM DestroysOnce == ASSUME DrawsAll PROVE Spec => []DestroyedOnce
<1>1. IInv => DestroyedOnce BY InvariantMeans
<1>2. QED BY <1>1, Invariant, PTL

-----------------------------------------------------------------------------
(* Room for every draw: a table has a slot for every info main pushes, and *)
(* the pool has sets for every entity.                                     *)
Room == /\ \A k \in Kinds : IsFiniteSet(InfosOf(k)) /\ Cardinality(InfosOf(k)) <= MaxDrawables
        /\ FrameCount * Cardinality(InfosOf("instance")) <= PoolSets

(* Every instance has its sets, and the pool has the others. *)
SetsOf(t, free) == /\ free + FrameCount * t.count = PoolSets
                   /\ \A i \in 0 .. t.count - 1 : t.slots[i].sets = FrameCount
SetsInv == at # "exited" => SetsOf(table["instance"], freeSets)

LEMMA Products ==
  ASSUME NEW f \in Nat, NEW a \in Nat
  PROVE  /\ f * a \in Nat /\ f * (a + 1) = f * a + f
         /\ \A b \in Nat : a <= b => f * a <= f * b
<1>1. f * a \in Nat /\ f * (a + 1) = f * a + f OBVIOUS
<1>2. ASSUME NEW b \in Nat, a <= b PROVE f * a <= f * b
  <2> DEFINE e == b - a
  <2>1. e \in Nat /\ b = a + e BY <1>2
  <2> HIDE DEF e
  <2>2. f * (a + e) = f * a + f * e /\ f * e \in Nat BY <2>1
  <2>3. QED BY <1>1, <2>1, <2>2
<1>3. QED BY <1>1, <1>2

LEMMA RoomLeft ==
  ASSUME Room, TablesOk(table, frame_counter), NEW k \in Kinds, NEW info \in InfosOf(k),
         \A i \in Used(k) : table[k].slots[i].info # info
  PROVE  /\ table[k].count + 1 <= Cardinality(InfosOf(k)) /\ table[k].count \in Nat
         /\ Cardinality(InfosOf(k)) \in Nat
<1> DEFINE t == table[k]
           n == t.count
           I == InfosOf(k)
           f == [i \in 0 .. n |-> IF i = n THEN info ELSE t.slots[i].info]
<1>1. /\ t \in Table /\ n \in Nat /\ IsFiniteSet(I)
      /\ \A i \in 0 .. n - 1 : t.slots[i].info \in I /\ t.slots[i].info # info
      /\ \A i, j \in 0 .. n - 1 : t.slots[i].info = t.slots[j].info => i = j
  BY SizesAssumption DEF TablesOk, Table, SlotOk, Room, UniqueInfos, Used
<1>2. info \in I OBVIOUS
<1> HIDE DEF t, n, I
<1>3. \A i \in 0 .. n : i # n => i \in 0 .. n - 1 BY <1>1
<1>4. f \in [0 .. n -> I] BY <1>1, <1>2, <1>3
<1>5. ASSUME NEW i \in 0 .. n, NEW j \in 0 .. n, f[i] = f[j] PROVE i = j
  BY <1>1, <1>3, <1>5
<1> HIDE DEF f
<1>6. f \in Injection(0 .. n, I) BY <1>4, <1>5 DEF Injection, IsInjective
<1>7. Cardinality(0 .. n) <= Cardinality(I) /\ Cardinality(I) \in Nat
  BY <1>1, <1>6, FS_Injection, FS_CardinalityType
<1>8. Cardinality(0 .. n) = n + 1
  <2>1. 0 \in Int /\ n \in Int /\ ~(0 > n) /\ n - 0 + 1 = n + 1 BY <1>1
  <2>2. QED BY <2>1, FS_Interval
<1>9. QED BY <1>1, <1>7, <1>8 DEF t, n, I

LEMMA EveryFits ==
  ASSUME Room, TablesOk(table, frame_counter), NEW m \in Models
  PROVE  Fits(m)
<1> SUFFICES ASSUME NEW k \in Kinds PROVE Place(k, Info(m, k)) < MaxDrawables BY DEF Fits
<1> DEFINE info == Info(m, k)
           p == Place(k, info)
           n == table[k].count
<1>1. info \in InfosOf(k) BY DEF InfosOf
<1>2. table[k] \in Table /\ n \in 0 .. MaxDrawables /\ MaxDrawables \in Nat
  BY SizesAssumption DEF TablesOk, Table
<1> HIDE DEF info
<1>3. \/ p \in Used(k)
      \/ p = n /\ \A j \in Used(k) : table[k].slots[j].info # info
  BY <1>2, PlaceIs
<1> HIDE DEF p
<1>4. CASE p \in Used(k) BY <1>2, <1>4 DEF Used, p, info
<1>5. CASE p = n /\ \A j \in Used(k) : table[k].slots[j].info # info
  <2>1. n + 1 <= Cardinality(InfosOf(k)) /\ Cardinality(InfosOf(k)) \in Nat
    BY <1>1, <1>5, RoomLeft
  <2>2. Cardinality(InfosOf(k)) <= MaxDrawables BY DEF Room
  <2>3. p < MaxDrawables BY <1>2, <1>5, <2>1, <2>2
  <2>4. QED BY <2>3 DEF p, info
<1>6. QED BY <1>3, <1>4, <1>5

LEMMA DrawnSets ==
  ASSUME Room, TablesOk(table, frame_counter), freeSets \in Nat,
         SetsOf(table["instance"], freeSets), NEW info \in InfosOf("instance")
  PROVE  /\ SetsFor("instance", info) = FrameCount
         /\ SetsOf(CreateOrGet("instance", info),
                   IF Creates("instance", info) THEN freeSets - SetsFor("instance", info)
                                                ELSE freeSets)
<1> DEFINE t  == table["instance"]
           n  == t.count
           p  == Place("instance", info)
           K  == Cardinality(InfosOf("instance"))
           t2 == CreateOrGet("instance", info)
           o  == ObjectFor("instance", info)
           sets == SetsFor("instance", info)
           new == [info |-> info, object |-> o, used |-> frame_counter, sets |-> sets]
           slots2 == [t.slots EXCEPT ![p] = new]
           free2 == IF Creates("instance", info) THEN freeSets - sets ELSE freeSets
           M  == MaxDrawables
<1>1. /\ "instance" \in Kinds /\ t \in Table /\ n \in 0 .. M /\ M \in Nat
      /\ t.slots \in [0 .. M - 1 -> Slot] /\ FrameCount \in Nat /\ PoolSets \in Nat
  BY SizesAssumption, FramesAssumption DEF TablesOk, Table, Kinds
<1>2. \/ p \in 0 .. n - 1
      \/ p = n /\ \A j \in Used("instance") : t.slots[j].info # info
  BY <1>1, PlaceIs DEF Used
<1>3. freeSets + FrameCount * n = PoolSets /\ \A i \in 0 .. n - 1 : t.slots[i].sets = FrameCount
  BY DEF SetsOf
<1>4. Creates("instance", info) <=> p = n BY DEF Creates
<1>5. t2 = [count |-> IF p = n THEN p + 1 ELSE n, slots |-> slots2] BY DEF CreateOrGet
<1>6. sets = FrameCount
  <2>1. CASE p = n
    <3>1. \A j \in Used("instance") : t.slots[j].info # info BY <1>1, <1>2, <2>1
    <3>2. n + 1 <= K /\ K \in Nat BY <1>1, <3>1, RoomLeft
    <3>3. FrameCount * K <= PoolSets BY DEF Room
    <3>4. n \in Nat /\ n + 1 \in Nat BY <1>1
    <3> HIDE DEF n, K
    <3>5. FrameCount * (n + 1) <= FrameCount * K BY <1>1, <3>2, <3>4, Products
    <3>6. /\ FrameCount * (n + 1) = FrameCount * n + FrameCount /\ FrameCount * n \in Nat
          /\ FrameCount * (n + 1) \in Nat /\ FrameCount * K \in Nat
      BY <1>1, <3>2, <3>4, Products
    <3>7. ~(freeSets < FrameCount)
      <4>1. \A a, b, c, d \in Nat : freeSets + a = PoolSets /\ b = a + FrameCount
              /\ b <= c /\ c <= PoolSets => ~(freeSets < FrameCount)
        BY <1>1
      <4>2. QED BY <1>3, <3>3, <3>5, <3>6, <4>1
    <3>8. QED BY <1>4, <2>1, <3>7 DEF SetsFor
  <2>2. CASE p # n
    <3>1. p \in 0 .. n - 1 BY <1>2, <2>2
    <3>2. sets = t.slots[p].sets BY <1>4, <2>2 DEF SetsFor
    <3>3. QED BY <1>3, <3>1, <3>2
  <2>3. QED BY <2>1, <2>2
<1>7. p \in 0 .. M - 1
  <2>1. CASE p = n
    <3>1. \A j \in Used("instance") : t.slots[j].info # info BY <1>1, <1>2, <2>1
    <3>2. n + 1 <= K /\ K \in Nat BY <1>1, <3>1, RoomLeft
    <3>3. K <= M BY <1>1 DEF Room
    <3> HIDE DEF K
    <3>4. QED BY <1>1, <2>1, <3>2, <3>3
  <2>2. CASE p \in 0 .. n - 1 BY <1>1, <2>2
  <2>3. QED BY <1>2, <2>1, <2>2
<1> HIDE DEF t, n, p, K, t2, o, sets, M
<1>8. new.sets = FrameCount BY <1>6
<1> HIDE DEF new
<1>9. slots2[p] = new /\ \A i \in 0 .. M - 1 : i # p => slots2[i] = t.slots[i] BY <1>1, <1>7
<1> HIDE DEF slots2
<1>10. /\ t2.slots = slots2 /\ t2.count = (IF p = n THEN n + 1 ELSE n)
       /\ \A i \in 0 .. t2.count - 1 : i \in 0 .. M - 1 /\ (i = p \/ i \in 0 .. n - 1)
  BY <1>1, <1>2, <1>5, <1>7
<1>11. \A i \in 0 .. t2.count - 1 : t2.slots[i].sets = FrameCount
  <2> TAKE i \in 0 .. t2.count - 1
  <2>1. CASE i = p BY <1>8, <1>9, <1>10, <2>1
  <2>2. CASE i # p BY <1>3, <1>9, <1>10, <2>2
  <2>3. QED BY <2>1, <2>2
<1>12. free2 + FrameCount * t2.count = PoolSets
  <2>1. CASE p = n
    <3>1. free2 = freeSets - FrameCount /\ t2.count = n + 1
      BY <1>4, <1>6, <1>10, <2>1
    <3>2. n \in Nat BY <1>1
    <3>3. FrameCount * (n + 1) = FrameCount * n + FrameCount /\ FrameCount * n \in Nat
      BY <1>1, <3>2, Products
    <3>4. \A a \in Nat : freeSets + a = PoolSets => (freeSets - FrameCount) + (a + FrameCount) = PoolSets
      BY <1>1
    <3>5. QED BY <1>3, <3>1, <3>3, <3>4
  <2>2. CASE p # n BY <1>3, <1>4, <1>10, <2>2
  <2>3. QED BY <2>1, <2>2
<1>13. SetsOf(t2, free2) BY <1>11, <1>12 DEF SetsOf
<1>14. QED BY <1>6, <1>13 DEF t2, sets

(* The pool gets back the sets of the slots that go. *)
LEMMA ReclaimedSets ==
  ASSUME NEW t \in Table, NEW now, NEW before, UniqueInfos(t), Named(t),
         \A l \in 0 .. t.count - 1 : t.slots[l].object \in before,
         NEW free \in Nat, SetsOf(t, free)
  PROVE  LET r == Reclaimed(t, now, before) IN SetsOf(r.t, free + r.sets)
<1> DEFINE N == t.count
           Sum(s) == s.sets + FrameCount * s.t.count = FrameCount * N
           r == Reclaimed(t, now, before)
<1>1. N \in Nat /\ FrameCount \in Nat BY SizesAssumption, FramesAssumption DEF Table
<1>2. PICK Sweep : Sweeps(Sweep, t, now, before) BY <1>1, SweepLoop
<1>3. /\ Sweep[N] = Unswept(t, before) /\ r = Sweep[0]
      /\ \A i \in 0 .. N - 1 : Sweep[i] = SweepStep(Sweep[i + 1], i, now)
  BY <1>2 DEF Sweeps
<1>4. \A i \in 0 .. N - 1 : t.slots[i].sets = FrameCount BY DEF SetsOf
<1> DEFINE Good == {n \in 0 .. N : Swept(Sweep[N - n], N - n, t, now, before)
                                   /\ Sum(Sweep[N - n])}
<1>5. 0 \in Good
  <2>1. \A l \in 0 .. N - 1 : ~(l >= N) BY <1>1
  <2>2. Gone(t, N, now) = {} BY <2>1 DEF Gone
  <2>3. N <= N BY <1>1
  <2>4. Swept(Sweep[N], N, t, now, before) BY <1>3, <2>1, <2>2, <2>3 DEF Swept, Unswept
  <2>5. FrameCount * N \in Nat BY <1>1, Products
  <2>6. Sum(Sweep[N]) BY <1>3, <2>5 DEF Unswept
  <2>7. N - 0 = N /\ 0 \in 0 .. N BY <1>1
  <2>8. QED BY <2>4, <2>6, <2>7
<1>6. ASSUME NEW n \in 0 .. N - 1, n \in Good PROVE n + 1 \in Good
  <2> DEFINE i == N - (n + 1)
             s == Sweep[i + 1]
  <2>1. i \in 0 .. N - 1 /\ i + 1 = N - n /\ n + 1 \in 0 .. N BY <1>1
  <2> HIDE DEF N, i
  <2>2. Swept(s, i + 1, t, now, before) /\ Sum(s) BY <1>6, <2>1
  <2>3. Sweep[i] = SweepStep(s, i, now) BY <1>3, <2>1
  <2>4. Swept(Sweep[i], i, t, now, before) BY <2>1, <2>2, <2>3, SweptMore DEF N
  <2>5. /\ s.t.slots[i] = t.slots[i] /\ s.sets \in Nat /\ s.t.count \in Nat /\ i + 1 <= s.t.count
    <3>1. \A j \in 0 .. (i + 1) - 1 : s.t.slots[j] = t.slots[j] BY <2>2 DEF Swept
    <3>2. i \in 0 .. (i + 1) - 1 BY <1>1, <2>1
    <3>3. s.t \in Table /\ s.sets \in Nat /\ i + 1 <= s.t.count BY <2>2 DEF Swept
    <3>4. s.t.count \in Nat BY <3>3, SizesAssumption DEF Table
    <3>5. QED BY <3>1, <3>2, <3>3, <3>4
  <2>6. Sum(Sweep[i])
    <3> DEFINE c == s.t.count
    <3>1. CASE Stale(s.t.slots[i], now)
      <4>1. Sweep[i].sets = s.sets + s.t.slots[i].sets /\ Sweep[i].t.count = c - 1
        <5>1. Sweep[i] = Removed(s, i) BY <2>3, <3>1 DEF SweepStep
        <5>2. Sweep[i].t = Shifted(s.t, i) /\ Sweep[i].sets = s.sets + s.t.slots[i].sets
          BY <5>1, RemovedIs
        <5>3. QED BY <5>2, ShiftedIs
      <4>2. s.t.slots[i].sets = FrameCount BY <1>4, <2>1, <2>5 DEF N
      <4>3. c - 1 \in Nat /\ (c - 1) + 1 = c BY <1>1, <2>1, <2>5
      <4>4. FrameCount * c = FrameCount * (c - 1) + FrameCount /\ FrameCount * (c - 1) \in Nat
        BY <1>1, <4>3, Products
      <4>5. s.sets + FrameCount * c = FrameCount * N BY <2>2
      <4> HIDE DEF c
      <4>6. \A a, b \in Nat : s.sets + (a + FrameCount) = b => (s.sets + FrameCount) + a = b
        BY <1>1, <2>5
      <4>7. FrameCount * N \in Nat BY <1>1, Products
      <4>8. QED BY <4>1, <4>2, <4>4, <4>5, <4>6, <4>7
    <3>2. CASE ~Stale(s.t.slots[i], now)
      <4>1. Sweep[i] = s BY <2>3, <3>2 DEF SweepStep
      <4>2. QED BY <2>2, <4>1
    <3>3. QED BY <3>1, <3>2
  <2>7. QED BY <2>1, <2>4, <2>6 DEF i
<1>7. N \in Good
  <2> HIDE DEF Good
  <2>1. \A n \in 0 .. N : n \in Good BY <1>1, <1>5, <1>6, UpTo
  <2>2. QED BY <1>1, <2>1
<1>8. N - N = 0 BY <1>1
<1>9. Sum(r) BY <1>3, <1>7, <1>8
<1>10. Reclaims(r, t, now, before) BY ReclaimedTable
<1> HIDE DEF r
<1>11. \A j \in 0 .. r.t.count - 1 : r.t.slots[j].sets = FrameCount
  BY <1>4, <1>10 DEF Reclaims
<1>12. (free + r.sets) + FrameCount * r.t.count = PoolSets
  <2>1. r.t \in Table /\ r.sets \in Nat BY <1>10 DEF Reclaims
  <2>2. r.t.count \in Nat BY <2>1, SizesAssumption DEF Table
  <2>3. FrameCount * r.t.count \in Nat /\ FrameCount * N \in Nat BY <1>1, <2>2, Products
  <2>4. free + FrameCount * N = PoolSets BY DEF SetsOf
  <2>5. \A a, b \in Nat : r.sets + a = b /\ free + b = PoolSets => (free + r.sets) + a = PoolSets
    BY <2>1, SizesAssumption
  <2>6. QED BY <1>9, <2>3, <2>4, <2>5
<1>13. QED BY <1>11, <1>12 DEF SetsOf, r

LEMMA SetsKept ==
  ASSUME SetsInv, UNCHANGED store, at' # "exited" => at # "exited" PROVE SetsInv'
BY DEF SetsInv, store

LEMMA SetsStep ==
  ASSUME Room, IInv, SetsInv, [Next]_vars PROVE SetsInv'
<1>0. /\ "instance" \in Kinds /\ TablesOk(table, frame_counter) /\ live = ObjectsIn(table)
      /\ freeSets \in Nat
  BY DEF Kinds, IInv, StoreInv, TypeOK
<1>1. CASE Main
  BY <1>1, SetsKept DEF Main, PushModel, PushDone, Destroy
<1>2. CASE Closing
  BY <1>2, SetsKept DEF Closing, Joined, GameDestroyed
<1>3. ASSUME NEW m \in Models, DrawModel(m) PROVE SetsInv'
  <2>1. Info(m, "instance") = m[1] BY DEF Info
  <2>2. m[1] \in InfosOf("instance") BY <2>1 DEF InfosOf
  <2>3. /\ table'["instance"] = CreateOrGet("instance", m[1])
        /\ freeSets' = IF Creates("instance", m[1])
                       THEN freeSets - SetsFor("instance", m[1]) ELSE freeSets
        /\ at = "pop"
    BY <1>0, <1>3, <2>1 DEF DrawModel, Popped
  <2>4. SetsOf(table["instance"], freeSets) BY <2>3 DEF SetsInv
  <2>5. SetsOf(table'["instance"], freeSets') BY <1>0, <2>2, <2>3, <2>4, DrawnSets
  <2>6. QED BY <2>5 DEF SetsInv
<1>4. CASE FrameDone BY <1>4, SetsKept DEF FrameDone, Popped
<1>5. CASE StopPopped BY <1>5, SetsKept DEF StopPopped, Popped
<1>6. CASE FrameEnd
  <2> DEFINE t == table["instance"]
             r == Reclaimed(t, frame_counter, live)
  <2>1. /\ table'["instance"] = r.t /\ freeSets' = freeSets + r.sets /\ at = "fence"
    BY <1>0, <1>6 DEF FrameEnd, DestroyStaleData
  <2>2. SetsOf(t, freeSets) BY <2>1 DEF SetsInv
  <2>3. t \in Table /\ UniqueInfos(t) BY <1>0 DEF TablesOk
  <2>4. Named(t) BY <1>0 DEF TablesOk, SlotOk, Named
  <2>5. \A l \in 0 .. t.count - 1 : t.slots[l].object \in live
    BY <1>0, <2>3, SlotTyped DEF ObjectsIn, HasObject
  <2> HIDE DEF t
  <2>6. SetsOf(r.t, freeSets + r.sets) BY <1>0, <2>2, <2>3, <2>4, <2>5, ReclaimedSets
  <2>7. QED BY <2>1, <2>6 DEF SetsInv
<1>7. CASE Exit BY <1>7 DEF Exit, SetsInv
<1>8. CASE Complete
  BY <1>8, SetsKept DEF Complete
<1>9. CASE Finished \/ UNCHANGED vars BY <1>9, SetsKept DEF Finished, vars
<1>10. QED
  BY <1>1, <1>2, <1>3, <1>4, <1>5, <1>6, <1>7, <1>8, <1>9 DEF Next, RenderThread

LEMMA InitSets == ASSUME Init PROVE SetsInv
<1>1. table["instance"].count = 0 /\ freeSets = PoolSets BY DEF Init, Kinds
<1>2. PoolSets \in Nat /\ FrameCount \in Nat BY SizesAssumption, FramesAssumption
<1>3. FrameCount * 0 = 0 BY <1>2
<1>4. QED BY <1>1, <1>2, <1>3 DEF SetsInv, SetsOf

LEMMA FitsWith ==
  ASSUME Room, IInv, SetsInv PROVE EveryDrawFits
<1> SUFFICES ASSUME at = "pop", NEW m \in Models PROVE Fits(m) /\ HasDescriptor(m)
  BY DEF EveryDrawFits
<1>1. /\ TablesOk(table, frame_counter) /\ freeSets \in Nat /\ frame_counter \in Nat
  BY DEF IInv, StoreInv, TypeOK
<1>2. Fits(m) BY <1>1, EveryFits
<1>3. Info(m, "instance") = m[1] /\ "instance" \in Kinds BY DEF Info, Kinds
<1>4. m[1] \in InfosOf("instance") BY <1>3 DEF InfosOf
<1>5. SetsFor("instance", m[1]) = FrameCount BY <1>1, <1>4, DrawnSets DEF SetsInv
<1>6. FrameCount > frame_counter % FrameCount BY <1>1, FramesAssumption
<1>7. QED BY <1>2, <1>5, <1>6 DEF HasDescriptor

(* If main draws every mesh and shader in every frame, and there are no    *)
(* more infos of a kind than slots and no more entities than the pool has  *)
(* sets for, then the assertions of render.c hold and every draw has its   *)
(* descriptor.                                                             *)
THEOREM DrawsFit == ASSUME DrawsAll, Room PROVE Spec => []EveryDrawFits
<1>1. Init => IInv /\ SetsInv BY InitIInv, InitSets
<1>2. IInv /\ SetsInv /\ [Next]_vars => IInv' /\ SetsInv' BY Inductive, SetsStep
<1>3. IInv /\ SetsInv => EveryDrawFits BY FitsWith
<1>4. QED BY <1>1, <1>2, <1>3, PTL DEF Spec
=============================================================================
