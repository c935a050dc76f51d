------------------------------ MODULE HeapProofs ------------------------------
(***************************************************************************)
(* Proofs about Heap, for any number of lists, any requests, alignments    *)
(* and arenas: after every call the allocator's own checks pass, what      *)
(* callers hold is theirs alone, and a new arena meets every request.      *)
(*                                                                         *)
(* First the arithmetic of the two indices, then the blocks as they lie in *)
(* memory, then the free lists, and last the calls.                        *)
(***************************************************************************)
EXTENDS Heap, FiniteSetTheorems, SequenceTheorems, NaturalsInduction, WellFoundedInduction, TLAPS

-----------------------------------------------------------------------------
(* Numbers *)

LEMMA HasSmallest ==
  ASSUME NEW S \in SUBSET Nat, S # {}
  PROVE  \E i \in S : \A j \in S : i <= j
<1> DEFINE Below == {pair \in Nat \X Nat : pair[1] < pair[2]}
<1>1. Below = OpToRel(<, Nat) BY DEF OpToRel
<1>2. IsWellFoundedOn(Below, Nat) BY <1>1, NatLessThanWellFounded
<1>3. PICK i \in S : \A j \in S : ~ (<<j, i>> \in Below)
  <2> HIDE DEF Below
  <2> QED BY <1>2, WFMin
<1>4. ASSUME NEW j \in S PROVE i <= j
  <2>1. j \in Nat /\ i \in Nat OBVIOUS
  <2>2. <<j, i>> \in Nat \X Nat BY <2>1
  <2>3. ~ (j < i) BY <1>3, <2>2
  <2> QED BY <2>1, <2>3
<1>5. QED BY <1>4

LEMMA UpTo ==
  ASSUME NEW N \in Nat, NEW S, 0 \in S,
         \A n \in 0 .. N - 1 : n \in S => n + 1 \in S
  PROVE  \A n \in 0 .. N : n \in S
<1> SUFFICES ASSUME NEW m \in 0 .. N, m \notin S PROVE FALSE OBVIOUS
<1> DEFINE Missing == {n \in 0 .. N : n \notin S}
<1>1. Missing \in SUBSET Nat /\ Missing # {} OBVIOUS
<1>2. PICK k \in Missing : \A j \in Missing : k <= j BY <1>1, HasSmallest
<1>3. k \in 0 .. N /\ k \notin S /\ k # 0 BY <1>2
<1>4. k - 1 \in 0 .. N - 1 BY <1>3
<1>5. k - 1 \notin S BY <1>3, <1>4
<1>6. k - 1 \in Missing BY <1>4, <1>5
<1>7. QED BY <1>2, <1>3, <1>6

LEMMA Everywhere ==
  ASSUME NEW S, 0 \in S, \A n \in Nat : n \in S => n + 1 \in S
  PROVE  \A n \in Nat : n \in S
<1> TAKE N \in Nat
<1>1. \A n \in 0 .. N : n \in S BY UpTo
<1>2. QED BY <1>1

(* A function of the powers of two up to n.                                *)
Doubles(g, n) == /\ g \in [0 .. n -> Nat \ {0}] /\ g[0] = 1
                 /\ \A i \in 1 .. n : g[i] = 2 * g[i - 1]

LEMMA DoublesAgree ==
  ASSUME NEW m \in Nat, NEW n \in Nat, m <= n, NEW g, NEW h, Doubles(g, m), Doubles(h, n)
  PROVE  \A i \in 0 .. m : g[i] = h[i]
<1> DEFINE Same == {i \in 0 .. m : g[i] = h[i]}
<1>1. 0 \in Same BY DEF Doubles
<1>2. ASSUME NEW i \in 0 .. m - 1, i \in Same PROVE i + 1 \in Same
  <2>1. i + 1 \in 1 .. m /\ i + 1 \in 1 .. n /\ i + 1 \in 0 .. m OBVIOUS
  <2>2. i + 1 - 1 = i OBVIOUS
  <2>3. QED BY <1>2, <2>1, <2>2 DEF Doubles
<1> HIDE DEF Same
<1>3. \A i \in 0 .. m : i \in Same BY <1>1, <1>2, UpTo
<1>4. QED BY <1>3 DEF Same

LEMMA DoublesExist == \A n \in Nat : \E g : Doubles(g, n)
<1> DEFINE Done == {n \in Nat : \E g : Doubles(g, n)}
<1>1. 0 \in Done
  <2>1. Doubles([i \in 0 .. 0 |-> 1], 0) BY DEF Doubles
  <2>2. QED BY <2>1
<1>2. ASSUME NEW n \in Nat, n \in Done PROVE n + 1 \in Done
  <2>1. PICK g : Doubles(g, n) BY <1>2
  <2> DEFINE h == [i \in 0 .. n + 1 |-> IF i = n + 1 THEN 2 * g[n] ELSE g[i]]
  <2>2. g[n] \in Nat \ {0} BY <2>1 DEF Doubles
  <2>3. 2 * g[n] \in Nat \ {0} BY <2>2
  <2>4. h \in [0 .. n + 1 -> Nat \ {0}] BY <2>1, <2>3 DEF Doubles
  <2>5. h[0] = 1 BY <2>1 DEF Doubles
  <2>6. ASSUME NEW i \in 1 .. n + 1 PROVE h[i] = 2 * h[i - 1]
    <3>1. CASE i = n + 1 BY <3>1
    <3>2. CASE i \in 1 .. n
      <4>1. h[i] = g[i] /\ h[i - 1] = g[i - 1] BY <3>2
      <4>2. QED BY <2>1, <3>2, <4>1 DEF Doubles
    <3>3. QED BY <3>1, <3>2
  <2>7. Doubles(h, n + 1) BY <2>4, <2>5, <2>6 DEF Doubles
  <2>8. QED BY <2>7
<1> HIDE DEF Done
<1>3. \A n \in Nat : n \in Done BY <1>1, <1>2, Everywhere
<1>4. QED BY <1>3 DEF Done

LEMMA Powers ==
  /\ Pow2 \in [Nat -> Nat \ {0}] /\ Pow2[0] = 1
  /\ \A n \in Nat : Pow2[n + 1] = 2 * Pow2[n]
<1> DEFINE G(n) == CHOOSE g : Doubles(g, n)
           f    == [n \in Nat |-> G(n)[n]]
           Eq(p) == p = [n \in Nat |-> IF n = 0 THEN 1 ELSE 2 * p[n - 1]]
<1>1. ASSUME NEW n \in Nat PROVE Doubles(G(n), n) BY DoublesExist
<1> HIDE DEF G
<1>2. f \in [Nat -> Nat \ {0}] /\ f[0] = 1
  <2>1. \A n \in Nat : G(n)[n] \in Nat \ {0} BY <1>1 DEF Doubles
  <2>2. G(0)[0] = 1 BY <1>1 DEF Doubles
  <2>3. QED BY <2>1, <2>2
<1>3. ASSUME NEW n \in Nat \ {0} PROVE f[n] = 2 * f[n - 1]
  <2>1. n - 1 \in Nat /\ n - 1 <= n /\ n - 1 \in 0 .. n - 1 /\ n \in 1 .. n OBVIOUS
  <2>2. G(n)[n] = 2 * G(n)[n - 1] BY <1>1, <2>1 DEF Doubles
  <2>3. G(n - 1)[n - 1] = G(n)[n - 1] BY <1>1, <2>1, DoublesAgree
  <2>4. QED BY <2>1, <2>2, <2>3
<1>4. Eq(f)
  <2>1. \A n \in Nat : f[n] = IF n = 0 THEN 1 ELSE 2 * f[n - 1] BY <1>2, <1>3
  <2> HIDE DEF f
  <2>2. f = [n \in Nat |-> f[n]] BY <1>2
  <2>3. QED BY <2>1, <2>2
<1>5. Eq(Pow2)
  <2>1. Pow2 = CHOOSE p : Eq(p) BY DEF Pow2
  <2> HIDE DEF Eq, f
  <2>2. QED BY <1>4, <2>1
<1>6. \A n \in Nat : Pow2[n] = IF n = 0 THEN 1 ELSE 2 * Pow2[n - 1] BY <1>5
<1> DEFINE Right == {n \in Nat : Pow2[n] \in Nat \ {0}}
<1>7. \A n \in Nat : n \in Right
  <2>1. 0 \in Right BY <1>6
  <2>2. ASSUME NEW n \in Nat, n \in Right PROVE n + 1 \in Right
    <3>1. Pow2[n + 1] = 2 * Pow2[n] BY <1>6
    <3>2. QED BY <2>2, <3>1
  <2> HIDE DEF Right
  <2>3. QED BY <2>1, <2>2, Everywhere
<1>8. Pow2 \in [Nat -> Nat \ {0}]
  <2>1. DOMAIN Pow2 = Nat BY <1>5
  <2>2. Pow2 = [n \in Nat |-> Pow2[n]] BY <1>5
  <2>3. QED BY <1>7, <2>2
<1>9. \A n \in Nat : Pow2[n + 1] = 2 * Pow2[n]
  <2> TAKE n \in Nat
  <2>1. n + 1 \in Nat /\ n + 1 # 0 /\ n + 1 - 1 = n OBVIOUS
  <2>2. QED BY <1>6, <2>1
<1>10. QED BY <1>6, <1>8, <1>9

LEMMA Power == \A n \in Nat : Pow2[n] \in Nat /\ Pow2[n] >= 1 /\ Pow2[n + 1] = 2 * Pow2[n]
BY Powers

LEMMA Growing == \A m, n \in Nat : m < n => Pow2[m] < Pow2[n]
<1> TAKE m \in Nat
<1> DEFINE Larger == {k \in Nat : Pow2[m] < Pow2[m + k + 1]}
<1>1. 0 \in Larger
  <2>1. m + 0 + 1 = m + 1 OBVIOUS
  <2>2. QED BY <2>1, Power
<1>2. ASSUME NEW k \in Nat, k \in Larger PROVE k + 1 \in Larger
  <2>1. m + (k + 1) + 1 = (m + k + 1) + 1 /\ m + k + 1 \in Nat OBVIOUS
  <2>2. QED BY <1>2, <2>1, Power
<1> HIDE DEF Larger
<1>3. \A k \in Nat : k \in Larger BY <1>1, <1>2, Everywhere
<1> TAKE n \in Nat
<1>4. ASSUME m < n PROVE Pow2[m] < Pow2[n]
  <2>1. n - m - 1 \in Nat /\ m + (n - m - 1) + 1 = n BY <1>4
  <2>2. n - m - 1 \in Larger BY <1>3, <2>1
  <2>3. QED BY <2>1, <2>2 DEF Larger
<1>5. QED BY <1>4

LEMMA NotShrinking == \A m, n \in Nat : m <= n => Pow2[m] <= Pow2[n]
<1> TAKE m, n \in Nat
<1>1. CASE m < n BY <1>1, Growing, Power
<1>2. CASE ~(m < n) BY <1>2, Power
<1>3. QED BY <1>1, <1>2

LEMMA Sums == \A m, n \in Nat : Pow2[m + n] = Pow2[m] * Pow2[n]
<1> TAKE m \in Nat
<1> DEFINE Right == {n \in Nat : Pow2[m + n] = Pow2[m] * Pow2[n]}
<1>1. 0 \in Right
  <2>1. m + 0 = m OBVIOUS
  <2>2. QED BY <2>1, Powers, Power
<1>2. ASSUME NEW n \in Nat, n \in Right PROVE n + 1 \in Right
  <2> DEFINE a == Pow2[m]
             b == Pow2[n]
  <2>1. Pow2[m + n + 1] = 2 * Pow2[m + n] /\ Pow2[n + 1] = 2 * b BY Power
  <2>2. a \in Nat /\ b \in Nat BY Power
  <2> HIDE DEF a, b
  <2>3. 2 * (a * b) = a * (2 * b) BY <2>2
  <2>4. m + (n + 1) = m + n + 1 OBVIOUS
  <2>5. Pow2[m + n] = a * b BY <1>2 DEF a, b
  <2>6. Pow2[m + (n + 1)] = Pow2[m] * Pow2[n + 1] BY <2>1, <2>3, <2>4, <2>5 DEF a
  <2>7. QED BY <2>6
<1> HIDE DEF Right
<1>3. \A n \in Nat : n \in Right BY <1>1, <1>2, Everywhere
<1>4. QED BY <1>3 DEF Right

LEMMA PowerAbove == \A n \in Nat : n < Pow2[n]
<1> DEFINE Right == {n \in Nat : n < Pow2[n]}
<1>1. 0 \in Right BY Powers
<1>2. ASSUME NEW n \in Nat, n \in Right PROVE n + 1 \in Right BY <1>2, Power
<1> HIDE DEF Right
<1>3. \A n \in Nat : n \in Right BY <1>1, <1>2, Everywhere
<1>4. QED BY <1>3 DEF Right

LEMMA Quotients ==
  ASSUME NEW a \in Nat \ {0}, NEW x \in Nat
  PROVE  \E q \in Nat, r \in 0 .. a - 1 : x = q * a + r /\ x \div a = q /\ x % a = r
<1> DEFINE Split == {n \in Nat : \E q \in Nat, r \in 0 .. a - 1 : n = q * a + r}
<1>1. 0 \in Split
  <2>1. 0 = 0 * a + 0 /\ 0 \in 0 .. a - 1 OBVIOUS
  <2>2. QED BY <2>1
<1>2. ASSUME NEW n \in Nat, n \in Split PROVE n + 1 \in Split
  <2>1. PICK q \in Nat, r \in 0 .. a - 1 : n = q * a + r BY <1>2
  <2>2. CASE r < a - 1
    <3>1. r + 1 \in 0 .. a - 1 /\ n + 1 = q * a + (r + 1) BY <2>1, <2>2
    <3>2. QED BY <3>1
  <2>3. CASE ~(r < a - 1)
    <3>1. r = a - 1 BY <2>3
    <3>2. (q + 1) * a = q * a + a OBVIOUS
    <3>3. n + 1 = (q + 1) * a + 0 /\ 0 \in 0 .. a - 1 /\ q + 1 \in Nat BY <2>1, <3>1, <3>2
    <3>4. \E i \in Nat, j \in 0 .. a - 1 : n + 1 = i * a + j
      <4> WITNESS q + 1 \in Nat, 0 \in 0 .. a - 1
      <4> QED BY <3>3
    <3>5. QED BY <3>4
  <2>4. QED BY <2>2, <2>3
<1> HIDE DEF Split
<1>3. \A n \in Nat : n \in Split BY <1>1, <1>2, Everywhere
<1>4. PICK q \in Nat, r \in 0 .. a - 1 : x = q * a + r BY <1>3 DEF Split
<1>5. (q * a + r) \div a = q OBVIOUS
<1>6. (q * a + r) % a = r OBVIOUS
<1>7. QED BY <1>4, <1>5, <1>6

LEMMA Products ==
  ASSUME NEW f \in Nat, NEW a \in Nat
  PROVE  /\ a * f \in Nat /\ (a + 1) * f = a * f + f
         /\ \A b \in Nat : a <= b => a * f <= b * f
<1>1. a * f \in Nat /\ (a + 1) * f = a * f + f OBVIOUS
<1>2. ASSUME NEW b \in Nat, a <= b PROVE a * f <= b * f
  <2> DEFINE e == b - a
  <2>1. e \in Nat /\ b = a + e BY <1>2
  <2> HIDE DEF e
  <2>2. (a + e) * f = a * f + e * f /\ e * f \in Nat BY <2>1
  <2>3. QED BY <1>1, <2>1, <2>2
<1>3. QED BY <1>1, <1>2

(* Division keeps the order.                                               *)
LEMMA Division ==
  ASSUME NEW a \in Nat \ {0}, NEW x \in Nat, NEW y \in Nat
  PROVE  /\ x \div a \in Nat /\ (x \div a) * a <= x /\ x < (x \div a) * a + a
         /\ x <= y => x \div a <= y \div a
         /\ (x + a) \div a = x \div a + 1
<1>1. PICK q \in Nat, r \in 0 .. a - 1 : x = q * a + r /\ x \div a = q BY Quotients
<1>2. PICK p \in Nat, s \in 0 .. a - 1 : y = p * a + s /\ y \div a = p BY Quotients
<1>3. q * a \in Nat /\ p * a \in Nat BY Products
<1>4. ASSUME x <= y PROVE q <= p
  <2> SUFFICES ASSUME p + 1 <= q PROVE FALSE OBVIOUS
  <2>1. (p + 1) * a <= q * a BY Products
  <2>2. (p + 1) * a = p * a + a BY Products
  <2>3. QED BY <1>1, <1>2, <1>3, <1>4, <2>1, <2>2
<1>5. (x + a) \div a = q + 1
  <2>1. (q + 1) * a = q * a + a BY Products
  <2>2. x + a = (q + 1) * a + r BY <1>1, <1>3, <2>1
  <2>3. ((q + 1) * a + r) \div a = q + 1 OBVIOUS
  <2>4. QED BY <2>2, <2>3
<1>6. QED BY <1>1, <1>2, <1>3, <1>4, <1>5

-----------------------------------------------------------------------------
(* The two indices of a size. *)

LEMMA Indexes ==
  /\ SL_INDEX_COUNT_LOG2 \in Nat /\ FL_INDEX_MAX \in Nat
  /\ SL_INDEX_COUNT_LOG2 <= FL_INDEX_MAX
  /\ SL_INDEX_COUNT \in Nat /\ SL_INDEX_COUNT >= 1 /\ SL_INDEX_COUNT = Pow2[SL_INDEX_COUNT_LOG2]
  /\ SMALL_BLOCK_SIZE = SL_INDEX_COUNT
  /\ FL_INDEX_COUNT = FL_INDEX_MAX - SL_INDEX_COUNT_LOG2 + 1
  /\ FL_INDEX_COUNT \in Nat /\ FL_INDEX_COUNT >= 1
  /\ block_size_max = Pow2[FL_INDEX_MAX] /\ block_size_max \in Nat
  /\ SL_INDEX_COUNT <= block_size_max
<1>1. Pow2[SL_INDEX_COUNT_LOG2] <= Pow2[FL_INDEX_MAX] BY IndexAssumption, NotShrinking
<1>2. QED BY <1>1, IndexAssumption, Power
         DEF SL_INDEX_COUNT, SMALL_BLOCK_SIZE, FL_INDEX_COUNT, block_size_max

LEMMA HighestBit ==
  ASSUME NEW x \in Nat \ {0}
  PROVE  fls(x) \in Nat /\ Pow2[fls(x)] <= x /\ x < Pow2[fls(x) + 1]
<1> DEFINE Over == {n \in Nat : x < Pow2[n]}
<1>1. x \in Over BY PowerAbove
<1>2. PICK n \in Over : \A m \in Over : n <= m BY <1>1, HasSmallest
<1>3. n \in Nat /\ x < Pow2[n] /\ n <= x BY <1>1, <1>2
<1>4. n # 0 BY <1>3, Powers
<1>5. n - 1 \in Nat /\ n - 1 \in 0 .. x /\ (n - 1) + 1 = n BY <1>3, <1>4
<1>6. n - 1 \notin Over BY <1>2, <1>5
<1>7. Pow2[n - 1] <= x BY <1>5, <1>6, Power
<1>8. \E bit \in 0 .. x : Pow2[bit] <= x /\ x < Pow2[bit + 1] BY <1>3, <1>5, <1>7
<1>9. QED BY <1>8 DEF fls

LEMMA BitBounds ==
  ASSUME NEW x \in Nat \ {0}, NEW n \in Nat
  PROVE  /\ Pow2[n] <= x => n <= fls(x)
         /\ x < Pow2[n] => fls(x) < n
<1>1. fls(x) \in Nat /\ Pow2[fls(x)] <= x /\ x < Pow2[fls(x) + 1] BY HighestBit
<1>2. ASSUME Pow2[n] <= x, fls(x) + 1 <= n PROVE FALSE
  <2>1. Pow2[fls(x) + 1] <= Pow2[n] BY <1>1, <1>2, NotShrinking
  <2>2. QED BY <1>1, <1>2, <2>1, Power
<1>3. ASSUME x < Pow2[n], n <= fls(x) PROVE FALSE
  <2>1. Pow2[n] <= Pow2[fls(x)] BY <1>1, <1>3, NotShrinking
  <2>2. QED BY <1>1, <1>3, <2>1, Power
<1>4. QED BY <1>1, <1>2, <1>3

(* A size that is not small: the width of its lists, and where it lies.    *)
Width(x) == Pow2[fls(x) - SL_INDEX_COUNT_LOG2]

LEMMA NotSmall ==
  ASSUME NEW x \in Nat, ~(x < SMALL_BLOCK_SIZE)
  PROVE  /\ x \in Nat \ {0} /\ fls(x) \in Nat /\ SL_INDEX_COUNT_LOG2 <= fls(x)
         /\ Width(x) \in Nat \ {0}
         /\ x \div Width(x) \in SL_INDEX_COUNT .. 2 * SL_INDEX_COUNT - 1
         /\ mapping_insert(x) = [fl |-> fls(x) - SL_INDEX_COUNT_LOG2 + 1,
                                 sl |-> x \div Width(x) - SL_INDEX_COUNT]
<1> DEFINE L == SL_INDEX_COUNT_LOG2
           S == SL_INDEX_COUNT
           f == fls(x)
           d == Width(x)
           q == x \div d
<1>1. L \in Nat /\ S \in Nat /\ S >= 1 /\ S = Pow2[L] /\ x >= S BY Indexes
<1>2. f \in Nat /\ Pow2[f] <= x /\ x < Pow2[f + 1] /\ L <= f BY <1>1, HighestBit, BitBounds
<1>3. f - L \in Nat /\ f = L + (f - L) BY <1>1, <1>2
<1>4. d = Pow2[f - L] /\ d \in Nat \ {0} BY <1>3, Power DEF Width
<1>5. Pow2[f] = S * d
  <2>1. Pow2[L + (f - L)] = Pow2[L] * Pow2[f - L] BY <1>1, <1>3, Sums
  <2>2. QED BY <1>1, <1>3, <1>4, <2>1
<1>6. Pow2[f + 1] = 2 * Pow2[f] BY <1>2, Power
<1>7. x \in Nat \ {0} BY <1>1
<1>8. mapping_insert(x) = [fl |-> f - L + 1, sl |-> q - S] BY DEF mapping_insert, Width
<1>9. q \in Nat /\ q * d <= x /\ x < q * d + d BY <1>4, Division
<1> HIDE DEF L, S, f, d, q
<1>10. S <= q
  <2> SUFFICES ASSUME q + 1 <= S PROVE FALSE BY <1>1, <1>9
  <2>1. (q + 1) * d <= S * d BY <1>1, <1>4, <1>9, Products
  <2>2. (q + 1) * d = q * d + d BY <1>4, <1>9, Products
  <2>3. q * d \in Nat /\ S * d \in Nat BY <1>1, <1>4, <1>9, Products
  <2>4. QED BY <1>2, <1>4, <1>5, <1>9, <2>1, <2>2, <2>3
<1>11. q < 2 * S
  <2> SUFFICES ASSUME 2 * S <= q PROVE FALSE BY <1>1, <1>9
  <2>1. (2 * S) * d <= q * d BY <1>1, <1>4, <1>9, Products
  <2>2. (2 * S) * d = 2 * (S * d) BY <1>1, <1>4
  <2>3. q * d \in Nat /\ S * d \in Nat BY <1>1, <1>4, <1>9, Products
  <2>4. QED BY <1>2, <1>5, <1>6, <1>9, <2>1, <2>2, <2>3
<1>12. q \in S .. 2 * S - 1 BY <1>1, <1>9, <1>10, <1>11
<1>13. QED BY <1>2, <1>4, <1>7, <1>8, <1>12 DEF L, S, f, d, q

FLs == 0 .. FL_INDEX_COUNT - 1
SLs == 0 .. SL_INDEX_COUNT - 1

(* Where a list stands in the order in which they are searched.            *)
NoLater(m, n) == m.fl < n.fl \/ (m.fl = n.fl /\ m.sl <= n.sl)

LEMMA InsertIndex ==
  ASSUME NEW x \in Nat
  PROVE  /\ mapping_insert(x).fl \in Nat /\ mapping_insert(x).sl \in SLs
         /\ mapping_insert(x) = [fl |-> mapping_insert(x).fl, sl |-> mapping_insert(x).sl]
         /\ x < block_size_max => mapping_insert(x).fl \in FLs
<1>1. CASE x < SMALL_BLOCK_SIZE
  <2>1. mapping_insert(x) = [fl |-> 0, sl |-> x] BY <1>1 DEF mapping_insert
  <2>2. QED BY <1>1, <2>1, Indexes DEF FLs, SLs
<1>2. CASE ~(x < SMALL_BLOCK_SIZE)
  <2> DEFINE q == x \div Width(x)
             f == fls(x)
  <2>1. /\ x \in Nat \ {0} /\ f \in Nat /\ SL_INDEX_COUNT_LOG2 <= f
        /\ q \in SL_INDEX_COUNT .. 2 * SL_INDEX_COUNT - 1
        /\ mapping_insert(x) = [fl |-> f - SL_INDEX_COUNT_LOG2 + 1, sl |-> q - SL_INDEX_COUNT]
    BY <1>2, NotSmall
  <2>2. x < block_size_max => f < FL_INDEX_MAX BY <2>1, BitBounds, Indexes
  <2> HIDE DEF q, f
  <2>3. QED BY <2>1, <2>2, Indexes DEF FLs, SLs
<1>3. QED BY <1>1, <1>2

(* A larger size is in no earlier list.                                    *)
LEMMA InsertOrder ==
  ASSUME NEW x \in Nat, NEW y \in Nat, x <= y
  PROVE  NoLater(mapping_insert(x), mapping_insert(y))
<1>0. SMALL_BLOCK_SIZE \in Nat /\ SL_INDEX_COUNT \in Nat /\ SL_INDEX_COUNT_LOG2 \in Nat BY Indexes
<1>1. CASE y < SMALL_BLOCK_SIZE
  <2>1. x < SMALL_BLOCK_SIZE BY <1>0, <1>1
  <2>2. mapping_insert(x) = [fl |-> 0, sl |-> x] /\ mapping_insert(y) = [fl |-> 0, sl |-> y]
    BY <1>1, <2>1 DEF mapping_insert
  <2>3. QED BY <2>2 DEF NoLater
<1>2. CASE x < SMALL_BLOCK_SIZE /\ ~(y < SMALL_BLOCK_SIZE)
  <2>1. mapping_insert(x) = [fl |-> 0, sl |-> x] BY <1>2 DEF mapping_insert
  <2>2. mapping_insert(y).fl = fls(y) - SL_INDEX_COUNT_LOG2 + 1 /\ fls(y) \in Nat
        /\ SL_INDEX_COUNT_LOG2 <= fls(y)
    BY <1>2, NotSmall
  <2>3. QED BY <1>0, <2>1, <2>2 DEF NoLater
<1>3. CASE ~(x < SMALL_BLOCK_SIZE) /\ ~(y < SMALL_BLOCK_SIZE)
  <2> DEFINE f == fls(x)
             g == fls(y)
  <2>1. /\ f \in Nat /\ g \in Nat /\ x \in Nat \ {0} /\ y \in Nat \ {0}
        /\ Width(x) \in Nat \ {0} /\ Width(y) \in Nat \ {0}
        /\ x \div Width(x) \in Nat /\ y \div Width(y) \in Nat
        /\ mapping_insert(x).fl = f - SL_INDEX_COUNT_LOG2 + 1
        /\ mapping_insert(x).sl = x \div Width(x) - SL_INDEX_COUNT
        /\ mapping_insert(y).fl = g - SL_INDEX_COUNT_LOG2 + 1
        /\ mapping_insert(y).sl = y \div Width(y) - SL_INDEX_COUNT
    BY <1>0, <1>3, NotSmall
  <2>2. f <= g
    <3>1. Pow2[f] <= x BY <2>1, HighestBit
    <3>2. Pow2[f] <= y BY <2>1, <3>1, Power
    <3>3. QED BY <2>1, <3>2, BitBounds
  <2>3. f = g => Width(x) = Width(y) BY DEF Width
  <2>4. f = g => x \div Width(x) <= y \div Width(y) BY <2>1, <2>3, Division
  <2> HIDE DEF f, g
  <2>5. QED BY <1>0, <2>1, <2>2, <2>4 DEF NoLater
<1>4. QED BY <1>1, <1>2, <1>3, <1>0

(* The smallest size of the list from which the search for x starts.       *)
Rounded(x) == IF x < SMALL_BLOCK_SIZE THEN x ELSE x + Width(x) - 1

LEMMA SearchIndex == \A x : mapping_search(x) = mapping_insert(Rounded(x))
BY DEF mapping_search, Rounded, Width

LEMMA RoundedUp ==
  ASSUME NEW x \in Nat
  PROVE  Rounded(x) \in Nat /\ x <= Rounded(x)
<1>1. CASE x < SMALL_BLOCK_SIZE BY <1>1 DEF Rounded
<1>2. CASE ~(x < SMALL_BLOCK_SIZE) BY <1>2, NotSmall DEF Rounded
<1>3. QED BY <1>1, <1>2

(* No block in the lists searched is too small.                            *)
LEMMA SearchFinds ==
  ASSUME NEW x \in Nat, NEW y \in Nat, NoLater(mapping_search(x), mapping_insert(y))
  PROVE  x <= y
<1> SUFFICES ASSUME y < x PROVE FALSE OBVIOUS
<1> DEFINE r == Rounded(x)
<1>0. /\ SMALL_BLOCK_SIZE \in Nat /\ SL_INDEX_COUNT \in Nat /\ SL_INDEX_COUNT_LOG2 \in Nat
      /\ SMALL_BLOCK_SIZE = SL_INDEX_COUNT
  BY Indexes
<1>1. NoLater(mapping_insert(r), mapping_insert(y)) BY SearchIndex
<1>2. CASE x < SMALL_BLOCK_SIZE
  <2>1. r = x /\ y < SMALL_BLOCK_SIZE BY <1>0, <1>2 DEF Rounded
  <2>2. mapping_insert(r) = [fl |-> 0, sl |-> x] /\ mapping_insert(y) = [fl |-> 0, sl |-> y]
    BY <1>2, <2>1 DEF mapping_insert
  <2>3. QED BY <1>1, <2>2 DEF NoLater
<1>3. CASE ~(x < SMALL_BLOCK_SIZE)
  <2>1. r \in Nat /\ x <= r /\ r = x + Width(x) - 1 BY <1>3, RoundedUp DEF Rounded
  <2>2. ~(r < SMALL_BLOCK_SIZE) BY <1>0, <1>3, <2>1
  <2> HIDE DEF r
  <2>3. /\ fls(x) \in Nat /\ fls(r) \in Nat /\ x \in Nat \ {0} /\ r \in Nat \ {0}
        /\ SL_INDEX_COUNT_LOG2 <= fls(r)
        /\ Width(x) \in Nat \ {0} /\ Width(r) \in Nat \ {0}
        /\ mapping_insert(r).fl = fls(r) - SL_INDEX_COUNT_LOG2 + 1
        /\ mapping_insert(r).sl = r \div Width(r) - SL_INDEX_COUNT
    BY <1>3, <2>1, <2>2, NotSmall
  <2>4. CASE y < SMALL_BLOCK_SIZE
    <3>1. mapping_insert(y) = [fl |-> 0, sl |-> y] BY <2>4 DEF mapping_insert
    <3>2. QED BY <1>0, <1>1, <2>3, <3>1 DEF NoLater
  <2>5. CASE ~(y < SMALL_BLOCK_SIZE)
    <3>1. /\ fls(y) \in Nat /\ y \in Nat \ {0} /\ Width(y) \in Nat \ {0}
          /\ y \div Width(y) \in Nat
          /\ mapping_insert(y).fl = fls(y) - SL_INDEX_COUNT_LOG2 + 1
          /\ mapping_insert(y).sl = y \div Width(y) - SL_INDEX_COUNT
      BY <1>0, <2>5, NotSmall
    <3>2. fls(y) <= fls(x) /\ fls(x) <= fls(r)
      <4>1. Pow2[fls(y)] <= y /\ Pow2[fls(x)] <= x BY <2>3, <3>1, HighestBit
      <4>2. Pow2[fls(y)] <= x /\ Pow2[fls(x)] <= r BY <2>1, <2>3, <3>1, <4>1, Power
      <4>3. QED BY <2>3, <3>1, <4>2, BitBounds
    <3>3. fls(r) = fls(y) /\ r \div Width(r) <= y \div Width(y)
      <4> DEFINE p == r \div Width(r)
                 s == y \div Width(y)
      <4>1. p \in Nat /\ s \in Nat BY <2>3, <3>1, Division
      <4> HIDE DEF p, s
      <4>2. mapping_insert(r).sl = p - SL_INDEX_COUNT /\ mapping_insert(y).sl = s - SL_INDEX_COUNT
        BY <2>3, <3>1 DEF p, s
      <4>5. \/ fls(r) - SL_INDEX_COUNT_LOG2 + 1 < fls(y) - SL_INDEX_COUNT_LOG2 + 1
            \/ /\ fls(r) - SL_INDEX_COUNT_LOG2 + 1 = fls(y) - SL_INDEX_COUNT_LOG2 + 1
               /\ p - SL_INDEX_COUNT <= s - SL_INDEX_COUNT
        <5>1. mapping_insert(r).fl = fls(r) - SL_INDEX_COUNT_LOG2 + 1
              /\ mapping_insert(y).fl = fls(y) - SL_INDEX_COUNT_LOG2 + 1 BY <2>3, <3>1
        <5>2. QED BY <1>1, <4>2, <5>1 DEF NoLater
      <4>6. fls(x) \in Nat /\ fls(r) \in Nat /\ fls(y) \in Nat BY <2>3, <3>1
      <4>3. fls(r) = fls(y) /\ p <= s
        BY <1>0, <3>2, <4>1, <4>5, <4>6
      <4>4. QED BY <4>3 DEF p, s
    <3>4. fls(x) = fls(r) BY <2>3, <3>1, <3>2, <3>3
    <3>5. Width(x) = Width(r) /\ Width(y) = Width(r) BY <3>3, <3>4 DEF Width
    <3> DEFINE d == Width(r)
    <3>6. d \in Nat \ {0} /\ x - 1 \in Nat /\ y <= x - 1 /\ r = (x - 1) + d
      BY <2>1, <2>3, <3>5
    <3> HIDE DEF d
    <3>7. y \div d <= (x - 1) \div d /\ ((x - 1) + d) \div d = (x - 1) \div d + 1
          /\ (x - 1) \div d \in Nat /\ y \div d \in Nat
      BY <3>6, Division
    <3>8. r \div d <= y \div d BY <3>3, <3>5 DEF d
    <3>9. QED BY <3>6, <3>7, <3>8
  <2>6. QED BY <2>4, <2>5
<1>4. QED BY <1>2, <1>3

-----------------------------------------------------------------------------
(* Requests *)

LEMMA Largest ==
  ASSUME NEW a \in Int, NEW b \in Int
  PROVE  Max({a, b}) = IF a >= b THEN a ELSE b
<1>1. \E x \in {a, b} : \A y \in {a, b} : x >= y
  <2>1. CASE a >= b BY <2>1
  <2>2. CASE ~(a >= b) BY <2>2
  <2>3. QED BY <2>1, <2>2
<1>2. Max({a, b}) \in {a, b} /\ \A y \in {a, b} : Max({a, b}) >= y BY <1>1 DEF Max
<1>3. QED BY <1>2

LEMMA Smallest ==
  ASSUME NEW S \in SUBSET Nat, S # {}
  PROVE  Min(S) \in S /\ \A y \in S : Min(S) <= y
BY HasSmallest DEF Min

LEMMA Alignment ==
  ASSUME NEW x \in Nat, NEW a \in Nat \ {0}
  PROVE  /\ AlignUp(x, a) \in Nat /\ x <= AlignUp(x, a) /\ AlignUp(x, a) <= x + a - 1
         /\ AlignUp(x, a) % a = 0
         /\ x % a = 0 => AlignUp(x, a) = x
<1> DEFINE y == x + a - 1
           q == y \div a
<1>1. y \in Nat /\ AlignUp(x, a) = q * a BY DEF AlignUp
<1>2. q \in Nat /\ q * a <= y /\ y < q * a + a BY <1>1, Division
<1>3. q * a \in Nat BY <1>2, Products
<1>4. (q * a) % a = 0
  <2> HIDE DEF q
  <2>1. QED BY <1>2
<1>5. ASSUME x % a = 0 PROVE q * a = x
  <2>1. PICK p \in Nat, r \in 0 .. a - 1 : x = p * a + r /\ x % a = r BY Quotients
  <2>2. p * a \in Nat BY Products
  <2>3. x = p * a BY <1>5, <2>1, <2>2
  <2>4. (p * a + (a - 1)) \div a = p OBVIOUS
  <2>5. y = p * a + (a - 1) BY <2>2, <2>3
  <2>6. q = p BY <2>4, <2>5
  <2>7. QED BY <2>3, <2>6
<1> HIDE DEF q
<1>6. QED BY <1>1, <1>2, <1>3, <1>4, <1>5

LEMMA Adjusted ==
  ASSUME NEW size \in Nat, NEW a \in Nat \ {0}
  PROVE  /\ adjust_request_size(size, a) \in Nat
         /\ adjust_request_size(size, a) # 0 =>
              /\ adjust_request_size(size, a) >= 3 /\ size # 0
              /\ adjust_request_size(size, a) >= size
<1> DEFINE x == AlignUp(size, a)
<1>1. x \in Nat /\ size <= x BY Alignment
<1>2. adjust_request_size(size, a) = IF size = 0 \/ x >= block_size_max THEN 0 ELSE Max({x, 3})
  BY DEF adjust_request_size, block_size_min
<1> HIDE DEF x
<1>3. Max({x, 3}) = IF x >= 3 THEN x ELSE 3 BY <1>1, Largest
<1>4. QED BY <1>1, <1>2, <1>3

LEMMA GapBounds ==
  ASSUME NEW ptr \in Nat, NEW a \in Nat \ {0}
  PROVE  /\ Gap(ptr, a) \in Nat /\ Gap(ptr, a) <= a + 3
         /\ Gap(ptr, a) # 0 => Gap(ptr, a) >= 4
         /\ (ptr + Gap(ptr, a)) % a = 0
         /\ a = 1 => Gap(ptr, a) = 0
<1> DEFINE x    == AlignUp(ptr, a)
           gap  == x - ptr
           more == Max({4 - gap, a})
           next == x + more
           y    == AlignUp(next, a)
<1>1. x \in Nat /\ ptr <= x /\ x <= ptr + a - 1 /\ x % a = 0 BY Alignment
<1>2. gap \in Nat /\ gap <= a - 1 BY <1>1
<1>3. Gap(ptr, a) = IF gap # 0 /\ gap < 4 THEN y - ptr ELSE gap BY DEF Gap, header_size
<1>4. more = IF 4 - gap >= a THEN 4 - gap ELSE a
  <2> HIDE DEF gap
  <2>1. 4 - gap \in Int BY <1>2
  <2>2. QED BY <2>1, Largest
<1>5. CASE ~(gap # 0 /\ gap < 4)
  <2>1. Gap(ptr, a) = gap BY <1>3, <1>5
  <2>2. ptr + gap = x BY <1>1
  <2>3. QED BY <1>1, <1>2, <1>5, <2>1, <2>2
<1>6. CASE gap # 0 /\ gap < 4
  <2>1. Gap(ptr, a) = y - ptr BY <1>3, <1>6
  <2>2. next \in Nat /\ next >= ptr + 4
    <3> HIDE DEF x, more
    <3>1. more \in Nat /\ more >= 4 - gap BY <1>2, <1>4
    <3>2. QED BY <1>1, <3>1
  <2>3. y \in Nat /\ next <= y /\ y <= next + a - 1 /\ y % a = 0 /\ (next % a = 0 => y = next)
    <3> HIDE DEF next
    <3>1. QED BY <2>2, Alignment
  <2>4. y <= ptr + a + 3
    <3>1. CASE 4 - gap >= a
      <4> HIDE DEF x, more, y
      <4>1. next = x + 4 - gap BY <1>1, <1>2, <1>4, <3>1
      <4>2. QED BY <1>1, <1>2, <2>2, <2>3, <4>1
    <3>2. CASE ~(4 - gap >= a)
      <4> HIDE DEF x
      <4>1. more = a BY <1>4, <3>2
      <4>2. PICK p \in Nat, r \in 0 .. a - 1 : x = p * a + r /\ x % a = r
        <5>1. x \in Nat BY <1>1
        <5>2. QED BY <5>1, Quotients
      <4>3. p * a \in Nat /\ (p + 1) * a = p * a + a BY Products
      <4>4. x = p * a BY <1>1, <4>2, <4>3
      <4>5. next = (p + 1) * a BY <4>1, <4>3, <4>4
      <4>6. ((p + 1) * a) % a = 0 OBVIOUS
      <4>7. y = next BY <2>3, <4>5, <4>6
      <4> HIDE DEF more, y
      <4>8. QED BY <1>1, <1>2, <1>6, <4>1, <4>7
    <3>3. QED BY <3>1, <3>2
  <2>5. ptr + Gap(ptr, a) = y BY <2>1, <2>3
  <2> HIDE DEF y, next
  <2>6. QED BY <1>2, <1>6, <2>1, <2>2, <2>3, <2>4, <2>5
<1>7. QED BY <1>5, <1>6

-----------------------------------------------------------------------------
(* Blocks as they lie in memory.  H is the headers, and P the pools they   *)
(* lie in, each from its first header to its sentinel.                     *)

HeaderType == [size : Nat, free : BOOLEAN, prev_free : BOOLEAN, prev_phys : Int]
Headers(H) == /\ H \in [DOMAIN H -> HeaderType]
              /\ DOMAIN H \subseteq Nat /\ IsFiniteSet(DOMAIN H)

After(H, b) == b + H[b].size + 1

(* A block and the next know of each other, and of a block before it that  *)
(* is free.                                                                *)
Next2(H, b) == H[b].size # 0 => /\ H[b].size >= 3 /\ After(H, b) \in DOMAIN H
                                /\ H[After(H, b)].prev_free = H[b].free
                                /\ H[b].free => H[After(H, b)].prev_phys = b
Before(H, b) == H[b].prev_free => /\ H[b].prev_phys \in DOMAIN H
                                  /\ H[H[b].prev_phys].size # 0 /\ H[H[b].prev_phys].free
                                  /\ After(H, H[b].prev_phys) = b
Sized(H, b)  == H[b].free => H[b].size # 0

Within(H, p, b) == /\ p.first <= b /\ b <= p.last
                   /\ H[b].size # 0 => After(H, b) <= p.last

Apart(H) == \A b, c \in DOMAIN H : b < c /\ H[b].size # 0 => After(H, b) <= c

Pools(P) == /\ P \subseteq [first : Nat, last : Nat]
            /\ \A p \in P : p.last - p.first - 1 < block_size_max
            /\ \A p, q \in P, x \in Nat :
                 (p.first <= x /\ x <= p.last /\ q.first <= x /\ x <= q.last) => p = q

Chain(H, P) == /\ Headers(H) /\ Apart(H) /\ Pools(P)
               /\ \A b \in DOMAIN H : Next2(H, b) /\ Before(H, b) /\ Sized(H, b)
               /\ \A b \in DOMAIN H : \E p \in P : Within(H, p, b)

(* Two free blocks are neighbours only before one of X.                    *)
Coalesced(H, X) == \A b \in DOMAIN H : H[b].free /\ H[b].prev_free => b \in X

(* What callers have stays as it is, but for the block at b.               *)
Kept(H, G, b) == \A c \in DOMAIN H : c # b /\ ~H[c].free =>
                    c \in DOMAIN G /\ ~G[c].free /\ G[c].size = H[c].size

FreeOf(H) == {b \in DOMAIN H : H[b].free}

LEMMA Fields ==
  ASSUME NEW H, Headers(H), NEW b \in DOMAIN H
  PROVE  /\ H[b] \in HeaderType /\ b \in Nat /\ H[b].size \in Nat
         /\ H[b].free \in BOOLEAN /\ H[b].prev_free \in BOOLEAN /\ H[b].prev_phys \in Int
         /\ After(H, b) \in Nat /\ b < After(H, b)
BY DEF Headers, HeaderType, After

LEMMA OneBefore ==
  ASSUME NEW H, Headers(H), Apart(H), NEW b \in DOMAIN H, NEW c \in DOMAIN H,
         H[b].size # 0, H[c].size # 0, After(H, b) = After(H, c)
  PROVE  b = c
<1>1. b \in Nat /\ c \in Nat /\ b < After(H, b) /\ c < After(H, c) /\ After(H, b) \in Nat BY Fields
<1>2. ~(b < c)
  <2> SUFFICES ASSUME b < c PROVE FALSE OBVIOUS
  <2>1. After(H, b) <= c BY <1>1 DEF Apart
  <2>2. QED BY <1>1, <2>1
<1>3. ~(c < b)
  <2> SUFFICES ASSUME c < b PROVE FALSE OBVIOUS
  <2>1. After(H, c) <= b BY <1>1 DEF Apart
  <2>2. QED BY <1>1, <2>1
<1>4. QED BY <1>1, <1>2, <1>3

(* A free block of size bytes at b, and the rest of it at r, free too.     *)
Trimmed(H, G, b, r, n, size) ==
  /\ DOMAIN G = DOMAIN H \cup {r}
  /\ G[b] = [size |-> size, free |-> H[b].free, prev_free |-> H[b].prev_free,
             prev_phys |-> H[b].prev_phys]
  /\ G[r] = [size |-> H[b].size - size - 1, free |-> TRUE, prev_free |-> TRUE, prev_phys |-> b]
  /\ G[n] = [size |-> H[n].size, free |-> H[n].free, prev_free |-> TRUE, prev_phys |-> r]
  /\ \A c \in DOMAIN H \ {b, n} : G[c] = H[c]

LEMMA TrimPlaces ==
  ASSUME NEW H, NEW P, Chain(H, P), NEW b \in DOMAIN H, H[b].free,
         NEW size \in Nat, size >= 3, H[b].size >= size + 4
  PROVE  /\ b + size + 1 \in Nat /\ b + size + 1 \notin DOMAIN H
         /\ After(H, b) \in DOMAIN H /\ b < b + size + 1 /\ b + size + 1 < After(H, b)
         /\ H[b].size \in Nat /\ H[b].size # 0
<1>1. /\ b \in Nat /\ H[b].size \in Nat /\ H[b].size # 0 /\ After(H, b) = b + H[b].size + 1
      /\ After(H, b) \in DOMAIN H
  BY Fields DEF Chain, Next2, After
<1>2. ASSUME b + size + 1 \in DOMAIN H PROVE FALSE
  <2>1. b < b + size + 1 BY <1>1
  <2>2. After(H, b) <= b + size + 1 BY <1>1, <1>2, <2>1 DEF Chain, Apart
  <2>3. QED BY <1>1, <2>2
<1>3. QED BY <1>1, <1>2

LEMMA TrimChain ==
  ASSUME NEW H, NEW P, Chain(H, P), NEW b \in DOMAIN H, H[b].free,
         NEW size \in Nat, size >= 3, H[b].size >= size + 4,
         NEW G, NEW r, NEW n, r = b + size + 1, n = After(H, b),
         Headers(G), Trimmed(H, G, b, r, n, size)
  PROVE  Chain(G, P)
<1>0. Headers(H) /\ Apart(H) /\ Pools(P) BY DEF Chain
<1>1. /\ r \in Nat /\ r \notin DOMAIN H /\ n \in DOMAIN H /\ b < r /\ r < n
      /\ H[b].size \in Nat /\ H[b].size # 0 /\ b \in Nat /\ n \in Nat
      /\ n = b + H[b].size + 1
  <2>1. /\ b + size + 1 \in Nat /\ b + size + 1 \notin DOMAIN H
        /\ After(H, b) \in DOMAIN H /\ b < b + size + 1 /\ b + size + 1 < After(H, b)
        /\ H[b].size \in Nat /\ H[b].size # 0
    BY TrimPlaces
  <2>2. b \in Nat /\ After(H, b) \in Nat BY <1>0, <2>1, Fields
  <2>3. QED BY <2>1, <2>2 DEF After
<1>2. /\ DOMAIN G = DOMAIN H \cup {r}
      /\ G[b].size = size /\ G[b].free = H[b].free /\ G[b].free /\ G[b].prev_free = H[b].prev_free
      /\ G[b].prev_phys = H[b].prev_phys
      /\ G[r].size = H[b].size - size - 1 /\ G[r].free /\ G[r].prev_free /\ G[r].prev_phys = b
      /\ G[n].size = H[n].size /\ G[n].free = H[n].free /\ G[n].prev_free /\ G[n].prev_phys = r
      /\ \A c \in DOMAIN H \ {b, n} : G[c] = H[c]
  BY DEF Trimmed
<1>3. After(G, b) = r /\ After(G, r) = n /\ G[r].size \in Nat /\ G[r].size >= 3
  BY <1>1, <1>2 DEF After
<1>4. ASSUME NEW c \in DOMAIN H, c # b
      PROVE  G[c].size = H[c].size /\ G[c].free = H[c].free /\ After(G, c) = After(H, c)
  BY <1>2, <1>4 DEF After
<1>5. Headers(H) /\ Apart(H) BY <1>0
<1>6. Apart(G)
  <2> SUFFICES ASSUME NEW x \in DOMAIN G, NEW y \in DOMAIN G, x < y, G[x].size # 0
               PROVE  After(G, x) <= y
    BY DEF Apart
  <2>1. x \in Nat /\ y \in Nat BY DEF Headers
  <2>2. \A c \in DOMAIN H : b < c => n <= c BY <1>1, <1>5 DEF Apart
  <2>3. CASE x = b
    <3>1. CASE y = r BY <1>1, <1>3, <2>3, <3>1
    <3>2. CASE y # r
      <4>1. y \in DOMAIN H BY <1>2, <3>2
      <4>2. QED BY <1>1, <1>3, <2>1, <2>2, <2>3, <4>1
    <3>3. QED BY <3>1, <3>2
  <2>4. CASE x = r
    <3>1. y \in DOMAIN H /\ b < y BY <1>1, <1>2, <2>1, <2>4
    <3>2. QED BY <1>3, <2>2, <2>4, <3>1
  <2>5. CASE x # b /\ x # r
    <3>1. x \in DOMAIN H /\ H[x].size # 0 /\ After(G, x) = After(H, x) BY <1>2, <1>4, <2>5
    <3>2. CASE y # r
      <4>1. y \in DOMAIN H BY <1>2, <3>2
      <4>2. QED BY <1>5, <3>1, <4>1 DEF Apart
    <3>3. CASE y = r
      <4>1. x < b BY <1>1, <2>1, <2>2, <2>5, <3>1, <3>3
      <4>2. After(H, x) <= b BY <1>5, <3>1, <4>1 DEF Apart
      <4>3. After(H, x) \in Nat BY <1>5, <3>1, Fields
      <4>4. QED BY <1>1, <3>1, <3>3, <4>2, <4>3
    <3>4. QED BY <3>2, <3>3
  <2>6. QED BY <2>3, <2>4, <2>5
<1>7. ASSUME NEW c \in DOMAIN G PROVE Next2(G, c)
  <2>1. CASE c = b BY <1>1, <1>2, <1>3, <2>1 DEF Next2
  <2>2. CASE c = r BY <1>1, <1>2, <1>3, <2>2 DEF Next2
  <2>3. CASE c # b /\ c # r
    <3>1. c \in DOMAIN H BY <1>2, <2>3
    <3>2. Next2(H, c) BY <3>1 DEF Chain
    <3>3. G[c].size = H[c].size /\ G[c].free = H[c].free /\ After(G, c) = After(H, c)
      BY <1>4, <2>3, <3>1
    <3>4. CASE H[c].size = 0 BY <3>3, <3>4 DEF Next2
    <3>5. CASE H[c].size # 0
      <4>1. After(H, c) # n BY <1>1, <1>5, <2>3, <3>1, <3>5, OneBefore
      <4>2. After(H, c) \in DOMAIN H BY <3>2, <3>5 DEF Next2
      <4>3. G[After(H, c)].prev_free = H[After(H, c)].prev_free
            /\ G[After(H, c)].prev_phys = H[After(H, c)].prev_phys
        BY <1>2, <4>1, <4>2
      <4>4. QED BY <1>2, <3>2, <3>3, <3>5, <4>2, <4>3 DEF Next2
    <3>6. QED BY <3>4, <3>5
  <2>4. QED BY <2>1, <2>2, <2>3
<1>8. ASSUME NEW c \in DOMAIN G PROVE Before(G, c)
  <2>1. CASE c = r
    <3>1. b \in DOMAIN G /\ G[b].size # 0 /\ G[b].free /\ After(G, b) = r BY <1>2, <1>3
    <3>2. QED BY <1>2, <2>1, <3>1 DEF Before
  <2>2. CASE c = n BY <1>1, <1>2, <1>3, <2>2 DEF Before
  <2>3. CASE c # r /\ c # n
    <3>1. c \in DOMAIN H BY <1>2, <2>3
    <3>2. Before(H, c) BY <3>1 DEF Chain
    <3>3. G[c].prev_free = H[c].prev_free /\ G[c].prev_phys = H[c].prev_phys
      BY <1>2, <2>3, <3>1
    <3>4. CASE ~H[c].prev_free BY <3>3, <3>4 DEF Before
    <3>5. CASE H[c].prev_free
      <4> DEFINE p == H[c].prev_phys
      <4>1. p \in DOMAIN H /\ H[p].size # 0 /\ H[p].free /\ After(H, p) = c
        BY <3>2, <3>5 DEF Before
      <4>2. p # b BY <1>1, <2>3, <4>1
      <4> HIDE DEF p
      <4>3. G[p].size = H[p].size /\ G[p].free = H[p].free /\ After(G, p) = After(H, p)
        BY <1>4, <4>1, <4>2
      <4>4. p \in DOMAIN G /\ G[p].size # 0 /\ G[p].free /\ After(G, p) = c BY <1>2, <4>1, <4>3
      <4>5. G[c].prev_phys = p BY <3>3 DEF p
      <4>6. QED BY <4>4, <4>5 DEF Before
    <3>6. QED BY <3>4, <3>5
  <2>4. QED BY <2>1, <2>2, <2>3
<1>9. ASSUME NEW c \in DOMAIN G PROVE Sized(G, c)
  <2>1. CASE c = b BY <1>2, <2>1 DEF Sized
  <2>2. CASE c = r BY <1>3, <2>2 DEF Sized
  <2>3. CASE c # b /\ c # r
    <3>1. c \in DOMAIN H BY <1>2, <2>3
    <3>2. Sized(H, c) BY <3>1 DEF Chain
    <3>3. QED BY <1>4, <2>3, <3>1, <3>2 DEF Sized
  <2>4. QED BY <2>1, <2>2, <2>3
<1>10. ASSUME NEW c \in DOMAIN G PROVE \E p \in P : Within(G, p, c)
  <2>1. CASE c \in {b, r}
    <3>1. PICK p \in P : Within(H, p, b) BY DEF Chain
    <3>2. p.first <= b /\ n <= p.last /\ p.first \in Nat /\ p.last \in Nat
      BY <1>0, <1>1, <3>1 DEF Within, Pools
    <3>3. p.first <= c /\ c <= p.last /\ After(G, c) <= p.last
      <4>1. CASE c = b BY <1>1, <1>3, <3>1, <3>2, <4>1 DEF Within
      <4>2. CASE c = r
        <5>1. After(G, c) = n BY <1>3, <4>2
        <5>2. p.first <= c /\ c <= p.last
          BY <1>1, <3>2, <4>2
        <5>3. QED BY <3>2, <5>1, <5>2
      <4>3. QED BY <2>1, <4>1, <4>2
    <3>4. QED BY <3>1, <3>3 DEF Within
  <2>2. CASE c \notin {b, r}
    <3>1. c \in DOMAIN H /\ c # b BY <1>2, <2>2
    <3>2. PICK p \in P : Within(H, p, c) BY <3>1 DEF Chain
    <3>3. QED BY <1>4, <3>1, <3>2 DEF Within
  <2>3. QED BY <2>1, <2>2
<1>11. QED BY <1>6, <1>7, <1>8, <1>9, <1>10 DEF Chain

LEMMA TrimKeeps ==
  ASSUME NEW H, NEW P, Chain(H, P), NEW b \in DOMAIN H, H[b].free,
         NEW size \in Nat, size >= 3, H[b].size >= size + 4,
         NEW G, NEW r, NEW n, r = b + size + 1, n = After(H, b),
         Trimmed(H, G, b, r, n, size), NEW X, Coalesced(H, X)
  PROVE  /\ Coalesced(G, X \cup {r}) /\ \A c : Kept(H, G, c)
         /\ FreeOf(G) = FreeOf(H) \cup {r}
<1>1. r \notin DOMAIN H /\ n \in DOMAIN H /\ b # n
  <2>1. b \in Nat /\ n \in Nat /\ b < n BY Fields DEF Chain
  <2>2. QED BY <2>1, TrimPlaces
<1>2. /\ DOMAIN G = DOMAIN H \cup {r}
      /\ G[b].free = H[b].free /\ G[b].prev_free = H[b].prev_free
      /\ G[r].free
      /\ G[n].size = H[n].size /\ G[n].free = H[n].free
      /\ \A c \in DOMAIN H \ {b, n} : G[c] = H[c]
  BY DEF Trimmed
<1>3. \A c \in DOMAIN H : G[c].free = H[c].free BY <1>1, <1>2
<1>4. ~H[n].free \/ H[n].prev_free
  <2>1. H[n].prev_free = H[b].free BY <1>1, TrimPlaces DEF Chain, Next2
  <2>2. QED BY <2>1
<1>5. Coalesced(G, X \cup {r})
  <2> SUFFICES ASSUME NEW c \in DOMAIN G, G[c].free, G[c].prev_free, c # r PROVE c \in X
    BY DEF Coalesced
  <2>1. c \in DOMAIN H /\ H[c].free BY <1>2, <1>3
  <2>2. CASE c = n BY <1>4, <2>1, <2>2 DEF Coalesced
  <2>3. CASE c # n
    <3>1. H[c].prev_free BY <1>2, <2>1, <2>3
    <3>2. QED BY <2>1, <3>1 DEF Coalesced
  <2>4. QED BY <2>2, <2>3
<1>6. \A c : Kept(H, G, c)
  <2> SUFFICES ASSUME NEW c \in DOMAIN H, ~H[c].free
               PROVE  c \in DOMAIN G /\ ~G[c].free /\ G[c].size = H[c].size
    BY DEF Kept
  <2>1. c # b OBVIOUS
  <2>2. QED BY <1>2, <1>3, <2>1
<1>7. FreeOf(G) = FreeOf(H) \cup {r} BY <1>2, <1>3 DEF FreeOf
<1>8. QED BY <1>5, <1>6, <1>7

(* The block at b becomes free, or used.                                   *)
Marked(H, G, b, n, free, prev_phys) ==
  /\ DOMAIN G = DOMAIN H
  /\ G[b] = [size |-> H[b].size, free |-> free, prev_free |-> H[b].prev_free,
             prev_phys |-> H[b].prev_phys]
  /\ G[n] = [size |-> H[n].size, free |-> H[n].free, prev_free |-> free,
             prev_phys |-> prev_phys]
  /\ \A c \in DOMAIN H \ {b, n} : G[c] = H[c]

LEMMA MarkChain ==
  ASSUME NEW H, NEW P, Chain(H, P), NEW b \in DOMAIN H, H[b].size # 0,
         NEW G, NEW n, n = After(H, b), NEW free \in BOOLEAN, NEW prev_phys, free => prev_phys = b,
         Headers(G), Marked(H, G, b, n, free, prev_phys)
  PROVE  Chain(G, P)
<1>0. Headers(H) /\ Apart(H) /\ Pools(P) BY DEF Chain
<1>1. n \in DOMAIN H /\ b # n
  <2>1. b \in Nat /\ n \in Nat /\ b < n BY <1>0, Fields
  <2>2. QED BY <2>1 DEF Chain, Next2
<1>2. /\ DOMAIN G = DOMAIN H
      /\ G[b].size = H[b].size /\ G[b].free = free /\ G[b].prev_free = H[b].prev_free
      /\ G[b].prev_phys = H[b].prev_phys
      /\ G[n].size = H[n].size /\ G[n].free = H[n].free /\ G[n].prev_free = free
      /\ G[n].prev_phys = prev_phys
      /\ \A c \in DOMAIN H \ {b, n} : G[c] = H[c]
  BY DEF Marked
<1>3. ASSUME NEW c \in DOMAIN H
      PROVE  /\ G[c].size = H[c].size /\ After(G, c) = After(H, c)
             /\ c # b => G[c].free = H[c].free
             /\ c # n => G[c].prev_free = H[c].prev_free /\ G[c].prev_phys = H[c].prev_phys
  <2>1. G[c].size = H[c].size BY <1>2
  <2>2. c # b => G[c].free = H[c].free BY <1>2
  <2>3. c # n => G[c].prev_free = H[c].prev_free /\ G[c].prev_phys = H[c].prev_phys BY <1>2
  <2>4. QED BY <2>1, <2>2, <2>3 DEF After
<1>4. Apart(G) BY <1>0, <1>2, <1>3 DEF Apart
<1>5. ASSUME NEW c \in DOMAIN G PROVE Next2(G, c)
  <2>1. c \in DOMAIN H /\ Next2(H, c) BY <1>2 DEF Chain
  <2>2. CASE H[c].size = 0 BY <1>3, <2>1, <2>2 DEF Next2
  <2>3. CASE H[c].size # 0 /\ c = b
    <3>1. After(G, c) = n BY <1>3, <2>1, <2>3
    <3>2. QED BY <1>1, <1>2, <2>1, <2>3, <3>1 DEF Next2
  <2>4. CASE H[c].size # 0 /\ c # b
    <3>1. After(H, c) \in DOMAIN H /\ H[c].size >= 3 BY <2>1, <2>4 DEF Next2
    <3>2. After(H, c) # n BY <1>0, <2>1, <2>4, OneBefore
    <3>3. G[After(H, c)].prev_free = H[After(H, c)].prev_free
          /\ G[After(H, c)].prev_phys = H[After(H, c)].prev_phys
      BY <1>3, <3>1, <3>2
    <3>4. G[c].size = H[c].size /\ After(G, c) = After(H, c) /\ G[c].free = H[c].free
      BY <1>3, <2>1, <2>4
    <3>5. QED BY <1>2, <2>1, <2>4, <3>1, <3>3, <3>4 DEF Next2
  <2>5. QED BY <2>2, <2>3, <2>4
<1>6. ASSUME NEW c \in DOMAIN G PROVE Before(G, c)
  <2>1. c \in DOMAIN H /\ Before(H, c) BY <1>2 DEF Chain
  <2>2. CASE c = n
    <3>1. b \in DOMAIN G /\ G[b].size # 0 /\ G[b].free = free /\ After(G, b) = n BY <1>2, <1>3
    <3>2. G[c].prev_free = free /\ (free => G[c].prev_phys = b) BY <1>2, <2>2
    <3>3. QED BY <2>2, <3>1, <3>2 DEF Before
  <2>3. CASE c # n
    <3>1. G[c].prev_free = H[c].prev_free /\ G[c].prev_phys = H[c].prev_phys BY <1>3, <2>1, <2>3
    <3>2. CASE ~H[c].prev_free BY <3>1, <3>2 DEF Before
    <3>3. CASE H[c].prev_free
      <4> DEFINE p == H[c].prev_phys
      <4>1. p \in DOMAIN H /\ H[p].size # 0 /\ H[p].free /\ After(H, p) = c
        BY <2>1, <3>3 DEF Before
      <4>2. p # b BY <2>3, <4>1
      <4> HIDE DEF p
      <4>3. G[p].size = H[p].size /\ G[p].free = H[p].free /\ After(G, p) = After(H, p)
        BY <1>3, <4>1, <4>2
      <4>4. p \in DOMAIN G /\ G[p].size # 0 /\ G[p].free /\ After(G, p) = c BY <1>2, <4>1, <4>3
      <4>5. G[c].prev_phys = p BY <3>1 DEF p
      <4>6. QED BY <4>4, <4>5 DEF Before
    <3>4. QED BY <3>2, <3>3
  <2>4. QED BY <2>2, <2>3
<1>7. ASSUME NEW c \in DOMAIN G PROVE Sized(G, c)
  <2>1. c \in DOMAIN H /\ Sized(H, c) BY <1>2 DEF Chain
  <2>2. CASE c = b BY <1>2, <2>2 DEF Sized
  <2>3. CASE c # b BY <1>3, <2>1, <2>3 DEF Sized
  <2>4. QED BY <2>2, <2>3
<1>8. ASSUME NEW c \in DOMAIN G PROVE \E p \in P : Within(G, p, c)
  <2>1. c \in DOMAIN H BY <1>2
  <2>2. PICK p \in P : Within(H, p, c) BY <2>1 DEF Chain
  <2>3. Within(G, p, c) BY <1>3, <2>1, <2>2 DEF Within
  <2>4. QED BY <2>3
<1>9. QED BY <1>0, <1>4, <1>5, <1>6, <1>7, <1>8 DEF Chain

LEMMA MarkKeeps ==
  ASSUME NEW H, NEW P, Chain(H, P), NEW b \in DOMAIN H, H[b].size # 0,
         NEW G, NEW n, n = After(H, b), NEW free \in BOOLEAN, NEW prev_phys,
         Marked(H, G, b, n, free, prev_phys), NEW X, Coalesced(H, X)
  PROVE  /\ free => Coalesced(G, X \cup {b, n})
         /\ ~free => Coalesced(G, X \ {b, n})
         /\ Kept(H, G, b)
         /\ FreeOf(G) = IF free THEN FreeOf(H) \cup {b} ELSE FreeOf(H) \ {b}
<1>1. n \in DOMAIN H /\ b # n
  <2>1. b \in Nat /\ n \in Nat /\ b < n BY Fields DEF Chain
  <2>2. QED BY <2>1 DEF Chain, Next2
<1>2. /\ DOMAIN G = DOMAIN H
      /\ G[b].size = H[b].size /\ G[b].free = free /\ G[b].prev_free = H[b].prev_free
      /\ G[n].size = H[n].size /\ G[n].free = H[n].free /\ G[n].prev_free = free
      /\ \A c \in DOMAIN H \ {b, n} : G[c] = H[c]
  BY DEF Marked
<1>3. ASSUME NEW c \in DOMAIN H
      PROVE  /\ G[c].size = H[c].size
             /\ c # b => G[c].free = H[c].free
             /\ c # n => G[c].prev_free = H[c].prev_free
  BY <1>2
<1>4. Coalesced(G, X \cup {b, n})
  <2> SUFFICES ASSUME NEW c \in DOMAIN G, G[c].free, G[c].prev_free, c # b, c # n PROVE c \in X
    BY DEF Coalesced
  <2>1. c \in DOMAIN H /\ H[c].free /\ H[c].prev_free BY <1>2, <1>3
  <2>2. QED BY <2>1 DEF Coalesced
<1>5. ASSUME ~free PROVE Coalesced(G, X \ {b, n})
  <2> SUFFICES ASSUME NEW c \in DOMAIN G, G[c].free, G[c].prev_free PROVE c \in X \ {b, n}
    BY DEF Coalesced
  <2>1. c # b /\ c # n BY <1>2, <1>5
  <2>2. c \in DOMAIN H /\ H[c].free /\ H[c].prev_free BY <1>2, <1>3, <2>1
  <2>3. QED BY <2>1, <2>2 DEF Coalesced
<1>6. Kept(H, G, b) BY <1>2, <1>3 DEF Kept
<1>7. \A c \in DOMAIN H : G[c].free = IF c = b THEN free ELSE H[c].free BY <1>2, <1>3
<1>8. FreeOf(G) = IF free THEN FreeOf(H) \cup {b} ELSE FreeOf(H) \ {b}
  <2>1. CASE free BY <1>2, <1>7, <2>1 DEF FreeOf
  <2>2. CASE ~free BY <1>2, <1>7, <2>2 DEF FreeOf
  <2>3. QED BY <2>1, <2>2
<1>9. QED BY <1>4, <1>5, <1>6, <1>8

(* The free block at b takes in the one at c after it.                     *)
Absorbed(H, G, b, c, n) ==
  /\ DOMAIN G = DOMAIN H \ {c}
  /\ G[b] = [size |-> H[b].size + H[c].size + 1, free |-> H[b].free,
             prev_free |-> H[b].prev_free, prev_phys |-> H[b].prev_phys]
  /\ G[n] = [size |-> H[n].size, free |-> H[n].free, prev_free |-> H[n].prev_free,
             prev_phys |-> b]
  /\ \A d \in DOMAIN H \ {b, c, n} : G[d] = H[d]

LEMMA AbsorbPlaces ==
  ASSUME NEW H, NEW P, Chain(H, P), NEW b \in DOMAIN H, NEW c \in DOMAIN H,
         H[b].free, H[c].free, c = After(H, b), NEW n, n = After(H, c)
  PROVE  /\ n \in DOMAIN H /\ b \in Nat /\ c \in Nat /\ n \in Nat /\ b < c /\ c < n
         /\ H[b].size \in Nat /\ H[b].size >= 3 /\ H[c].size \in Nat /\ H[c].size >= 3
         /\ n = b + (H[b].size + H[c].size + 1) + 1
<1>1. Headers(H) BY DEF Chain
<1>2. H[b].size # 0 /\ H[c].size # 0 BY DEF Chain, Sized
<1>3. n \in DOMAIN H /\ H[b].size >= 3 /\ H[c].size >= 3 BY <1>2 DEF Chain, Next2
<1>4. b \in Nat /\ c \in Nat /\ n \in Nat /\ b < c /\ c < n /\ H[b].size \in Nat /\ H[c].size \in Nat
  BY <1>1, <1>3, Fields
<1>5. QED BY <1>3, <1>4 DEF After

LEMMA AbsorbChain ==
  ASSUME NEW H, NEW P, Chain(H, P), NEW b \in DOMAIN H, NEW c \in DOMAIN H,
         H[b].free, H[c].free, c = After(H, b), NEW n, n = After(H, c),
         NEW G, Headers(G), Absorbed(H, G, b, c, n)
  PROVE  Chain(G, P)
<1>0. Headers(H) /\ Apart(H) /\ Pools(P) BY DEF Chain
<1>1. /\ n \in DOMAIN H /\ b \in Nat /\ c \in Nat /\ n \in Nat /\ b < c /\ c < n
      /\ H[b].size \in Nat /\ H[b].size >= 3 /\ H[c].size \in Nat /\ H[c].size >= 3
      /\ n = b + (H[b].size + H[c].size + 1) + 1 /\ H[b].size # 0 /\ H[c].size # 0
  <2>1. /\ n \in DOMAIN H /\ b \in Nat /\ c \in Nat /\ n \in Nat /\ b < c /\ c < n
        /\ H[b].size \in Nat /\ H[b].size >= 3 /\ H[c].size \in Nat /\ H[c].size >= 3
        /\ n = b + (H[b].size + H[c].size + 1) + 1
    BY AbsorbPlaces
  <2>2. QED BY <2>1
<1>2. /\ DOMAIN G = DOMAIN H \ {c} /\ b \in DOMAIN G /\ n \in DOMAIN G
      /\ G[b].size = H[b].size + H[c].size + 1
      /\ G[b].free = H[b].free /\ G[b].free /\ G[b].prev_free = H[b].prev_free
      /\ G[b].prev_phys = H[b].prev_phys
      /\ G[n].size = H[n].size /\ G[n].free = H[n].free /\ G[n].prev_free = H[n].prev_free
      /\ G[n].prev_phys = b
      /\ \A d \in DOMAIN H \ {b, c, n} : G[d] = H[d]
  BY <1>1 DEF Absorbed
<1>3. After(G, b) = n BY <1>1, <1>2 DEF After
<1>4. ASSUME NEW d \in DOMAIN G, d # b
      PROVE  d \in DOMAIN H /\ G[d].size = H[d].size /\ After(G, d) = After(H, d)
  BY <1>2, <1>4 DEF After
<1>5. ASSUME NEW d \in DOMAIN G
      PROVE  /\ d \in DOMAIN H /\ d # c /\ G[d].free = H[d].free /\ G[d].prev_free = H[d].prev_free
             /\ d # n => G[d].prev_phys = H[d].prev_phys
  BY <1>1, <1>2
<1>6. Apart(G)
  <2> SUFFICES ASSUME NEW x \in DOMAIN G, NEW y \in DOMAIN G, x < y, G[x].size # 0
               PROVE  After(G, x) <= y
    BY DEF Apart
  <2>1. y \in DOMAIN H /\ y # c /\ y \in Nat BY <1>0, <1>5 DEF Headers
  <2>2. CASE x # b
    <3>1. x \in DOMAIN H /\ H[x].size # 0 /\ After(G, x) = After(H, x) BY <1>4, <2>2
    <3>2. QED BY <1>0, <2>1, <3>1 DEF Apart
  <2>3. CASE x = b
    <3>1. c <= y BY <1>0, <1>1, <2>1, <2>3 DEF Apart
    <3>2. n <= y
      <4>1. c < y BY <1>1, <2>1, <3>1
      <4>2. QED BY <1>0, <1>1, <2>1, <4>1 DEF Apart
    <3>3. QED BY <1>3, <2>3, <3>2
  <2>4. QED BY <2>2, <2>3
<1>7. ASSUME NEW d \in DOMAIN G PROVE Next2(G, d)
  <2>1. CASE d = b
    <3>1. H[n].prev_free = H[c].free BY <1>1 DEF Chain, Next2
    <3>2. H[b].free = TRUE /\ H[c].free = TRUE BY <1>0, Fields
    <3>3. G[n].prev_free = G[b].free BY <1>2, <3>1, <3>2
    <3>4. G[b].size >= 3 BY <1>1, <1>2
    <3>5. Next2(G, b) BY <1>2, <1>3, <3>3, <3>4 DEF Next2
    <3>6. QED BY <2>1, <3>5
  <2>2. CASE d # b
    <3>1. d \in DOMAIN H /\ d # c /\ G[d].size = H[d].size /\ After(G, d) = After(H, d)
      BY <1>4, <1>5, <2>2
    <3>2. Next2(H, d) BY <3>1 DEF Chain
    <3>3. CASE H[d].size = 0 BY <3>1, <3>3 DEF Next2
    <3>4. CASE H[d].size # 0
      <4>1. After(H, d) # c /\ After(H, d) # n BY <1>0, <1>1, <2>2, <3>1, <3>4, OneBefore
      <4>2. After(H, d) \in DOMAIN G BY <1>2, <3>2, <3>4, <4>1 DEF Next2
      <4>3. G[After(H, d)].prev_free = H[After(H, d)].prev_free
            /\ G[After(H, d)].prev_phys = H[After(H, d)].prev_phys
        BY <1>5, <4>1, <4>2
      <4>4. G[d].free = H[d].free BY <1>5
      <4>5. QED BY <3>1, <3>2, <3>4, <4>2, <4>3, <4>4 DEF Next2
    <3>5. QED BY <3>3, <3>4
  <2>3. QED BY <2>1, <2>2
<1>8. ASSUME NEW d \in DOMAIN G PROVE Before(G, d)
  <2>1. d \in DOMAIN H /\ Before(H, d) BY <1>5 DEF Chain
  <2>2. CASE d = n
    <3>1. G[b].size # 0 BY <1>1, <1>2
    <3>2. QED BY <1>2, <1>3, <2>2, <3>1 DEF Before
  <2>3. CASE d # n
    <3>1. G[d].prev_free = H[d].prev_free /\ G[d].prev_phys = H[d].prev_phys BY <1>5, <2>3
    <3>2. CASE ~H[d].prev_free BY <3>1, <3>2 DEF Before
    <3>3. CASE H[d].prev_free
      <4> DEFINE p == H[d].prev_phys
      <4>1. p \in DOMAIN H /\ H[p].size # 0 /\ H[p].free /\ After(H, p) = d
        BY <2>1, <3>3 DEF Before
      <4>2. p # c BY <2>3, <4>1
      <4>3. p # b BY <1>5, <4>1
      <4> HIDE DEF p
      <4>4. p \in DOMAIN G BY <1>2, <4>1, <4>2
      <4>5. G[p].size = H[p].size /\ G[p].free = H[p].free /\ After(G, p) = After(H, p)
        BY <1>4, <1>5, <4>3, <4>4
      <4>6. G[p].size # 0 /\ G[p].free /\ After(G, p) = d BY <4>1, <4>5
      <4>7. G[d].prev_phys = p BY <3>1 DEF p
      <4>8. QED BY <4>4, <4>6, <4>7 DEF Before
    <3>4. QED BY <3>2, <3>3
  <2>4. QED BY <2>2, <2>3
<1>9. ASSUME NEW d \in DOMAIN G PROVE Sized(G, d)
  <2>1. CASE d = b BY <1>1, <1>2, <2>1 DEF Sized
  <2>2. CASE d # b
    <3>1. Sized(H, d) BY <1>5 DEF Chain
    <3>2. QED BY <1>4, <1>5, <2>2, <3>1 DEF Sized
  <2>3. QED BY <2>1, <2>2
<1>10. ASSUME NEW d \in DOMAIN G PROVE \E p \in P : Within(G, p, d)
  <2>1. CASE d = b
    <3>1. PICK p \in P : Within(H, p, b) BY DEF Chain
    <3>2. PICK q \in P : Within(H, q, c) BY DEF Chain
    <3>3. p.first \in Nat /\ p.last \in Nat /\ q.first \in Nat /\ q.last \in Nat BY <1>0 DEF Pools
    <3>4. p.first <= b /\ c <= p.last BY <1>1, <3>1 DEF Within
    <3>5. q.first <= c /\ c <= q.last /\ n <= q.last BY <1>1, <3>2 DEF Within
    <3>6. p.first <= c BY <1>1, <3>3, <3>4
    <3>7. p = q BY <1>0, <1>1, <3>4, <3>5, <3>6 DEF Pools
    <3>8. b <= p.last BY <1>1, <3>3, <3>4
    <3>9. QED BY <1>3, <2>1, <3>4, <3>5, <3>7, <3>8 DEF Within
  <2>2. CASE d # b
    <3>1. d \in DOMAIN H BY <1>5
    <3>2. PICK p \in P : Within(H, p, d) BY <3>1 DEF Chain
    <3>3. Within(G, p, d) BY <1>4, <2>2, <3>2 DEF Within
    <3>4. QED BY <3>3
  <2>3. QED BY <2>1, <2>2
<1>11. QED BY <1>0, <1>6, <1>7, <1>8, <1>9, <1>10 DEF Chain

LEMMA AbsorbKeeps ==
  ASSUME NEW H, NEW P, Chain(H, P), NEW b \in DOMAIN H, NEW c \in DOMAIN H,
         H[b].free, H[c].free, c = After(H, b), NEW n, n = After(H, c),
         NEW G, Absorbed(H, G, b, c, n), NEW X, Coalesced(H, X)
  PROVE  /\ Coalesced(G, X \ {c}) /\ \A d : Kept(H, G, d)
         /\ FreeOf(G) = FreeOf(H) \ {c}
<1>1. n \in DOMAIN H /\ b # c /\ c # n BY AbsorbPlaces
<1>2. /\ DOMAIN G = DOMAIN H \ {c}
      /\ G[b].free = H[b].free /\ G[b].prev_free = H[b].prev_free
      /\ G[n].size = H[n].size /\ G[n].free = H[n].free /\ G[n].prev_free = H[n].prev_free
      /\ \A d \in DOMAIN H \ {b, c, n} : G[d] = H[d]
  BY <1>1 DEF Absorbed
<1>3. ASSUME NEW d \in DOMAIN G
      PROVE  /\ d \in DOMAIN H /\ d # c /\ G[d].free = H[d].free /\ G[d].prev_free = H[d].prev_free
             /\ d # b => G[d].size = H[d].size
  BY <1>2
<1>4. Coalesced(G, X \ {c}) BY <1>3 DEF Coalesced
<1>5. \A d : Kept(H, G, d)
  <2> SUFFICES ASSUME NEW d \in DOMAIN H, ~H[d].free
               PROVE  d \in DOMAIN G /\ ~G[d].free /\ G[d].size = H[d].size
    BY DEF Kept
  <2>1. d # b /\ d # c OBVIOUS
  <2>2. d \in DOMAIN G BY <1>2, <2>1
  <2>3. QED BY <1>3, <2>1, <2>2
<1>6. FreeOf(G) = FreeOf(H) \ {c} BY <1>2, <1>3 DEF FreeOf
<1>7. QED BY <1>4, <1>5, <1>6

(* A pool: its one block, which is free, and the sentinel.                 *)
Pooled(H, G, b, n, size) ==
  /\ DOMAIN G = DOMAIN H \cup {b, n}
  /\ G[b] = [size |-> size, free |-> TRUE, prev_free |-> FALSE, prev_phys |-> Garbage]
  /\ G[n] = [size |-> 0, free |-> FALSE, prev_free |-> TRUE, prev_phys |-> b]
  /\ \A c \in DOMAIN H : G[c] = H[c]

LEMMA PoolChain ==
  ASSUME NEW H, NEW P, Chain(H, P), NEW b \in Nat, NEW size \in Nat, size >= 3,
         NEW n, n = b + size + 1, size < block_size_max,
         \A p \in P : p.last < b,
         NEW G, Headers(G), Pooled(H, G, b, n, size),
         NEW Q, Q = P \cup {[first |-> b, last |-> n]}
  PROVE  Chain(G, Q)
<1> DEFINE pool == [first |-> b, last |-> n]
<1>0. Headers(H) /\ Apart(H) /\ Pools(P) BY DEF Chain
<1>17. pool \in Q /\ \A p \in Q : p \in P \/ p = pool OBVIOUS
<1>1. ASSUME NEW d \in DOMAIN H PROVE d \in Nat /\ d < b /\ (H[d].size # 0 => After(H, d) \in Nat /\ After(H, d) < b)
  <2>1. PICK p \in P : Within(H, p, d) BY DEF Chain
  <2>2. p.last \in Nat /\ p.last < b BY <1>0 DEF Pools
  <2>3. d \in Nat /\ After(H, d) \in Nat BY <1>0, Fields
  <2>4. QED BY <2>1, <2>2, <2>3 DEF Within
<1>2. n \in Nat /\ b < n BY Indexes
<1>3. b \notin DOMAIN H /\ n \notin DOMAIN H BY <1>1, <1>2
<1>4. /\ DOMAIN G = DOMAIN H \cup {b, n}
      /\ G[b].size = size /\ G[b].free /\ ~G[b].prev_free
      /\ G[n].size = 0 /\ ~G[n].free /\ G[n].prev_free /\ G[n].prev_phys = b
      /\ \A d \in DOMAIN H : G[d] = H[d]
  BY DEF Pooled
<1>5. After(G, b) = n BY <1>4 DEF After
<1>6. \A d \in DOMAIN H : After(G, d) = After(H, d) BY <1>4 DEF After
<1>7. Apart(G)
  <2> SUFFICES ASSUME NEW x \in DOMAIN G, NEW y \in DOMAIN G, x < y, G[x].size # 0
               PROVE  After(G, x) <= y
    BY DEF Apart
  <2>1. y \in Nat /\ x \in Nat BY <1>1, <1>2, <1>4
  <2>2. CASE x \in DOMAIN H
    <3>1. H[x].size # 0 /\ After(G, x) = After(H, x) BY <1>4, <1>6, <2>2
    <3>2. CASE y \in DOMAIN H BY <1>0, <2>2, <3>1, <3>2 DEF Apart
    <3>3. CASE y \in {b, n} BY <1>1, <1>2, <2>1, <2>2, <3>1, <3>3
    <3>4. QED BY <1>4, <3>2, <3>3
  <2>3. CASE x = b BY <1>1, <1>2, <1>4, <1>5, <2>1, <2>3
  <2>4. QED BY <1>4, <2>2, <2>3
<1>8. ASSUME NEW d \in DOMAIN G PROVE Next2(G, d)
  <2>1. CASE d \in DOMAIN H
    <3>1. Next2(H, d) BY <2>1 DEF Chain
    <3>2. G[d] = H[d] /\ After(G, d) = After(H, d) BY <1>4, <1>6, <2>1
    <3>3. CASE H[d].size = 0 BY <3>2, <3>3 DEF Next2
    <3>4. CASE H[d].size # 0
      <4>1. After(H, d) \in DOMAIN H BY <3>1, <3>4 DEF Next2
      <4>2. G[After(H, d)] = H[After(H, d)] /\ After(H, d) \in DOMAIN G BY <1>4, <4>1
      <4>3. QED BY <3>1, <3>2, <3>4, <4>1, <4>2 DEF Next2
    <3>5. QED BY <3>3, <3>4
  <2>2. CASE d = b BY <1>4, <1>5, <2>2 DEF Next2
  <2>3. CASE d = n BY <1>4, <2>3 DEF Next2
  <2>4. QED BY <1>4, <2>1, <2>2, <2>3
<1>9. ASSUME NEW d \in DOMAIN G PROVE Before(G, d)
  <2>1. CASE d \in DOMAIN H
    <3>1. Before(H, d) /\ G[d] = H[d] BY <1>4, <2>1 DEF Chain
    <3>2. CASE ~H[d].prev_free BY <3>1, <3>2 DEF Before
    <3>3. CASE H[d].prev_free
      <4> DEFINE p == H[d].prev_phys
      <4>1. p \in DOMAIN H /\ H[p].size # 0 /\ H[p].free /\ After(H, p) = d
        BY <3>1, <3>3 DEF Before
      <4> HIDE DEF p
      <4>2. p \in DOMAIN G /\ G[p] = H[p] /\ After(G, p) = d BY <1>4, <1>6, <4>1
      <4>3. G[d].prev_phys = p BY <3>1 DEF p
      <4>4. QED BY <4>1, <4>2, <4>3 DEF Before
    <3>4. QED BY <3>2, <3>3
  <2>2. CASE d = b BY <1>4, <2>2 DEF Before
  <2>3. CASE d = n
    <3>1. b \in DOMAIN G /\ G[b].size # 0 BY <1>4
    <3>2. QED BY <1>4, <1>5, <2>3, <3>1 DEF Before
  <2>4. QED BY <1>4, <2>1, <2>2, <2>3
<1>10. ASSUME NEW d \in DOMAIN G PROVE Sized(G, d)
  <2>1. CASE d \in DOMAIN H BY <1>4, <2>1 DEF Chain, Sized
  <2>2. CASE d = b BY <1>4, <2>2 DEF Sized
  <2>3. CASE d = n BY <1>4, <2>3 DEF Sized
  <2>4. QED BY <1>4, <2>1, <2>2, <2>3
<1>11. ASSUME NEW d \in DOMAIN G PROVE \E p \in Q : Within(G, p, d)
  <2>1. CASE d \in DOMAIN H
    <3>1. PICK p \in P : Within(H, p, d) BY <2>1 DEF Chain
    <3>2. Within(G, p, d) BY <1>4, <1>6, <2>1, <3>1 DEF Within
    <3>3. QED BY <1>17, <3>2
  <2>2. CASE d = b
    <3>1. pool.first = b /\ pool.last = n OBVIOUS
    <3> HIDE DEF pool
    <3>2. Within(G, pool, d) BY <1>2, <1>5, <2>2, <3>1 DEF Within
    <3>3. QED BY <1>17, <3>2
  <2>3. CASE d = n
    <3>1. pool.first = b /\ pool.last = n OBVIOUS
    <3> HIDE DEF pool
    <3>2. Within(G, pool, d) BY <1>2, <1>4, <2>3, <3>1 DEF Within
    <3>3. QED BY <1>17, <3>2
  <2>4. QED BY <1>4, <2>1, <2>2, <2>3
<1>12. Pools(Q)
  <2>1. pool \in [first : Nat, last : Nat] /\ pool.first = b /\ pool.last = n BY <1>2
  <2> HIDE DEF pool
  <2>2. Q \subseteq [first : Nat, last : Nat] BY <1>0, <2>1 DEF Pools
  <2>3. ASSUME NEW p \in Q PROVE p.last - p.first - 1 < block_size_max
    <3>1. CASE p \in P BY <1>0, <3>1 DEF Pools
    <3>2. CASE p = pool BY <2>1, <3>2, Indexes
    <3>3. QED BY <3>1, <3>2
  <2>4. ASSUME NEW p \in Q, NEW q \in Q, NEW x \in Nat, p.first <= x, x <= p.last, q.first <= x, x <= q.last
        PROVE  p = q
    <3>1. CASE p \in P /\ q \in P BY <1>0, <2>4, <3>1 DEF Pools
    <3>2. CASE p \in P /\ q = pool
      <4>1. p.last < b /\ p.last \in Nat BY <1>0, <3>2 DEF Pools
      <4>2. QED BY <2>1, <2>4, <3>2, <4>1
    <3>3. CASE p = pool /\ q \in P
      <4>1. q.last < b /\ q.last \in Nat BY <1>0, <3>3 DEF Pools
      <4>2. QED BY <2>1, <2>4, <3>3, <4>1
    <3>4. CASE p = pool /\ q = pool BY <3>4
    <3>5. QED BY <1>17, <3>1, <3>2, <3>3, <3>4
  <2>5. \A p, q \in Q, x \in Nat :
          (p.first <= x /\ x <= p.last /\ q.first <= x /\ x <= q.last) => p = q
    BY <2>4
  <2>6. QED BY <2>2, <2>3, <2>5 DEF Pools
<1>13. QED BY <1>7, <1>8, <1>9, <1>10, <1>11, <1>12 DEF Chain

LEMMA PoolKeeps ==
  ASSUME NEW H, NEW b \in Nat \ DOMAIN H, NEW size \in Nat, NEW n, n \notin DOMAIN H,
         NEW G, Pooled(H, G, b, n, size), NEW X, Coalesced(H, X)
  PROVE  /\ Coalesced(G, X) /\ \A d : Kept(H, G, d)
         /\ FreeOf(G) = FreeOf(H) \cup {b}
<1>1. /\ DOMAIN G = DOMAIN H \cup {b, n}
      /\ G[b].free /\ ~G[b].prev_free /\ ~G[n].free
      /\ \A d \in DOMAIN H : G[d] = H[d]
  BY DEF Pooled
<1>2. Coalesced(G, X) BY <1>1 DEF Coalesced
<1>3. \A d : Kept(H, G, d) BY <1>1 DEF Kept
<1>4. FreeOf(G) = FreeOf(H) \cup {b} BY <1>1 DEF FreeOf
<1>5. QED BY <1>2, <1>3, <1>4

-----------------------------------------------------------------------------
(* Free lists *)

(* The list has every member of B, once.                                   *)
Enumerates(list, B) ==
  /\ list \in Seq(Nat)
  /\ \A k \in 1 .. Len(list) : list[k] \in B
  /\ \A b \in B : \E k \in 1 .. Len(list) : list[k] = b
  /\ \A j, k \in 1 .. Len(list) : list[j] = list[k] => j = k

LEMMA Without ==
  ASSUME NEW list \in Seq(Nat), NEW i \in 1 .. Len(list)
  PROVE  /\ RemoveAt(list, i) \in Seq(Nat) /\ Len(RemoveAt(list, i)) = Len(list) - 1
         /\ \A k \in 1 .. Len(list) - 1 :
              RemoveAt(list, i)[k] = IF k < i THEN list[k] ELSE list[k + 1]
<1> DEFINE n == Len(list)
           u == SubSeq(list, 1, i - 1)
           v == SubSeq(list, i + 1, n)
<1>1. n \in Nat /\ i \in Nat /\ i >= 1 /\ i <= n OBVIOUS
<1>2. RemoveAt(list, i) = u \o v BY DEF RemoveAt
<1>3. u \in Seq(Nat) /\ Len(u) = i - 1 /\ \A k \in 1 .. i - 1 : u[k] = list[k]
  OBVIOUS
<1>4. v \in Seq(Nat) /\ Len(v) = n - i /\ \A k \in 1 .. n - i : v[k] = list[i + k]
  OBVIOUS
<1> HIDE DEF n, u, v
<1>5. u \o v \in Seq(Nat) /\ Len(u \o v) = n - 1
  <2>1. u \o v \in Seq(Nat) /\ Len(u \o v) = Len(u) + Len(v) BY <1>3, <1>4, ConcatProperties
  <2>2. QED BY <1>1, <1>3, <1>4, <2>1
<1>6. \A k \in 1 .. n - 1 : (u \o v)[k] = IF k <= i - 1 THEN u[k] ELSE v[k - (i - 1)]
  <2>1. u \in Seq(Nat) /\ v \in Seq(Nat) BY <1>3, <1>4
  <2>2. \A k \in 1 .. Len(u) + Len(v) :
          (u \o v)[k] = IF k <= Len(u) THEN u[k] ELSE v[k - Len(u)]
    BY ONLY <2>1, ConcatProperties
  <2>3. Len(u) + Len(v) = n - 1 /\ Len(u) = i - 1 BY <1>1, <1>3, <1>4
  <2>4. QED BY ONLY <2>2, <2>3
<1>7. ASSUME NEW k \in 1 .. n - 1 PROVE (u \o v)[k] = IF k < i THEN list[k] ELSE list[k + 1]
  <2>1. CASE k < i
    <3>1. k \in 1 .. i - 1 /\ k <= i - 1 BY <1>1, <2>1
    <3>2. (u \o v)[k] = u[k] BY ONLY <1>6, <3>1, k \in 1 .. n - 1
    <3>3. QED BY <1>3, <2>1, <3>1, <3>2
  <2>2. CASE ~(k < i)
    <3>1. k - (i - 1) \in 1 .. n - i /\ ~(k <= i - 1) BY <1>1, <2>2
    <3>2. (u \o v)[k] = v[k - (i - 1)] BY ONLY <1>6, <3>1, k \in 1 .. n - 1
    <3>3. v[k - (i - 1)] = list[i + (k - (i - 1))] BY <1>4, <3>1
    <3>4. i + (k - (i - 1)) = k + 1 BY <1>1
    <3>5. QED BY <2>2, <3>2, <3>3, <3>4
  <2>3. QED BY <2>1, <2>2
<1>8. QED BY <1>2, <1>5, <1>7 DEF n

LEMMA EnumerateLess ==
  ASSUME NEW list, NEW B, Enumerates(list, B), NEW b \in B
  PROVE  Enumerates(RemoveAt(list, Position(list, b)), B \ {b})
<1> DEFINE i == Position(list, b)
           n == Len(list)
           l == RemoveAt(list, i)
<1>1. list \in Seq(Nat) /\ n \in Nat /\ DOMAIN list = 1 .. n BY DEF Enumerates
<1>2. i \in 1 .. n /\ list[i] = b
  <2>1. \E k \in DOMAIN list : list[k] = b BY <1>1 DEF Enumerates
  <2>2. Position(list, b) \in DOMAIN list /\ list[Position(list, b)] = b BY <2>1 DEF Position
  <2>3. QED BY <1>1, <2>2
<1>3. l \in Seq(Nat) /\ Len(l) = n - 1
      /\ \A k \in 1 .. n - 1 : l[k] = IF k < i THEN list[k] ELSE list[k + 1]
  BY <1>1, <1>2, Without
<1>4. /\ \A k \in 1 .. n : list[k] \in B
      /\ \A c \in B : \E k \in 1 .. n : list[k] = c
      /\ \A j, k \in 1 .. n : list[j] = list[k] => j = k
  BY DEF Enumerates
<1> DEFINE Old(k) == IF k < i THEN k ELSE k + 1
<1>5. \A k \in 1 .. n - 1 : Old(k) \in 1 .. n /\ Old(k) # i /\ l[k] = list[Old(k)] BY <1>1, <1>2, <1>3
<1>6. \A j, k \in 1 .. n - 1 : Old(j) = Old(k) => j = k BY <1>1, <1>2
<1>7. ASSUME NEW k \in 1 .. n, k # i PROVE \E j \in 1 .. n - 1 : Old(j) = k
  <2>1. CASE k < i
    <3>1. k \in 1 .. n - 1 /\ Old(k) = k BY <1>1, <1>2, <2>1
    <3>2. QED BY <3>1
  <2>2. CASE ~(k < i)
    <3>1. k - 1 \in 1 .. n - 1 /\ Old(k - 1) = k BY <1>1, <1>2, <1>7, <2>2
    <3>2. QED BY <3>1
  <2>3. QED BY <2>1, <2>2
<1> HIDE DEF Old, l, n, i
<1>8. \A k \in 1 .. n - 1 : l[k] \in B \ {b} BY <1>2, <1>4, <1>5
<1>9. \A c \in B \ {b} : \E k \in 1 .. n - 1 : l[k] = c
  <2> TAKE c \in B \ {b}
  <2>1. PICK k \in 1 .. n : list[k] = c BY <1>4
  <2>2. k # i BY <1>2, <2>1
  <2>3. PICK j \in 1 .. n - 1 : Old(j) = k BY <1>7, <2>2
  <2>4. QED BY <1>5, <2>1, <2>3
<1>10. \A j, k \in 1 .. n - 1 : l[j] = l[k] => j = k BY <1>4, <1>5, <1>6
<1>11. Enumerates(l, B \ {b}) BY <1>3, <1>8, <1>9, <1>10 DEF Enumerates
<1>12. QED BY <1>11 DEF l, i

LEMMA EnumerateMore ==
  ASSUME NEW list, NEW B, Enumerates(list, B), NEW b \in Nat, b \notin B
  PROVE  Enumerates(<<b>> \o list, B \cup {b}) /\ <<b>> \o list # <<>>
<1> DEFINE n == Len(list)
           l == <<b>> \o list
<1>1. list \in Seq(Nat) /\ n \in Nat BY DEF Enumerates
<1>2. /\ \A k \in 1 .. n : list[k] \in B
      /\ \A c \in B : \E k \in 1 .. n : list[k] = c
      /\ \A j, k \in 1 .. n : list[j] = list[k] => j = k
  BY DEF Enumerates
<1>3. <<b>> \in Seq(Nat) /\ Len(<<b>>) = 1 /\ <<b>>[1] = b OBVIOUS
<1>4. l \in Seq(Nat) /\ Len(l) = n + 1 BY <1>1, <1>3, ConcatProperties
<1>5. l[1] = b /\ \A k \in 1 .. n : l[k + 1] = list[k]
  <2>1. l[1] = b BY <1>1, <1>3, ConcatProperties
  <2>2. ASSUME NEW k \in 1 .. n PROVE l[k + 1] = list[k]
    <3>1. k + 1 \in 1 .. 1 + n /\ k + 1 > 1 /\ (k + 1) - 1 = k BY <1>1
    <3>2. QED BY <1>1, <1>3, <3>1, ConcatProperties
  <2>3. QED BY <2>1, <2>2
<1> HIDE DEF l, n
<1>6. ASSUME NEW k \in 1 .. n + 1, k # 1 PROVE k - 1 \in 1 .. n /\ l[k] = list[k - 1]
  <2>1. k - 1 \in 1 .. n /\ (k - 1) + 1 = k BY <1>1, <1>6
  <2>2. QED BY <1>5, <2>1
<1>7. \A k \in 1 .. n + 1 : l[k] \in B \cup {b} BY <1>2, <1>5, <1>6
<1>8. \A c \in B \cup {b} : \E k \in 1 .. n + 1 : l[k] = c
  <2> TAKE c \in B \cup {b}
  <2>1. CASE c = b
    <3>1. 1 \in 1 .. n + 1 BY <1>1
    <3>2. QED BY <1>5, <2>1, <3>1
  <2>2. CASE c \in B
    <3>1. PICK k \in 1 .. n : list[k] = c BY <1>2, <2>2
    <3>2. k + 1 \in 1 .. n + 1 BY <1>1
    <3>3. QED BY <1>5, <3>1, <3>2
  <2>3. QED BY <2>1, <2>2
<1>9. ASSUME NEW j \in 1 .. n + 1, NEW k \in 1 .. n + 1, l[j] = l[k] PROVE j = k
  <2>1. CASE j = 1 /\ k = 1 BY <2>1
  <2>2. CASE j = 1 /\ k # 1 BY <1>2, <1>5, <1>6, <1>9, <2>2
  <2>3. CASE j # 1 /\ k = 1 BY <1>2, <1>5, <1>6, <1>9, <2>3
  <2>4. CASE j # 1 /\ k # 1
    <3>1. j - 1 \in 1 .. n /\ k - 1 \in 1 .. n /\ list[j - 1] = list[k - 1] BY <1>6, <1>9, <2>4
    <3>2. j - 1 = k - 1 BY <1>2, <3>1
    <3>3. QED BY <1>1, <3>2
  <2>5. QED BY <2>1, <2>2, <2>3, <2>4
<1>10. Enumerates(l, B \cup {b}) BY <1>4, <1>7, <1>8, <1>9 DEF Enumerates
<1>11. l # <<>> BY <1>1, <1>4
<1>12. QED BY <1>10, <1>11 DEF l

LEMMA EnumerateNone ==
  ASSUME NEW list, NEW B, Enumerates(list, B)
  PROVE  /\ list = <<>> <=> B = {}
         /\ list # <<>> => Head(list) \in B
<1>1. list \in Seq(Nat) /\ Len(list) \in Nat BY DEF Enumerates
<1>2. ASSUME list = <<>> PROVE B = {}
  <2>1. Len(list) = 0 BY <1>2
  <2>2. QED BY <2>1 DEF Enumerates
<1>3. ASSUME list # <<>> PROVE Head(list) \in B
  <2>1. 1 \in 1 .. Len(list) /\ Head(list) = list[1] BY <1>1, <1>3, EmptySeq
  <2>2. QED BY <2>1 DEF Enumerates
<1>4. QED BY <1>2, <1>3

(* The blocks of F are in the lists of their sizes, once each and no       *)
(* others, and the bitmaps tell which lists have any.                      *)
Lists(t) == t \in [fl_bitmap : SUBSET FLs, sl_bitmap : [FLs -> SUBSET SLs],
                   blocks : [FLs -> [SLs -> Seq(Nat)]], header : {t.header}]

At(t, b)           == mapping_insert(Size(t, b))
Class(t, F, fl, sl) == {b \in F : At(t, b) = [fl |-> fl, sl |-> sl]}

Bits(t) == /\ \A fl \in FLs : fl \in t.fl_bitmap <=> t.sl_bitmap[fl] # {}
           /\ \A fl \in FLs, sl \in SLs : sl \in t.sl_bitmap[fl] <=> t.blocks[fl][sl] # <<>>

Listing(t, F) ==
  /\ Lists(t) /\ Bits(t)
  /\ F \subseteq Nat
  /\ \A b \in F : Size(t, b) \in Nat /\ Size(t, b) < block_size_max
  /\ \A fl \in FLs, sl \in SLs : Enumerates(t.blocks[fl][sl], Class(t, F, fl, sl))

LEMMA WhereListed ==
  ASSUME NEW t, NEW F, Listing(t, F), NEW b \in F
  PROVE  /\ At(t, b).fl \in FLs /\ At(t, b).sl \in SLs
         /\ At(t, b) = [fl |-> At(t, b).fl, sl |-> At(t, b).sl]
         /\ b \in Class(t, F, At(t, b).fl, At(t, b).sl)
<1>1. Size(t, b) \in Nat /\ Size(t, b) < block_size_max BY DEF Listing
<1>2. At(t, b).fl \in FLs /\ At(t, b).sl \in SLs /\ At(t, b) = [fl |-> At(t, b).fl, sl |-> At(t, b).sl]
  BY <1>1, InsertIndex DEF At
<1>3. QED BY <1>2 DEF Class

(* Steps that leave the lists, and the sizes of what is in them.           *)
LEMMA ListingKept ==
  ASSUME NEW t, NEW F, Listing(t, F), NEW u, Lists(u),
         u.fl_bitmap = t.fl_bitmap, u.sl_bitmap = t.sl_bitmap, u.blocks = t.blocks,
         \A b \in F : Size(u, b) = Size(t, b)
  PROVE  Listing(u, F)
<1>1. Bits(u) BY DEF Bits, Listing
<1>2. \A fl, sl : Class(u, F, fl, sl) = Class(t, F, fl, sl) BY DEF Class, At
<1>3. QED BY <1>1, <1>2 DEF Listing

(* The result of changing one list, m being its indices.                   *)
ListChanged(t, u, m, list, sls, fls_) ==
  /\ u.header = t.header
  /\ u.fl_bitmap = fls_
  /\ \A fl \in FLs : u.sl_bitmap[fl] = IF fl = m.fl THEN sls ELSE t.sl_bitmap[fl]
  /\ \A fl \in FLs, sl \in SLs :
       u.blocks[fl][sl] = IF fl = m.fl /\ sl = m.sl THEN list ELSE t.blocks[fl][sl]

LEMMA ChangedBits ==
  ASSUME NEW t, NEW u, NEW m, Lists(t), Bits(t), m.fl \in FLs, m.sl \in SLs,
         NEW list, NEW sls, NEW fls_, ListChanged(t, u, m, list, sls, fls_),
         sls = IF list = <<>> THEN t.sl_bitmap[m.fl] \ {m.sl} ELSE t.sl_bitmap[m.fl] \cup {m.sl},
         fls_ = IF sls = {} THEN t.fl_bitmap \ {m.fl} ELSE t.fl_bitmap \cup {m.fl}
  PROVE  Bits(u)
<1>1. ASSUME NEW fl \in FLs PROVE fl \in u.fl_bitmap <=> u.sl_bitmap[fl] # {}
  <2>1. CASE fl = m.fl BY <2>1 DEF ListChanged
  <2>2. CASE fl # m.fl BY <2>2 DEF ListChanged, Bits
  <2>3. QED BY <2>1, <2>2
<1>2. ASSUME NEW fl \in FLs, NEW sl \in SLs
      PROVE  sl \in u.sl_bitmap[fl] <=> u.blocks[fl][sl] # <<>>
  <2>1. CASE fl = m.fl /\ sl = m.sl
    <3>1. u.blocks[fl][sl] = list /\ u.sl_bitmap[fl] = sls BY <2>1 DEF ListChanged
    <3>2. QED BY <2>1, <3>1
  <2>2. CASE fl = m.fl /\ sl # m.sl
    <3>1. u.blocks[fl][sl] = t.blocks[fl][sl] /\ u.sl_bitmap[fl] = sls BY <2>2 DEF ListChanged
    <3>2. sl \in sls <=> sl \in t.sl_bitmap[fl] BY <2>2
    <3>3. QED BY <3>1, <3>2 DEF Bits
  <2>3. CASE fl # m.fl
    <3>1. u.blocks[fl][sl] = t.blocks[fl][sl] /\ u.sl_bitmap[fl] = t.sl_bitmap[fl]
      BY <2>3 DEF ListChanged
    <3>2. QED BY <3>1 DEF Bits
  <2>4. QED BY <2>1, <2>2, <2>3
<1>3. QED BY <1>1, <1>2 DEF Bits

LEMMA RemoveLists ==
  ASSUME NEW t, NEW F, Listing(t, F), NEW b \in F, NEW m, m = At(t, b)
  PROVE  /\ Listing(remove_free_block(t, b, m), F \ {b})
         /\ remove_free_block(t, b, m).header = t.header
<1> DEFINE old  == t.blocks[m.fl][m.sl]
           list == RemoveAt(old, Position(old, b))
           sls  == IF list = <<>> THEN t.sl_bitmap[m.fl] \ {m.sl} ELSE t.sl_bitmap[m.fl]
           bits == IF sls = {} THEN t.fl_bitmap \ {m.fl} ELSE t.fl_bitmap
           u    == remove_free_block(t, b, m)
           B    == Class(t, F, m.fl, m.sl)
<1>1. m.fl \in FLs /\ m.sl \in SLs /\ b \in B /\ m = [fl |-> m.fl, sl |-> m.sl] BY WhereListed
<1>2. Lists(t) /\ Bits(t) /\ Enumerates(old, B) BY <1>1 DEF Listing
<1>3. Enumerates(list, B \ {b}) BY <1>1, <1>2, EnumerateLess
<1>4. list \in Seq(Nat) BY <1>3 DEF Enumerates
<1>5. u = [t EXCEPT !.blocks[m.fl][m.sl] = list, !.sl_bitmap[m.fl] = sls, !.fl_bitmap = bits]
  BY DEF remove_free_block
<1>6. old # <<>> BY <1>1, <1>2, EnumerateNone
<1>7. m.sl \in t.sl_bitmap[m.fl] /\ m.fl \in t.fl_bitmap BY <1>1, <1>2, <1>6 DEF Bits
<1>8. sls \in SUBSET SLs /\ bits \in SUBSET FLs BY <1>1, <1>2 DEF Lists
<1> HIDE DEF list, sls, bits, u, old
<1>9. Lists(u) /\ ListChanged(t, u, m, list, sls, bits)
  BY <1>1, <1>2, <1>4, <1>5, <1>8 DEF Lists, ListChanged
<1>10. sls = (IF list = <<>> THEN t.sl_bitmap[m.fl] \ {m.sl} ELSE t.sl_bitmap[m.fl] \cup {m.sl})
       /\ bits = (IF sls = {} THEN t.fl_bitmap \ {m.fl} ELSE t.fl_bitmap \cup {m.fl})
  BY <1>7 DEF sls, bits
<1>11. Bits(u) BY <1>1, <1>2, <1>9, <1>10, ChangedBits
<1>12. u.header = t.header BY <1>9 DEF ListChanged
<1>13. \A c : Size(u, c) = Size(t, c) /\ At(u, c) = At(t, c) BY <1>12 DEF Size, At
<1>14. ASSUME NEW fl \in FLs, NEW sl \in SLs
       PROVE  Enumerates(u.blocks[fl][sl], Class(u, F \ {b}, fl, sl))
  <2>1. CASE fl = m.fl /\ sl = m.sl
    <3>1. u.blocks[fl][sl] = list BY <1>9, <2>1 DEF ListChanged
    <3>2. Class(u, F \ {b}, fl, sl) = B \ {b} BY <1>13, <2>1 DEF Class
    <3>3. QED BY <1>3, <3>1, <3>2
  <2>2. CASE ~(fl = m.fl /\ sl = m.sl)
    <3>1. u.blocks[fl][sl] = t.blocks[fl][sl] BY <1>9, <2>2 DEF ListChanged
    <3>2. At(t, b) # [fl |-> fl, sl |-> sl] BY <1>1, <2>2
    <3>3. Class(u, F \ {b}, fl, sl) = Class(t, F, fl, sl) BY <1>13, <3>2 DEF Class
    <3>4. QED BY <3>1, <3>3 DEF Listing
  <2>3. QED BY <2>1, <2>2
<1>15. Listing(u, F \ {b}) BY <1>9, <1>11, <1>13, <1>14 DEF Listing
<1>16. QED BY <1>12, <1>15 DEF u

LEMMA InsertLists ==
  ASSUME NEW t, NEW F, Listing(t, F), NEW b \in Nat, b \notin F,
         Size(t, b) \in Nat, Size(t, b) < block_size_max
  PROVE  /\ Listing(block_insert(t, b), F \cup {b})
         /\ block_insert(t, b).header = t.header
<1> DEFINE m    == At(t, b)
           old  == t.blocks[m.fl][m.sl]
           list == <<b>> \o old
           sls  == t.sl_bitmap[m.fl] \cup {m.sl}
           bits == t.fl_bitmap \cup {m.fl}
           u    == block_insert(t, b)
           B    == Class(t, F, m.fl, m.sl)
<1>1. m.fl \in FLs /\ m.sl \in SLs /\ m = [fl |-> m.fl, sl |-> m.sl] BY InsertIndex DEF At
<1>2. Lists(t) /\ Bits(t) /\ Enumerates(old, B) BY <1>1 DEF Listing
<1>3. Enumerates(list, B \cup {b}) /\ list # <<>> BY <1>2, EnumerateMore DEF Class
<1>4. list \in Seq(Nat) BY <1>3 DEF Enumerates
<1>5. u = [t EXCEPT !.blocks[m.fl][m.sl] = list, !.sl_bitmap[m.fl] = sls, !.fl_bitmap = bits]
  BY DEF block_insert, At
<1>6. sls \in SUBSET SLs /\ bits \in SUBSET FLs BY <1>1, <1>2 DEF Lists
<1>7. sls # {} OBVIOUS
<1> HIDE DEF m, list, sls, bits, u, old
<1>8. Lists(u) /\ ListChanged(t, u, m, list, sls, bits)
  BY <1>1, <1>2, <1>4, <1>5, <1>6 DEF Lists, ListChanged
<1>9. sls = (IF list = <<>> THEN t.sl_bitmap[m.fl] \ {m.sl} ELSE t.sl_bitmap[m.fl] \cup {m.sl})
      /\ bits = (IF sls = {} THEN t.fl_bitmap \ {m.fl} ELSE t.fl_bitmap \cup {m.fl})
  BY <1>3, <1>7 DEF sls, bits
<1>10. Bits(u) BY <1>1, <1>2, <1>8, <1>9, ChangedBits
<1>11. u.header = t.header BY <1>8 DEF ListChanged
<1>12. \A c : Size(u, c) = Size(t, c) /\ At(u, c) = At(t, c) BY <1>11 DEF Size, At
<1>13. ASSUME NEW fl \in FLs, NEW sl \in SLs
       PROVE  Enumerates(u.blocks[fl][sl], Class(u, F \cup {b}, fl, sl))
  <2>1. CASE fl = m.fl /\ sl = m.sl
    <3>1. u.blocks[fl][sl] = list BY <1>8, <2>1 DEF ListChanged
    <3>2. At(t, b) = [fl |-> fl, sl |-> sl] BY <1>1, <2>1 DEF m
    <3>3. Class(u, F \cup {b}, fl, sl) = B \cup {b} BY <1>12, <2>1, <3>2 DEF Class
    <3>4. QED BY <1>3, <3>1, <3>3
  <2>2. CASE ~(fl = m.fl /\ sl = m.sl)
    <3>1. u.blocks[fl][sl] = t.blocks[fl][sl] BY <1>8, <2>2 DEF ListChanged
    <3>2. At(t, b) # [fl |-> fl, sl |-> sl] BY <1>1, <2>2 DEF m
    <3>3. Class(u, F \cup {b}, fl, sl) = Class(t, F, fl, sl) BY <1>12, <3>2 DEF Class
    <3>4. QED BY <3>1, <3>3 DEF Listing
  <2>3. QED BY <2>1, <2>2
<1>14. \A c \in F \cup {b} : Size(u, c) \in Nat /\ Size(u, c) < block_size_max
  BY <1>12 DEF Listing
<1>15. F \cup {b} \subseteq Nat BY DEF Listing
<1>16. Listing(u, F \cup {b}) BY <1>8, <1>10, <1>13, <1>14, <1>15 DEF Listing
<1>17. QED BY <1>11, <1>16 DEF u

-----------------------------------------------------------------------------
(* The allocator between the steps of a call: Y is the free blocks that    *)
(* are in no list yet, and X as in Coalesced.                              *)

Sound(t, P, X, Y) == /\ Chain(t.header, P) /\ Coalesced(t.header, X)
                     /\ Y \subseteq FreeOf(t.header)
                     /\ Listing(t, FreeOf(t.header) \ Y)

LEMMA SizeBounds ==
  ASSUME NEW H, NEW P, Chain(H, P), NEW b \in DOMAIN H, H[b].size # 0
  PROVE  /\ H[b].size \in Nat /\ H[b].size >= 3 /\ H[b].size < block_size_max
         /\ b \in Nat /\ After(H, b) \in DOMAIN H /\ After(H, b) \in Nat
<1>1. Headers(H) /\ Pools(P) /\ Next2(H, b) BY DEF Chain
<1>2. b \in Nat /\ H[b].size \in Nat /\ After(H, b) \in Nat BY <1>1, Fields
<1>3. PICK p \in P : Within(H, p, b) BY DEF Chain
<1>4. p.first \in Nat /\ p.last \in Nat /\ p.last - p.first - 1 < block_size_max
  BY <1>1 DEF Pools
<1>5. p.first <= b /\ b + H[b].size + 1 <= p.last BY <1>3 DEF Within, After
<1>6. QED BY <1>1, <1>2, <1>4, <1>5, Indexes DEF Next2

LEMMA FreeSizes ==
  ASSUME NEW H, NEW P, Chain(H, P), NEW b \in FreeOf(H)
  PROVE  /\ b \in DOMAIN H /\ b \in Nat /\ H[b].free /\ H[b].size # 0
         /\ H[b].size \in Nat /\ H[b].size >= 3 /\ H[b].size < block_size_max
<1>1. b \in DOMAIN H /\ H[b].free /\ H[b].size # 0 BY DEF FreeOf, Chain, Sized
<1>2. QED BY <1>1, SizeBounds

LEMMA SoundRemove ==
  ASSUME NEW t, NEW P, NEW X, NEW Y, Sound(t, P, X, Y), NEW b \in FreeOf(t.header) \ Y,
         NEW m, m = At(t, b)
  PROVE  /\ Sound(remove_free_block(t, b, m), P, X, Y \cup {b})
         /\ remove_free_block(t, b, m).header = t.header
<1> DEFINE u == remove_free_block(t, b, m)
           F == FreeOf(t.header) \ Y
<1>1. Listing(t, F) BY DEF Sound
<1>2. Listing(u, F \ {b}) /\ u.header = t.header BY <1>1, RemoveLists
<1>3. F \ {b} = FreeOf(u.header) \ (Y \cup {b}) BY <1>2
<1> HIDE DEF u, F
<1>4. Sound(u, P, X, Y \cup {b}) BY <1>2, <1>3 DEF Sound
<1>5. QED BY <1>2, <1>4 DEF u

LEMMA SoundInsert ==
  ASSUME NEW t, NEW P, NEW X, NEW Y, Sound(t, P, X, Y), NEW b \in Y
  PROVE  /\ Sound(block_insert(t, b), P, X, Y \ {b})
         /\ block_insert(t, b).header = t.header
<1> DEFINE u == block_insert(t, b)
           F == FreeOf(t.header) \ Y
<1>1. Listing(t, F) /\ Chain(t.header, P) /\ Y \subseteq FreeOf(t.header) BY DEF Sound
<1>2. b \in Nat /\ Size(t, b) \in Nat /\ Size(t, b) < block_size_max BY <1>1, FreeSizes DEF Size
<1>3. Listing(u, F \cup {b}) /\ u.header = t.header BY <1>1, <1>2, InsertLists
<1>4. F \cup {b} = FreeOf(u.header) \ (Y \ {b}) BY <1>1, <1>3
<1> HIDE DEF u, F
<1>5. Sound(u, P, X, Y \ {b}) BY <1>1, <1>3, <1>4 DEF Sound
<1>6. QED BY <1>3, <1>5 DEF u

(* Only headers change, and become G.                                      *)
Reheaded(t, u, G) == /\ Lists(u) /\ u.header = G
                     /\ u.fl_bitmap = t.fl_bitmap /\ u.sl_bitmap = t.sl_bitmap
                     /\ u.blocks = t.blocks

LEMMA Rehead ==
  ASSUME NEW t, Lists(t), NEW G
  PROVE  Reheaded(t, [t EXCEPT !.header = G], G)
BY DEF Lists, Reheaded

LEMMA ReheadTwice ==
  ASSUME NEW t, Lists(t), NEW G, NEW K, NEW u, u = [t EXCEPT !.header = G]
  PROVE  u.header = G /\ [u EXCEPT !.header = K] = [t EXCEPT !.header = K]
BY DEF Lists

LEMMA Reheads ==
  ASSUME NEW t, NEW u, NEW v, NEW G, NEW K, Reheaded(t, u, G), Reheaded(u, v, K)
  PROVE  Reheaded(t, v, K)
BY DEF Reheaded

SameListed(t, u, G, Q, Y, Z, W) ==
  /\ Reheaded(t, u, G)
  /\ Chain(G, Q) /\ Coalesced(G, Z) /\ W \subseteq FreeOf(G)
  /\ FreeOf(G) \ W = FreeOf(t.header) \ Y
  /\ \A b \in FreeOf(G) \ W : G[b].size = t.header[b].size

LEMMA SoundReheaded ==
  ASSUME NEW t, NEW P, NEW X, NEW Y, Sound(t, P, X, Y),
         NEW u, NEW G, NEW Q, NEW Z, NEW W, SameListed(t, u, G, Q, Y, Z, W)
  PROVE  Sound(u, Q, Z, W)
<1> DEFINE F == FreeOf(t.header) \ Y
<1>0. /\ Reheaded(t, u, G)
      /\ Chain(G, Q) /\ Coalesced(G, Z) /\ W \subseteq FreeOf(G)
      /\ FreeOf(G) \ W = FreeOf(t.header) \ Y
      /\ \A b \in FreeOf(G) \ W : G[b].size = t.header[b].size
  BY DEF SameListed
<1>1. Listing(t, F) BY DEF Sound
<1>2. \A b \in F : Size(u, b) = Size(t, b) BY <1>0 DEF Reheaded, Size
<1>3. Listing(u, F) BY <1>0, <1>1, <1>2, ListingKept DEF Reheaded
<1>4. u.header = G BY <1>0 DEF Reheaded
<1>5. QED BY <1>0, <1>3, <1>4 DEF Sound

LEMMA PatchPhys ==
  ASSUME NEW h \in HeaderType, NEW a \in Int
  PROVE  /\ [h EXCEPT !.prev_phys = a] = [size |-> h.size, free |-> h.free,
                                         prev_free |-> h.prev_free, prev_phys |-> a]
         /\ [h EXCEPT !.prev_phys = a] \in HeaderType
BY DEF HeaderType

LEMMA PatchFree ==
  ASSUME NEW h \in HeaderType, NEW b \in BOOLEAN
  PROVE  /\ [h EXCEPT !.free = b] = [size |-> h.size, free |-> b,
                                    prev_free |-> h.prev_free, prev_phys |-> h.prev_phys]
         /\ [h EXCEPT !.free = b] \in HeaderType
BY DEF HeaderType

LEMMA PatchPrev ==
  ASSUME NEW h \in HeaderType, NEW b \in BOOLEAN
  PROVE  /\ [h EXCEPT !.prev_free = b] = [size |-> h.size, free |-> h.free,
                                         prev_free |-> b, prev_phys |-> h.prev_phys]
         /\ [h EXCEPT !.prev_free = b] \in HeaderType
BY DEF HeaderType

LEMMA Replaces ==
  ASSUME NEW D, NEW A \in [D -> HeaderType], NEW x \in D, NEW h \in HeaderType
  PROVE  /\ [A EXCEPT ![x] = h] \in [D -> HeaderType] /\ [A EXCEPT ![x] = h][x] = h
         /\ \A c \in D \ {x} : [A EXCEPT ![x] = h][c] = A[c]
OBVIOUS

LEMMA SplitHeaders ==
  ASSUME NEW t, Lists(t), NEW P, Chain(t.header, P), NEW b \in FreeOf(t.header),
         NEW size \in Nat, size >= 3, t.header[b].size >= size + 4,
         NEW u, u = block_link_next(block_split(t, b, size, TRUE), b)
  PROVE  /\ Reheaded(t, u, u.header) /\ Headers(u.header)
         /\ Trimmed(t.header, u.header, b, b + size + 1, After(t.header, b), size)
<1> DEFINE H    == t.header
           r    == b + size + 1
           n    == After(H, b)
           s    == H[b].size
           rest == [size |-> s - size - 1, free |-> FALSE, prev_free |-> TRUE, prev_phys |-> Garbage]
           A    == With([H EXCEPT ![b].size = size], r, rest)
           cut  == [t EXCEPT !.header = A]
           B    == [A EXCEPT ![n].prev_phys = r]
           C    == [B EXCEPT ![n].prev_free = TRUE, ![r].free = TRUE]
           two  == [t EXCEPT !.header = C]
           G    == [C EXCEPT ![r].prev_phys = b]
<1>0. b \in DOMAIN H /\ H[b].free /\ Headers(H) BY DEF FreeOf, Chain
<1>1. /\ r \in Nat /\ r \notin DOMAIN H /\ n \in DOMAIN H /\ b < r /\ r < n /\ n \in Nat
      /\ b \in Nat /\ s \in Nat /\ n = b + s + 1
  <2>1. /\ b + size + 1 \in Nat /\ b + size + 1 \notin DOMAIN H
        /\ After(H, b) \in DOMAIN H /\ b < b + size + 1 /\ b + size + 1 < After(H, b)
        /\ H[b].size \in Nat
    BY <1>0, TrimPlaces
  <2>2. b \in Nat /\ After(H, b) \in Nat BY <1>0, <2>1, Fields
  <2>3. QED BY <2>1, <2>2 DEF After
<1>2. Remaining(b, size) = r
  BY <1>1 DEF Remaining, NextAfter, block_to_ptr, block_start_offset, block_header_overhead
<1>3. block_split(t, b, size, TRUE) = block_mark_as_free(cut, r)
  BY <1>2 DEF block_split, Size, block_header_overhead
<1>4. H \in [DOMAIN H -> HeaderType] BY <1>0 DEF Headers
<1>5. rest \in HeaderType BY <1>1 DEF HeaderType, Garbage
<1> HIDE DEF rest
<1>6. /\ A \in [DOMAIN H \cup {r} -> HeaderType]
      /\ A[b] = [H[b] EXCEPT !.size = size] /\ A[r] = rest
      /\ \A c \in DOMAIN H \ {b} : A[c] = H[c]
  <2>1. [H EXCEPT ![b].size = size] \in [DOMAIN H -> HeaderType] BY <1>0, <1>4 DEF HeaderType
  <2>2. QED BY <1>0, <1>1, <1>4, <1>5, <2>1 DEF With
<1> HIDE DEF A
<1>7. Lists(cut) /\ cut.header = A BY Rehead DEF Reheaded
<1>8. A[r].size = s - size - 1 BY <1>6 DEF rest
<1>9. block_next(cut, r) = n
  BY <1>1, <1>7, <1>8 DEF block_next, Size, NextAfter, block_to_ptr, block_start_offset, block_header_overhead
<1>10. block_mark_as_free(cut, r) = two
  <2>1. block_link_next(cut, r) = [t EXCEPT !.header = B]
    BY <1>9 DEF block_link_next, Lists
  <2>2. [[t EXCEPT !.header = B] EXCEPT !.header[n].prev_free = TRUE, !.header[r].free = TRUE]
        = [t EXCEPT !.header = C]
    <3> DEFINE w == [t EXCEPT !.header = B]
    <3> HIDE DEF B
    <3>1. w.header = B /\ [w EXCEPT !.header = C] = [t EXCEPT !.header = C]
      <4> HIDE DEF C
      <4>1. QED BY ReheadTwice
    <3> HIDE DEF w, B, A
    <3>2. [w EXCEPT !.header[n].prev_free = TRUE, !.header[r].free = TRUE] = [w EXCEPT !.header = C]
      BY <3>1
    <3>3. QED BY <3>1, <3>2 DEF w
  <2>3. QED BY <1>9, <2>1, <2>2 DEF block_mark_as_free
<1>11. /\ B \in [DOMAIN H \cup {r} -> HeaderType] /\ B[n] = [A[n] EXCEPT !.prev_phys = r]
       /\ \A c \in (DOMAIN H \cup {r}) \ {n} : B[c] = A[c]
  <2>1. A[n] \in HeaderType /\ r \in Int /\ n \in DOMAIN H \cup {r} BY <1>1, <1>6
  <2>2. [A[n] EXCEPT !.prev_phys = r] \in HeaderType BY <2>1, PatchPhys
  <2>3. B = [A EXCEPT ![n] = [A[n] EXCEPT !.prev_phys = r]] OBVIOUS
  <2> HIDE DEF B
  <2>4. QED BY <1>6, <2>1, <2>2, <2>3, Replaces
<1> HIDE DEF B
<1>12. /\ C \in [DOMAIN H \cup {r} -> HeaderType] /\ C[n] = [B[n] EXCEPT !.prev_free = TRUE]
       /\ C[r] = [B[r] EXCEPT !.free = TRUE]
       /\ \A c \in (DOMAIN H \cup {r}) \ {n, r} : C[c] = B[c]
  <2> DEFINE hn == [B[n] EXCEPT !.prev_free = TRUE]
             hr == [B[r] EXCEPT !.free = TRUE]
             K  == [B EXCEPT ![n] = hn]
  <2>1. n \in DOMAIN H \cup {r} /\ r \in DOMAIN H \cup {r} /\ n # r BY <1>1
  <2>2. B[n] \in HeaderType /\ B[r] \in HeaderType BY <1>11, <2>1
  <2>3. hn \in HeaderType /\ hr \in HeaderType BY <2>2, PatchPrev, PatchFree
  <2>4. C = [K EXCEPT ![r] = [K[r] EXCEPT !.free = TRUE]] OBVIOUS
  <2> HIDE DEF C
  <2>5. K \in [DOMAIN H \cup {r} -> HeaderType] /\ K[n] = hn
        /\ \A c \in (DOMAIN H \cup {r}) \ {n} : K[c] = B[c]
    <3> HIDE DEF hn
    <3>1. QED BY <1>11, <2>1, <2>3, Replaces
  <2> HIDE DEF K
  <2>6. C = [K EXCEPT ![r] = hr] BY <2>1, <2>4, <2>5
  <2> HIDE DEF hn, hr
  <2>7. C \in [DOMAIN H \cup {r} -> HeaderType] /\ C[r] = hr
        /\ \A c \in (DOMAIN H \cup {r}) \ {r} : C[c] = K[c]
    BY <2>1, <2>3, <2>5, <2>6, Replaces
  <2>8. C[n] = hn BY <2>1, <2>5, <2>7
  <2>9. \A c \in (DOMAIN H \cup {r}) \ {n, r} : C[c] = B[c] BY <2>5, <2>7
  <2>10. QED BY <2>7, <2>8, <2>9 DEF hn, hr
<1> HIDE DEF C
<1>13. two.header = C /\ Lists(two) BY Rehead DEF Reheaded
<1>14. block_next(two, b) = r
  <2>1. C[b].size = size BY <1>0, <1>1, <1>6, <1>11, <1>12 DEF HeaderType
  <2>2. QED BY <1>1, <1>13, <2>1
           DEF block_next, Size, NextAfter, block_to_ptr, block_start_offset, block_header_overhead
<1>15. u = [t EXCEPT !.header = G]
  BY <1>3, <1>10, <1>14 DEF block_link_next, Lists
<1>16. /\ G \in [DOMAIN H \cup {r} -> HeaderType] /\ G[r] = [C[r] EXCEPT !.prev_phys = b]
       /\ \A c \in (DOMAIN H \cup {r}) \ {r} : G[c] = C[c]
  <2>1. C[r] \in HeaderType /\ b \in Int /\ r \in DOMAIN H \cup {r} BY <1>1, <1>12
  <2>2. [C[r] EXCEPT !.prev_phys = b] \in HeaderType BY <2>1, PatchPhys
  <2>3. G = [C EXCEPT ![r] = [C[r] EXCEPT !.prev_phys = b]] OBVIOUS
  <2> HIDE DEF G
  <2>4. QED BY <1>12, <2>1, <2>2, <2>3, Replaces
<1> HIDE DEF G
<1>17. Reheaded(t, u, G) /\ u.header = G
  <2>1. Reheaded(t, [t EXCEPT !.header = G], G) BY Rehead
  <2>2. Reheaded(t, u, G) BY <1>15, <2>1
  <2>3. QED BY <2>2 DEF Reheaded
<1>18. Headers(G)
  <2>1. IsFiniteSet(DOMAIN H \cup {r}) BY <1>0, FS_AddElement DEF Headers
  <2>2. DOMAIN G = DOMAIN H \cup {r} BY <1>16
  <2>3. QED BY <1>0, <1>1, <1>16, <2>1, <2>2 DEF Headers
<1>19. G[r] = [size |-> s - size - 1, free |-> TRUE, prev_free |-> TRUE, prev_phys |-> b]
  <2>1. B[r] = rest /\ rest \in HeaderType BY <1>1, <1>5, <1>6, <1>11
  <2>2. C[r] = [size |-> rest.size, free |-> TRUE, prev_free |-> rest.prev_free, prev_phys |-> rest.prev_phys]
    BY <1>12, <2>1, PatchFree
  <2>3. C[r] \in HeaderType /\ b \in Int BY <1>1, <1>12
  <2>4. G[r] = [size |-> C[r].size, free |-> C[r].free, prev_free |-> C[r].prev_free, prev_phys |-> b]
    BY <1>16, <2>3, PatchPhys
  <2>5. QED BY <2>2, <2>4 DEF rest
<1>20. G[n] = [size |-> H[n].size, free |-> H[n].free, prev_free |-> TRUE, prev_phys |-> r]
  <2>1. A[n] = H[n] /\ H[n] \in HeaderType /\ r \in Int BY <1>1, <1>4, <1>6
  <2>2. B[n] = [size |-> H[n].size, free |-> H[n].free, prev_free |-> H[n].prev_free, prev_phys |-> r]
    BY <1>11, <2>1, PatchPhys
  <2>3. B[n] \in HeaderType BY <1>1, <1>11
  <2>4. C[n] = [size |-> B[n].size, free |-> B[n].free, prev_free |-> TRUE, prev_phys |-> B[n].prev_phys]
    BY <1>12, <2>3, PatchPrev
  <2>5. G[n] = C[n] BY <1>1, <1>16
  <2>6. QED BY <2>2, <2>4, <2>5
<1>21. G[b] = [size |-> size, free |-> H[b].free, prev_free |-> H[b].prev_free, prev_phys |-> H[b].prev_phys]
  <2>1. H[b] \in HeaderType BY <1>0, <1>4
  <2>2. [H[b] EXCEPT !.size = size] = [size |-> size, free |-> H[b].free, prev_free |-> H[b].prev_free, prev_phys |-> H[b].prev_phys]
    BY <2>1 DEF HeaderType
  <2>3. G[b] = A[b] BY <1>0, <1>1, <1>11, <1>12, <1>16
  <2>4. QED BY <1>6, <2>2, <2>3
<1>22. \A c \in DOMAIN H \ {b, n} : G[c] = H[c] BY <1>1, <1>6, <1>11, <1>12, <1>16
<1>23. Trimmed(H, G, b, r, n, size) BY <1>16, <1>19, <1>20, <1>21, <1>22 DEF Trimmed
<1>24. QED BY <1>17, <1>18, <1>23

LEMMA NextIs ==
  ASSUME NEW t, Headers(t.header), NEW b \in DOMAIN t.header
  PROVE  block_next(t, b) = After(t.header, b)
<1>1. b \in Nat /\ t.header[b].size \in Nat BY Fields
<1>2. QED BY <1>1
         DEF block_next, Size, NextAfter, block_to_ptr, block_start_offset, block_header_overhead, After

LEMMA SameDomain ==
  ASSUME NEW H, Headers(H), NEW G \in [DOMAIN H -> HeaderType]
  PROVE  Headers(G)
BY DEF Headers

MarkedBy(H, K, G, b, n, free, prev_phys) ==
  /\ \/ K = [H EXCEPT ![n] = [[H[n] EXCEPT !.prev_phys = prev_phys] EXCEPT !.prev_free = free]]
     \/ K = [H EXCEPT ![n] = [[H[n] EXCEPT !.prev_free = free] EXCEPT !.prev_phys = prev_phys]]
  /\ G = [K EXCEPT ![b] = [K[b] EXCEPT !.free = free]]

LEMMA MarkHeader ==
  ASSUME NEW H, Headers(H), NEW b \in DOMAIN H, NEW n \in DOMAIN H, b # n,
         NEW free \in BOOLEAN, NEW prev_phys \in Int,
         NEW K, NEW G, MarkedBy(H, K, G, b, n, free, prev_phys)
  PROVE  Headers(G) /\ Marked(H, G, b, n, free, prev_phys)
<1> DEFINE D == DOMAIN H
           h == [size |-> H[n].size, free |-> H[n].free, prev_free |-> free, prev_phys |-> prev_phys]
           g == [size |-> H[b].size, free |-> free, prev_free |-> H[b].prev_free, prev_phys |-> H[b].prev_phys]
<1>1. H \in [D -> HeaderType] /\ H[n] \in HeaderType /\ H[b] \in HeaderType BY DEF Headers
<1>2. [[H[n] EXCEPT !.prev_phys = prev_phys] EXCEPT !.prev_free = free] = h
      /\ [[H[n] EXCEPT !.prev_free = free] EXCEPT !.prev_phys = prev_phys] = h /\ h \in HeaderType
  <2> DEFINE a == [H[n] EXCEPT !.prev_phys = prev_phys]
             c == [H[n] EXCEPT !.prev_free = free]
  <2>1. a = [size |-> H[n].size, free |-> H[n].free, prev_free |-> H[n].prev_free,
             prev_phys |-> prev_phys] /\ a \in HeaderType
    BY <1>1, PatchPhys
  <2>2. c = [size |-> H[n].size, free |-> H[n].free, prev_free |-> free,
             prev_phys |-> H[n].prev_phys] /\ c \in HeaderType
    BY <1>1, PatchPrev
  <2> HIDE DEF a, c
  <2>3. [a EXCEPT !.prev_free = free] = h BY <2>1, PatchPrev
  <2>4. [c EXCEPT !.prev_phys = prev_phys] = h BY <2>2, PatchPhys
  <2>5. h \in HeaderType BY <1>1 DEF HeaderType
  <2>6. QED BY <2>3, <2>4, <2>5 DEF a, c
<1> HIDE DEF h
<1>0. G = [K EXCEPT ![b] = [K[b] EXCEPT !.free = free]] BY DEF MarkedBy
<1>3. K = [H EXCEPT ![n] = h] BY <1>2 DEF MarkedBy
<1>4. K \in [D -> HeaderType] /\ K[n] = h /\ \A c \in D \ {n} : K[c] = H[c]
  BY <1>1, <1>2, <1>3, Replaces
<1>5. K[b] = H[b] BY <1>4
<1>6. [K[b] EXCEPT !.free = free] = g /\ g \in HeaderType BY <1>1, <1>5 DEF HeaderType
<1> HIDE DEF g
<1>7. G = [K EXCEPT ![b] = g] BY <1>0, <1>6
<1>8. G \in [D -> HeaderType] /\ G[b] = g /\ \A c \in D \ {b} : G[c] = K[c]
  BY <1>4, <1>6, <1>7, Replaces
<1>9. Headers(G) BY <1>8, SameDomain
<1>10. Marked(H, G, b, n, free, prev_phys) BY <1>4, <1>8 DEF Marked, h, g
<1>11. QED BY <1>9, <1>10

LEMMA UsedHeaders ==
  ASSUME NEW t, Lists(t), Headers(t.header), NEW b \in DOMAIN t.header,
         NEW n, n = After(t.header, b), n \in DOMAIN t.header
  PROVE  \E G : /\ Reheaded(t, block_mark_as_used(t, b), G) /\ Headers(G)
                /\ Marked(t.header, G, b, n, FALSE, Garbage)
<1> DEFINE H == t.header
           K == [H EXCEPT ![n] = [[H[n] EXCEPT !.prev_free = FALSE] EXCEPT !.prev_phys = Garbage]]
           G == [K EXCEPT ![b] = [K[b] EXCEPT !.free = FALSE]]
<1>1. block_next(t, b) = n BY NextIs
<1>2. b # n
  <2>1. b \in Nat /\ b < After(H, b) BY Fields
  <2>2. QED BY <2>1
<1>3. block_mark_as_used(t, b) = [t EXCEPT !.header[n].prev_free = FALSE, !.header[n].prev_phys = Garbage,
                                           !.header[b].free = FALSE]
  BY <1>1 DEF block_mark_as_used
<1>4. [t EXCEPT !.header[n].prev_free = FALSE, !.header[n].prev_phys = Garbage, !.header[b].free = FALSE]
      = [t EXCEPT !.header = [H EXCEPT ![n].prev_free = FALSE, ![n].prev_phys = Garbage, ![b].free = FALSE]]
  BY DEF Lists
<1>5. [H EXCEPT ![n].prev_free = FALSE, ![n].prev_phys = Garbage, ![b].free = FALSE] = G
  <2> HIDE DEF H
  <2>1. [H EXCEPT ![n].prev_free = FALSE, ![n].prev_phys = Garbage] = K OBVIOUS
  <2>2. QED BY <2>1
<1>6. block_mark_as_used(t, b) = [t EXCEPT !.header = G] BY <1>3, <1>4, <1>5
<1>7. Garbage \in Int BY DEF Garbage
<1> HIDE DEF G
<1>8. Headers(G) /\ Marked(H, G, b, n, FALSE, Garbage)
  <2> HIDE DEF H, K
  <2>1. Headers(H) /\ b \in DOMAIN H /\ n \in DOMAIN H BY DEF H
  <2>2. K = [H EXCEPT ![n] = [[H[n] EXCEPT !.prev_free = FALSE] EXCEPT !.prev_phys = Garbage]] BY DEF K
  <2>3. G = [K EXCEPT ![b] = [K[b] EXCEPT !.free = FALSE]] BY DEF G
  <2>4. MarkedBy(H, K, G, b, n, FALSE, Garbage) BY <2>2, <2>3 DEF MarkedBy
  <2>5. QED BY <1>2, <1>7, <2>1, <2>4, MarkHeader
<1>9. Reheaded(t, block_mark_as_used(t, b), G) BY <1>6, Rehead
<1>10. QED BY <1>8, <1>9

LEMMA FreedHeaders ==
  ASSUME NEW t, Lists(t), Headers(t.header), NEW b \in DOMAIN t.header,
         NEW n, n = After(t.header, b), n \in DOMAIN t.header
  PROVE  \E G : /\ Reheaded(t, block_mark_as_free(t, b), G) /\ Headers(G)
                /\ Marked(t.header, G, b, n, TRUE, b)
<1> DEFINE H == t.header
           J == [H EXCEPT ![n].prev_phys = b]
           K == [H EXCEPT ![n] = [[H[n] EXCEPT !.prev_phys = b] EXCEPT !.prev_free = TRUE]]
           G == [K EXCEPT ![b] = [K[b] EXCEPT !.free = TRUE]]
           w == [t EXCEPT !.header = J]
<1>1. block_next(t, b) = n BY NextIs
<1>2. b # n /\ b \in Int
  <2>1. b \in Nat /\ b < After(H, b) BY Fields
  <2>2. QED BY <2>1
<1>3. block_link_next(t, b) = w BY <1>1 DEF block_link_next, Lists
<1>4. block_mark_as_free(t, b) = [w EXCEPT !.header[n].prev_free = TRUE, !.header[b].free = TRUE]
  BY <1>1, <1>3 DEF block_mark_as_free
<1>5. w.header = J /\ \A L : [w EXCEPT !.header = L] = [t EXCEPT !.header = L]
  <2> HIDE DEF J
  <2>1. QED BY ReheadTwice
<1>6. [w EXCEPT !.header[n].prev_free = TRUE, !.header[b].free = TRUE]
      = [w EXCEPT !.header = [J EXCEPT ![n].prev_free = TRUE, ![b].free = TRUE]]
  <2>1. w.header = J BY <1>5
  <2> HIDE DEF w, J
  <2>2. QED BY <2>1
<1>7. [J EXCEPT ![n].prev_free = TRUE, ![b].free = TRUE] = G
  <2> HIDE DEF H
  <2>1. [J EXCEPT ![n].prev_free = TRUE] = K OBVIOUS
  <2>2. QED BY <2>1
<1>8. block_mark_as_free(t, b) = [t EXCEPT !.header = G]
  <2> HIDE DEF w, J, G
  <2>1. QED BY <1>4, <1>5, <1>6, <1>7
<1> HIDE DEF G
<1>9. Headers(G) /\ Marked(H, G, b, n, TRUE, b)
  <2> HIDE DEF H, K
  <2>1. Headers(H) /\ b \in DOMAIN H /\ n \in DOMAIN H BY DEF H
  <2>2. K = [H EXCEPT ![n] = [[H[n] EXCEPT !.prev_phys = b] EXCEPT !.prev_free = TRUE]] BY DEF K
  <2>3. G = [K EXCEPT ![b] = [K[b] EXCEPT !.free = TRUE]] BY DEF G
  <2>4. MarkedBy(H, K, G, b, n, TRUE, b) BY <2>2, <2>3 DEF MarkedBy
  <2>5. QED BY <1>2, <2>1, <2>4, MarkHeader
<1>10. Reheaded(t, block_mark_as_free(t, b), G) BY <1>8, Rehead
<1>11. QED BY <1>9, <1>10

LEMMA AbsorbHeaders ==
  ASSUME NEW t, Lists(t), Headers(t.header), NEW b \in DOMAIN t.header, NEW c \in DOMAIN t.header,
         c = After(t.header, b), NEW n, n = After(t.header, c), n \in DOMAIN t.header
  PROVE  \E G : /\ Reheaded(t, block_absorb(t, b, c), G) /\ Headers(G)
                /\ Absorbed(t.header, G, b, c, n)
<1> DEFINE H == t.header
           D == DOMAIN H \ {c}
           kept == [d \in D |-> H[d]]
           size == H[b].size + H[c].size + 1
           J == [kept EXCEPT ![b].size = size]
           G == [J EXCEPT ![n].prev_phys = b]
           w == [t EXCEPT !.header = J]
           h == [size |-> size, free |-> H[b].free, prev_free |-> H[b].prev_free, prev_phys |-> H[b].prev_phys]
           g == [size |-> H[n].size, free |-> H[n].free, prev_free |-> H[n].prev_free, prev_phys |-> b]
<1>1. /\ b \in Nat /\ c \in Nat /\ n \in Nat /\ b < c /\ c < n /\ b \in D /\ n \in D
      /\ H[b].size \in Nat /\ H[c].size \in Nat /\ size \in Nat /\ n = b + size + 1
  <2>1. /\ b \in Nat /\ c \in Nat /\ n \in Nat /\ b < c /\ c < n
        /\ H[b].size \in Nat /\ H[c].size \in Nat
    BY Fields
  <2>2. n = b + size + 1 BY <2>1 DEF After
  <2>3. QED BY <2>1, <2>2
<1>2. H[b] \in HeaderType /\ H[n] \in HeaderType BY Fields
<1>3. h \in HeaderType /\ g \in HeaderType /\ [H[b] EXCEPT !.size = size] = h
      /\ [H[n] EXCEPT !.prev_phys = b] = g
  <2> HIDE DEF size
  <2>1. QED BY <1>1, <1>2 DEF HeaderType
<1>4. kept \in [D -> HeaderType] /\ kept[b] = H[b] /\ kept[b].size + H[c].size + 1 = size
      /\ \A d \in D : kept[d] = H[d]
  BY <1>1 DEF Headers
<1>5. J = [kept EXCEPT ![b] = h] BY <1>1, <1>3, <1>4
<1>6. J \in [D -> HeaderType] /\ J[b] = h /\ \A d \in D \ {b} : J[d] = H[d]
  <2> HIDE DEF J, kept, h, D
  <2>1. QED BY <1>1, <1>3, <1>4, <1>5, Replaces
<1>7. block_absorb(t, b, c) = block_link_next(w, b)
  <2>1. [kept EXCEPT ![b].size = kept[b].size + H[c].size + 1] = J BY <1>4
  <2>2. block_absorb(t, b, c)
        = block_link_next([t EXCEPT !.header = [kept EXCEPT ![b].size = kept[b].size + H[c].size + 1]], b)
    BY DEF block_absorb, Size, block_header_overhead
  <2>3. QED BY <2>1, <2>2
<1> HIDE DEF kept
<1>8. w.header = J /\ \A L : [w EXCEPT !.header = L] = [t EXCEPT !.header = L]
  <2> HIDE DEF J
  <2>1. QED BY ReheadTwice
<1>9. block_next(w, b) = n
  <2>1. J[b].size = size BY <1>6
  <2> HIDE DEF J, w, size
  <2>2. QED BY <1>1, <1>8, <2>1
           DEF block_next, Size, NextAfter, block_to_ptr, block_start_offset, block_header_overhead
<1>10. block_link_next(w, b) = [t EXCEPT !.header = G]
  <2> HIDE DEF w, J
  <2>1. block_link_next(w, b) = [w EXCEPT !.header[n].prev_phys = b] BY <1>9 DEF block_link_next
  <2>2. [w EXCEPT !.header[n].prev_phys = b] = [w EXCEPT !.header = G] BY <1>8
  <2>3. QED BY <1>8, <2>1, <2>2
<1>11. G \in [D -> HeaderType] /\ G[n] = g /\ \A d \in D \ {n} : G[d] = J[d]
  <2> HIDE DEF J, D
  <2>1. J[n] = H[n] BY <1>1, <1>6
  <2>2. G = [J EXCEPT ![n] = g] BY <1>3, <2>1
  <2> HIDE DEF G, g
  <2>3. J \in [D -> HeaderType] /\ n \in D /\ g \in HeaderType BY <1>1, <1>3, <1>6
  <2>4. /\ [J EXCEPT ![n] = g] \in [D -> HeaderType] /\ [J EXCEPT ![n] = g][n] = g
        /\ \A d \in D \ {n} : [J EXCEPT ![n] = g][d] = J[d]
    BY ONLY <2>3, Replaces
  <2>5. QED BY ONLY <2>2, <2>4
<1> HIDE DEF G, J, w
<1>12. Headers(G)
  <2>1. IsFiniteSet(D) /\ D \subseteq Nat BY FS_Subset DEF Headers
  <2>2. QED BY <1>11, <2>1 DEF Headers
<1>13. Absorbed(H, G, b, c, n) BY <1>1, <1>6, <1>11 DEF Absorbed
<1>14. Reheaded(t, block_absorb(t, b, c), G) BY <1>7, <1>10, Rehead
<1>15. QED BY <1>12, <1>13, <1>14

Cut(t, b, size) == block_link_next(block_split(t, b, size, TRUE), b)

CutHere(t, P, X, Y, b, size, u, r) ==
  /\ Sound(t, P, X, Y) /\ b \in Y /\ size \in Nat /\ size >= 3
  /\ t.header[b].size >= size + 4 /\ u = Cut(t, b, size) /\ r = b + size + 1

IsCut(t, P, X, Y, b, size, u, r) ==
  /\ Sound(u, P, X \cup {r}, Y \cup {r}) /\ \A c : Kept(t.header, u.header, c)
  /\ u.header[b].size = size /\ u.header[r].size = t.header[b].size - size - 1
  /\ r \notin DOMAIN t.header /\ Remaining(b, size) = r /\ r \in Nat

LEMMA SoundTrim ==
  ASSUME NEW t, NEW P, NEW X, NEW Y, NEW b, NEW size, NEW u, NEW r,
         CutHere(t, P, X, Y, b, size, u, r)
  PROVE  IsCut(t, P, X, Y, b, size, u, r)
<1>0. /\ Sound(t, P, X, Y) /\ b \in Y /\ size \in Nat /\ size >= 3
      /\ t.header[b].size >= size + 4 /\ u = Cut(t, b, size) /\ r = b + size + 1
  BY DEF CutHere
<1> DEFINE H == t.header
           n == After(H, b)
           G == u.header
           F == FreeOf(H)
<1>1. Chain(H, P) /\ Coalesced(H, X) /\ Lists(t) /\ b \in FreeOf(H) /\ Y \subseteq F BY <1>0 DEF Sound, Listing
<1>2. b \in DOMAIN H /\ b \in Nat /\ H[b].free BY <1>1, FreeSizes
<1>3. Reheaded(t, u, G) /\ Headers(G) /\ Trimmed(H, G, b, r, n, size) BY <1>0, <1>1, SplitHeaders DEF Cut
<1>4. r \in Nat /\ r \notin DOMAIN H /\ n \in DOMAIN H /\ b < r /\ r < n BY <1>0, <1>1, <1>2, TrimPlaces
<1>5. Chain(G, P) BY <1>0, <1>1, <1>2, <1>3, TrimChain
<1>6. /\ Coalesced(G, X \cup {r}) /\ \A c : Kept(H, G, c)
      /\ FreeOf(G) = F \cup {r}
  <2>1. /\ n = After(H, b) /\ H[b].size >= size + 4 /\ size \in Nat /\ size >= 3
        /\ r = b + size + 1 /\ Trimmed(H, G, b, r, n, size)
    BY <1>0, <1>3
  <2> HIDE DEF H, G, F, n
  <2>2. Coalesced(G, X \cup {r}) /\ (\A c : Kept(H, G, c)) /\ FreeOf(G) = FreeOf(H) \cup {r}
    <3>1. size \in Nat /\ b \in DOMAIN H /\ H[b].free /\ Chain(H, P) /\ Coalesced(H, X)
      BY <1>1, <1>2, <2>1
    <3>2. Trimmed(H, G, b, r, n, size) /\ r = b + size + 1 /\ n = After(H, b) /\ size >= 3
          /\ H[b].size >= size + 4
      BY <2>1
    <3>3. Coalesced(G, X \cup {r}) BY ONLY <3>1, <3>2, TrimKeeps
    <3>4. \A c : Kept(H, G, c) BY ONLY <3>1, <3>2, TrimKeeps
    <3>5. FreeOf(G) = FreeOf(H) \cup {r}
      <4>1. /\ DOMAIN G = DOMAIN H \cup {r} /\ G[r].free /\ G[b].free /\ G[n].free = H[n].free
            /\ \A c \in DOMAIN H \ {b, n} : G[c] = H[c]
        BY <3>1, <3>2 DEF Trimmed
      <4>2. QED BY <3>1, <4>1 DEF FreeOf
    <3>6. QED BY <3>3, <3>4, <3>5
  <2>3. QED BY <2>2 DEF F
<1>7. r \notin F /\ F \subseteq DOMAIN H BY <1>4 DEF FreeOf
<1>8. Y \cup {r} \subseteq FreeOf(G) /\ FreeOf(G) \ (Y \cup {r}) = F \ Y BY <1>1, <1>6, <1>7
<1>9. \A c \in FreeOf(G) \ (Y \cup {r}) : G[c].size = H[c].size
  <2> TAKE c \in FreeOf(G) \ (Y \cup {r})
  <2>1. c \in DOMAIN H /\ c # b BY <1>0, <1>7, <1>8
  <2>5. Trimmed(H, G, b, r, n, size) BY <1>3
  <2> HIDE DEF H, G, F, n
  <2>2. CASE c = n BY <2>2, <2>5 DEF Trimmed
  <2>3. CASE c # n BY <2>1, <2>3, <2>5 DEF Trimmed
  <2>4. QED BY <2>2, <2>3
<1>10. Remaining(b, size) = r
  BY <1>0, <1>2 DEF Remaining, NextAfter, block_to_ptr, block_start_offset, block_header_overhead
<1>11. G[b].size = size /\ G[r].size = H[b].size - size - 1
  <2>1. Trimmed(H, G, b, r, n, size) BY <1>3
  <2> HIDE DEF H, G, F, n
  <2>2. QED BY <2>1 DEF Trimmed
<1> HIDE DEF H, G, F
<1>12. Sound(u, P, X \cup {r}, Y \cup {r})
  <2>1. Reheaded(t, u, G) BY <1>3
  <2>2. FreeOf(G) \ (Y \cup {r}) = FreeOf(t.header) \ Y BY <1>8 DEF H, F
  <2>3. \A c \in FreeOf(G) \ (Y \cup {r}) : G[c].size = t.header[c].size BY <1>9 DEF H
  <2>4. Y \cup {r} \subseteq FreeOf(G) BY <1>8
  <2>5. Coalesced(G, X \cup {r}) BY <1>6
  <2>6. SameListed(t, u, G, P, Y, X \cup {r}, Y \cup {r})
    BY <1>5, <2>1, <2>2, <2>3, <2>4, <2>5 DEF SameListed
  <2>7. Sound(t, P, X, Y) BY <1>0
  <2>8. QED BY ONLY <2>6, <2>7, SoundReheaded
<1>13. QED BY <1>4, <1>6, <1>10, <1>11, <1>12 DEF H, G, IsCut

LEMMA SoundUsed ==
  ASSUME NEW t, NEW P, NEW X, NEW Y, Sound(t, P, X, Y), NEW b \in Y,
         NEW u, u = block_mark_as_used(t, b), NEW n, n = After(t.header, b)
  PROVE  /\ Sound(u, P, X \ {b, n}, Y \ {b}) /\ Kept(t.header, u.header, b)
         /\ b \in DOMAIN u.header /\ ~u.header[b].free /\ u.header[b].size = t.header[b].size
<1> DEFINE H == t.header
           F == FreeOf(H)
<1>1. Chain(H, P) /\ Coalesced(H, X) /\ Lists(t) /\ b \in FreeOf(H) /\ Y \subseteq F BY DEF Sound, Listing
<1>2. b \in DOMAIN H /\ b \in Nat /\ H[b].free /\ H[b].size # 0 BY <1>1, FreeSizes
<1>3. n \in DOMAIN H BY <1>1, <1>2, SizeBounds
<1>4. PICK G : Reheaded(t, u, G) /\ Headers(G) /\ Marked(H, G, b, n, FALSE, Garbage)
  BY <1>1, <1>2, <1>3, UsedHeaders DEF Chain
<1>5. Chain(G, P) BY <1>1, <1>2, <1>4, MarkChain
<1>6. Coalesced(G, X \ {b, n}) /\ Kept(H, G, b) /\ FreeOf(G) = F \ {b}
  BY <1>1, <1>2, <1>4, MarkKeeps
<1>7. b # n BY <1>2, <1>1, Fields DEF Chain
<1>8. Y \ {b} \subseteq FreeOf(G) /\ FreeOf(G) \ (Y \ {b}) = F \ Y BY <1>1, <1>6
<1>9. \A c \in DOMAIN H : G[c].size = H[c].size BY <1>4 DEF Marked
<1>10. \A c \in FreeOf(G) \ (Y \ {b}) : G[c].size = H[c].size BY <1>8, <1>9 DEF FreeOf
<1>11. u.header = G BY <1>4 DEF Reheaded
<1>12. b \in DOMAIN G /\ ~G[b].free BY <1>2, <1>4, <1>7 DEF Marked
<1> HIDE DEF H, F
<1>13. Sound(u, P, X \ {b, n}, Y \ {b})
  <2>1. SameListed(t, u, G, P, Y, X \ {b, n}, Y \ {b}) BY <1>4, <1>5, <1>6, <1>8, <1>10 DEF SameListed, H, F
  <2>2. QED BY <2>1, SoundReheaded
<1>14. QED BY <1>2, <1>6, <1>9, <1>11, <1>12, <1>13 DEF H

IsFreed(t, P, X, Y, b, n, u) ==
  /\ Sound(u, P, X \cup {b, n}, Y \cup {b}) /\ Kept(t.header, u.header, b)
  /\ b \in DOMAIN u.header /\ After(u.header, b) = n /\ b # n

LEMMA SoundFreed ==
  ASSUME NEW t, NEW P, NEW X, NEW Y, Sound(t, P, X, Y),
         NEW b \in DOMAIN t.header, ~t.header[b].free, t.header[b].size # 0,
         NEW u, u = block_mark_as_free(t, b), NEW n, n = After(t.header, b)
  PROVE  IsFreed(t, P, X, Y, b, n, u)
<1> DEFINE H == t.header
           F == FreeOf(H)
<1>1. Chain(H, P) /\ Coalesced(H, X) /\ Lists(t) /\ Y \subseteq F BY DEF Sound, Listing
<1>2. n \in DOMAIN H /\ b \in Nat BY <1>1, SizeBounds
<1>3. TRUE \in BOOLEAN OBVIOUS
<1>4. PICK G : Reheaded(t, u, G) /\ Headers(G) /\ Marked(H, G, b, n, TRUE, b)
  BY <1>1, <1>2, FreedHeaders DEF Chain
<1>5. Chain(G, P) BY <1>1, <1>2, <1>4, MarkChain
<1>6. Coalesced(G, X \cup {b, n}) /\ Kept(H, G, b) /\ FreeOf(G) = F \cup {b}
  BY <1>1, <1>2, <1>4, MarkKeeps
<1>7. b # n BY <1>2, <1>1, Fields DEF Chain
<1>8. b \notin F BY DEF FreeOf
<1>9. Y \cup {b} \subseteq FreeOf(G) /\ FreeOf(G) \ (Y \cup {b}) = F \ Y BY <1>1, <1>6, <1>8
<1>10. \A c \in DOMAIN H : G[c].size = H[c].size BY <1>4 DEF Marked
<1>11. \A c \in FreeOf(G) \ (Y \cup {b}) : G[c].size = H[c].size BY <1>9, <1>10 DEF FreeOf
<1>12. u.header = G BY <1>4 DEF Reheaded
<1>13. b \in DOMAIN G /\ After(G, b) = n BY <1>4, <1>10 DEF Marked, After
<1> HIDE DEF H, F
<1>14. Sound(u, P, X \cup {b, n}, Y \cup {b})
  <2>1. SameListed(t, u, G, P, Y, X \cup {b, n}, Y \cup {b}) BY <1>4, <1>5, <1>6, <1>9, <1>11 DEF SameListed, H, F
  <2>2. QED BY <2>1, SoundReheaded
<1>15. QED BY <1>6, <1>7, <1>12, <1>13, <1>14 DEF H, IsFreed

IsAbsorbed(t, P, X, Y, b, c, n, u) ==
  /\ Sound(u, P, X \ {c}, Y \ {c}) /\ \A d : Kept(t.header, u.header, d)
  /\ After(u.header, b) = n /\ b # c

LEMMA SoundAbsorb ==
  ASSUME NEW t, NEW P, NEW X, NEW Y, Sound(t, P, X, Y), NEW b \in Y, NEW c \in Y,
         c = After(t.header, b),
         NEW u, u = block_absorb(t, b, c), NEW n, n = After(t.header, c)
  PROVE  IsAbsorbed(t, P, X, Y, b, c, n, u)
<1> DEFINE H == t.header
           F == FreeOf(H)
<1>1. Chain(H, P) /\ Coalesced(H, X) /\ Lists(t) /\ Y \subseteq F /\ b \in F /\ c \in F
  BY DEF Sound, Listing
<1>2. b \in DOMAIN H /\ H[b].free /\ c \in DOMAIN H /\ H[c].free BY <1>1, FreeSizes
<1>3. n \in DOMAIN H /\ b # c /\ H[b].size \in Nat /\ H[c].size \in Nat
      /\ b \in Nat /\ n = b + (H[b].size + H[c].size + 1) + 1
  BY <1>1, <1>2, AbsorbPlaces
<1>4. PICK G : Reheaded(t, u, G) /\ Headers(G) /\ Absorbed(H, G, b, c, n)
  BY <1>1, <1>2, <1>3, AbsorbHeaders DEF Chain
<1>5. Chain(G, P) BY <1>1, <1>2, <1>4, AbsorbChain
<1>6. Coalesced(G, X \ {c}) /\ (\A d : Kept(H, G, d)) /\ FreeOf(G) = F \ {c}
  BY <1>1, <1>2, <1>4, AbsorbKeeps
<1>7. Y \ {c} \subseteq FreeOf(G) /\ FreeOf(G) \ (Y \ {c}) = F \ Y BY <1>1, <1>6
<1>8. \A d \in DOMAIN H \ {b, c} : G[d].size = H[d].size BY <1>4 DEF Absorbed
<1>9. \A d \in FreeOf(G) \ (Y \ {c}) : G[d].size = H[d].size BY <1>7, <1>8 DEF FreeOf
<1>10. u.header = G BY <1>4 DEF Reheaded
<1>11. After(G, b) = n
  <2>1. G[b].size = H[b].size + H[c].size + 1 BY <1>4 DEF Absorbed
  <2>2. QED BY <1>3, <2>1 DEF After
<1> HIDE DEF H, F
<1>12. Sound(u, P, X \ {c}, Y \ {c})
  <2>1. SameListed(t, u, G, P, Y, X \ {c}, Y \ {c}) BY <1>4, <1>5, <1>6, <1>7, <1>9 DEF SameListed, H, F
  <2>2. QED BY <2>1, SoundReheaded
<1>13. QED BY <1>3, <1>6, <1>10, <1>11, <1>12 DEF H, IsAbsorbed

LEMMA PoolHeaders ==
  ASSUME NEW H, Headers(H), NEW b \in Nat, NEW size \in Nat, NEW n, n = b + size + 1,
         b \notin DOMAIN H, n \notin DOMAIN H,
         NEW main, main = [size |-> size, free |-> TRUE, prev_free |-> FALSE, prev_phys |-> Garbage],
         NEW last, last = [size |-> 0, free |-> FALSE, prev_free |-> TRUE, prev_phys |-> b]
  PROVE  /\ Headers(With(With(H, b, main), n, last))
         /\ Pooled(H, With(With(H, b, main), n, last), b, n, size)
<1> DEFINE A == With(H, b, main)
           G == With(A, n, last)
<1>1. main \in HeaderType /\ last \in HeaderType BY DEF HeaderType, Garbage
<1>2. n \in Nat /\ n # b OBVIOUS
<1>3. DOMAIN A = DOMAIN H \cup {b} /\ A[b] = main /\ \A c \in DOMAIN H : A[c] = H[c] BY DEF With
<1>4. A \in [DOMAIN A -> HeaderType] BY <1>1 DEF With, Headers
<1>5. G = [c \in DOMAIN A \cup {n} |-> IF c = n THEN last ELSE A[c]] BY DEF With
<1> HIDE DEF A
<1>6. DOMAIN G = DOMAIN A \cup {n} /\ G[n] = last /\ \A c \in DOMAIN A : c # n => G[c] = A[c]
  BY <1>5
<1>7. G \in [DOMAIN G -> HeaderType] BY <1>1, <1>4, <1>5
<1> HIDE DEF G
<1>8. DOMAIN G = DOMAIN H \cup {b, n} BY <1>3, <1>6
<1>9. IsFiniteSet(DOMAIN G) /\ DOMAIN G \subseteq Nat
  <2>1. IsFiniteSet(DOMAIN H) /\ DOMAIN H \subseteq Nat BY DEF Headers
  <2>2. IsFiniteSet(DOMAIN H \cup {b}) BY <2>1, FS_AddElement
  <2>3. IsFiniteSet((DOMAIN H \cup {b}) \cup {n}) BY <2>2, FS_AddElement
  <2>4. QED BY <1>2, <1>8, <2>1, <2>3
<1>10. Headers(G) BY <1>7, <1>9 DEF Headers
<1>11. Pooled(H, G, b, n, size) BY <1>2, <1>3, <1>6, <1>8 DEF Pooled
<1>12. QED BY <1>10, <1>11 DEF G, A

LEMMA SoundPooled ==
  ASSUME NEW t, NEW P, Sound(t, P, {}, {}), NEW b \in Nat, NEW size \in Nat, size >= 3,
         NEW n, n = b + size + 1, size < block_size_max, \A p \in P : p.last < b,
         b \notin DOMAIN t.header, n \notin DOMAIN t.header,
         NEW w, NEW G, Reheaded(t, w, G), Headers(G), Pooled(t.header, G, b, n, size)
  PROVE  /\ Sound(w, P \cup {[first |-> b, last |-> n]}, {}, {b})
         /\ \A c : Kept(t.header, G, c)
<1> DEFINE H == t.header
           Q == P \cup {[first |-> b, last |-> n]}
<1>1. Chain(H, P) /\ Coalesced(H, {}) BY DEF Sound
<1>2. /\ Chain(G, Q) /\ Coalesced(G, {}) /\ (\A d : Kept(H, G, d))
      /\ FreeOf(G) = FreeOf(H) \cup {b}
  <2> HIDE DEF Q
  <2>1. Coalesced(G, {}) /\ (\A d : Kept(H, G, d)) /\ FreeOf(G) = FreeOf(H) \cup {b}
    BY <1>1, PoolKeeps
  <2>2. Q = P \cup {[first |-> b, last |-> n]} BY DEF Q
  <2>3. Chain(G, Q) BY <1>1, <2>2, PoolChain
  <2>4. QED BY <2>1, <2>3
<1>3. b \notin FreeOf(H) BY DEF FreeOf
<1>4. {b} \subseteq FreeOf(G) /\ FreeOf(G) \ {b} = FreeOf(H) \ {} BY <1>2, <1>3
<1>5. \A c \in FreeOf(G) \ {b} : G[c].size = H[c].size
  <2>1. \A c \in DOMAIN H : G[c] = H[c] BY DEF Pooled
  <2>2. QED BY <1>4, <2>1 DEF FreeOf
<1>6. SameListed(t, w, G, Q, {}, {}, {b}) BY <1>2, <1>4, <1>5 DEF SameListed
<1> HIDE DEF Q
<1>7. Sound(w, Q, {}, {b}) BY <1>6, SoundReheaded
<1>8. QED BY <1>2, <1>7 DEF Q

(* A new pool lies above those there are.                                  *)
IsPooled(t, u, P, mem, bytes) ==
  /\ ~(bytes - 2 >= 3 /\ bytes - 2 < block_size_max) => u = t
  /\ bytes - 2 >= 3 /\ bytes - 2 < block_size_max =>
       /\ Sound(u, P \cup {[first |-> mem - 1, last |-> mem + bytes - 2]}, {}, {})
       /\ \A c : Kept(t.header, u.header, c)
       /\ mem - 1 \in FreeOf(u.header) /\ Size(u, mem - 1) = bytes - 2

LEMMA SoundPool ==
  ASSUME NEW t, NEW P, Sound(t, P, {}, {}), NEW mem \in Nat \ {0}, NEW bytes \in Nat,
         bytes - 2 # block_size_max, \A p \in P : p.last < mem - 1,
         NEW u, u = tlsf_add_pool(t, mem, bytes)
  PROVE  IsPooled(t, u, P, mem, bytes)
<1>0. block_size_max \in Nat BY Indexes
<1>1. ASSUME ~(bytes - 2 >= 3 /\ bytes - 2 < block_size_max) PROVE u = t
  <2>1. bytes - 2 < 3 \/ bytes - 2 > block_size_max BY <1>0, <1>1
  <2>2. bytes - 2 * 1 = bytes - 2 OBVIOUS
  <2>3. QED BY <2>1, <2>2 DEF tlsf_add_pool, block_header_overhead, block_size_min
<1>2. ASSUME bytes - 2 >= 3, bytes - 2 < block_size_max
      PROVE  /\ Sound(u, P \cup {[first |-> mem - 1, last |-> mem + bytes - 2]}, {}, {})
             /\ \A c : Kept(t.header, u.header, c)
             /\ mem - 1 \in FreeOf(u.header) /\ Size(u, mem - 1) = bytes - 2
  <2> DEFINE H == t.header
             b == mem - 1
             size == bytes - 2
             n == b + size + 1
             main == [size |-> size, free |-> TRUE, prev_free |-> FALSE, prev_phys |-> Garbage]
             last == [size |-> 0, free |-> FALSE, prev_free |-> TRUE, prev_phys |-> b]
             G == With(With(H, b, main), n, last)
             w == [t EXCEPT !.header = G]
             Q == P \cup {[first |-> b, last |-> n]}
             F == FreeOf(H)
  <2>1. Chain(H, P) /\ Coalesced(H, {}) /\ Headers(H) /\ Lists(t) BY DEF Sound, Chain, Listing
  <2>2. b \in Nat /\ size \in Nat /\ n \in Nat /\ n = mem + bytes - 2 /\ size >= 3 /\ b < n
        /\ size < block_size_max
    BY <1>2
  <2>3. u = block_insert(w, b)
    <3>1. bytes - 2 * 1 = size /\ ~(size < 3 \/ size > block_size_max) BY <1>0, <1>2
    <3>2. NextAfter(b, size) = n
      BY <2>2 DEF NextAfter, block_to_ptr, block_start_offset, block_header_overhead
    <3> HIDE DEF n, size, b, main, last
    <3>3. u = block_insert([t EXCEPT !.header = With(With(t.header, b, main), NextAfter(b, size), last)], b)
      BY <3>1 DEF tlsf_add_pool, block_header_overhead, block_size_min, main, last, b
    <3>4. QED BY <3>2, <3>3
  <2>4. ASSUME NEW d \in DOMAIN H PROVE d \in Nat /\ d < b
    <3>1. PICK p \in P : Within(H, p, d) BY <2>1 DEF Chain
    <3>2. p.last < b /\ d <= p.last BY <3>1 DEF Within
    <3>3. p.last \in Nat BY <2>1 DEF Chain, Pools
    <3>4. d \in Nat BY <2>1 DEF Headers
    <3>5. QED BY <2>2, <3>2, <3>3, <3>4
  <2>5. b \notin DOMAIN H /\ n \notin DOMAIN H BY <2>2, <2>4
  <2>6. \A p \in P : p.last < b OBVIOUS
  <2>7. Reheaded(t, w, G) BY <2>1, Rehead
  <2> HIDE DEF H, b, size, F
  <2>8. Headers(G) /\ Pooled(H, G, b, n, size)
    BY <2>1, <2>2, <2>5, PoolHeaders
  <2> HIDE DEF G, w, n
  <2>9. n = b + size + 1 BY DEF n
  <2>10. Sound(w, Q, {}, {b}) /\ \A c : Kept(H, G, c)
    BY <2>2, <2>5, <2>6, <2>7, <2>8, <2>9, SoundPooled DEF H
  <2> HIDE DEF Q
  <2>11. b \in {b} OBVIOUS
  <2>12. Sound(block_insert(w, b), Q, {}, {b} \ {b}) /\ block_insert(w, b).header = w.header
    BY <2>10, <2>11, SoundInsert
  <2>13. {b} \ {b} = {} /\ w.header = G /\ G[b].size = size BY <2>7, <2>8 DEF Reheaded, Pooled
  <2>14. u.header = G BY <2>3, <2>12, <2>13
  <2>15. Sound(u, Q, {}, {}) BY <2>3, <2>12, <2>13
  <2>16. b \in FreeOf(u.header) /\ Size(u, b) = size 
    <3>1. Sound(u, Q, {}, {}) /\ b \in DOMAIN G /\ G[b].free BY <2>8, <2>15 DEF Pooled
    <3>2. QED BY <2>13, <2>14, <3>1 DEF Size, FreeOf
  <2>17. \A c : Kept(t.header, u.header, c) BY <2>10, <2>14 DEF H
  <2>18. Q = P \cup {[first |-> mem - 1, last |-> mem + bytes - 2]} BY <2>2 DEF Q, b
  <2>19. QED BY <2>15, <2>16, <2>17, <2>18 DEF b, size
<1>3. QED BY <1>1, <1>2 DEF IsPooled

-----------------------------------------------------------------------------
(* The block a request is served from.                                     *)

LEMMA FitsWhere ==
  ASSUME NEW t, NEW F, Listing(t, F), NEW size \in Nat, NEW m \in Fits(t, size)
  PROVE  /\ m.fl \in FLs /\ m.sl \in SLs /\ m = [fl |-> m.fl, sl |-> m.sl]
         /\ m.sl \in t.sl_bitmap[m.fl] /\ NoLater(mapping_search(size), m) /\ size # 0
<1> DEFINE s == mapping_search(size)
           same   == {sl \in t.sl_bitmap[s.fl] : sl >= s.sl}
           larger == {fl \in t.fl_bitmap : fl > s.fl}
<1>1. size # 0 /\ ~(s.fl >= FL_INDEX_COUNT) /\ m \in Fitting(t, s) BY DEF Fits
<1>2. s.fl \in Nat /\ s.sl \in SLs BY RoundedUp, SearchIndex, InsertIndex
<1>3. s.fl \in FLs BY <1>1, <1>2, Indexes DEF FLs
<1>4. Lists(t) /\ Bits(t) BY DEF Listing
<1>5. same \subseteq SLs /\ larger \subseteq FLs BY <1>3, <1>4 DEF Lists
<1>6. FLs \subseteq Nat /\ SLs \subseteq Nat BY DEF FLs, SLs
<1>7. CASE same # {}
  <2>1. m = [fl |-> s.fl, sl |-> Min(same)] BY <1>1, <1>7 DEF Fitting
  <2>2. Min(same) \in same BY <1>5, <1>6, <1>7, Smallest
  <2>3. m.fl = s.fl /\ m.sl = Min(same) BY <2>1
  <2>4. m.sl \in t.sl_bitmap[m.fl] /\ m.sl >= s.sl /\ m.sl \in SLs BY <1>5, <2>2, <2>3
  <2>5. NoLater(s, m) BY <1>2, <1>6, <2>3, <2>4 DEF NoLater
  <2>6. QED BY <1>1, <1>3, <2>1, <2>3, <2>4, <2>5
<1>8. CASE same = {}
  <2>1. larger # {} /\ m = [fl |-> Min(larger), sl |-> Min(t.sl_bitmap[Min(larger)])]
    BY <1>1, <1>8 DEF Fitting
  <2> DEFINE f == Min(larger)
             S == t.sl_bitmap[f]
  <2>2. f \in larger BY <1>5, <1>6, <2>1, Smallest
  <2>3. f \in FLs /\ f \in t.fl_bitmap /\ f > s.fl BY <1>5, <2>2
  <2> HIDE DEF f
  <2>4. S # {} /\ S \subseteq SLs BY <1>4, <2>3 DEF Bits, Lists
  <2>5. Min(S) \in S BY <1>6, <2>4, Smallest
  <2>6. m = [fl |-> f, sl |-> Min(S)] BY <2>1 DEF f
  <2>7. m.fl = f /\ m.sl = Min(S) BY <2>6
  <2>8. NoLater(s, m) BY <1>2, <1>6, <2>3, <2>7 DEF NoLater
  <2>9. QED BY <1>1, <2>3, <2>4, <2>5, <2>6, <2>7, <2>8
<1>9. QED BY <1>7, <1>8

Serves(t, F, size, m, block) ==
  /\ block \in F /\ At(t, block) = m /\ size # 0
  /\ t.header[block].size \in Nat /\ t.header[block].size >= size

LEMMA FitsFound ==
  ASSUME NEW t, NEW F, Listing(t, F), NEW size \in Nat, NEW m \in Fits(t, size),
         NEW block, block = Head(t.blocks[m.fl][m.sl])
  PROVE  Serves(t, F, size, m, block)
<1>1. /\ m.fl \in FLs /\ m.sl \in SLs /\ m = [fl |-> m.fl, sl |-> m.sl]
      /\ m.sl \in t.sl_bitmap[m.fl] /\ NoLater(mapping_search(size), m) /\ size # 0
  BY FitsWhere
<1>2. Bits(t) /\ Enumerates(t.blocks[m.fl][m.sl], Class(t, F, m.fl, m.sl)) BY <1>1 DEF Listing
<1>3. t.blocks[m.fl][m.sl] # <<>> BY <1>1, <1>2 DEF Bits
<1>4. block \in Class(t, F, m.fl, m.sl) BY <1>2, <1>3, EnumerateNone
<1>5. block \in F /\ At(t, block) = m BY <1>1, <1>4 DEF Class
<1>6. t.header[block].size \in Nat BY <1>5 DEF Listing, Size
<1>7. NoLater(mapping_search(size), mapping_insert(t.header[block].size)) BY <1>1, <1>5 DEF At, Size
<1>8. size <= t.header[block].size BY <1>6, <1>7, SearchFinds
<1>9. QED BY <1>1, <1>5, <1>6, <1>8 DEF Serves

LEMMA FitsSome ==
  ASSUME NEW t, NEW F, Listing(t, F), NEW size \in Nat, size # 0, NEW b \in F,
         NoLater(mapping_search(size), At(t, b))
  PROVE  Fits(t, size) # {}
<1> DEFINE s == mapping_search(size)
           same   == {sl \in t.sl_bitmap[s.fl] : sl >= s.sl}
           larger == {fl \in t.fl_bitmap : fl > s.fl}
           fl == At(t, b).fl
           sl == At(t, b).sl
<1>1. fl \in FLs /\ sl \in SLs /\ b \in Class(t, F, fl, sl) BY WhereListed
<1>2. s.fl \in Nat /\ s.sl \in SLs BY RoundedUp, SearchIndex, InsertIndex
<1>3. FLs \subseteq Nat /\ SLs \subseteq Nat BY DEF FLs, SLs
<1>4. Lists(t) /\ Bits(t) /\ Enumerates(t.blocks[fl][sl], Class(t, F, fl, sl))
  BY <1>1 DEF Listing
<1>5. t.blocks[fl][sl] # <<>> BY <1>1, <1>4, EnumerateNone
<1>6. sl \in t.sl_bitmap[fl] /\ fl \in t.fl_bitmap BY <1>1, <1>4, <1>5 DEF Bits
<1>7. s.fl < fl \/ (s.fl = fl /\ s.sl <= sl) BY DEF NoLater
<1>8. s.fl < FL_INDEX_COUNT
  <2>1. fl < FL_INDEX_COUNT /\ fl \in Nat BY <1>1, Indexes DEF FLs
  <2> HIDE DEF fl, s
  <2>2. QED BY <1>2, <1>7, <2>1, Indexes
<1>9. same # {} \/ larger # {} BY <1>1, <1>2, <1>3, <1>6, <1>7
<1>10. Fitting(t, s) # {} BY <1>9 DEF Fitting
<1>11. ~(s.fl >= FL_INDEX_COUNT) BY <1>2, <1>8, Indexes
<1>12. QED BY <1>10, <1>11 DEF Fits

-----------------------------------------------------------------------------
(* tlsf_memalign                                                           *)

LEMMA KeptTwice ==
  ASSUME NEW H, NEW G, NEW K, NEW b, Kept(H, G, b), Kept(G, K, b)
  PROVE  Kept(H, K, b)
BY DEF Kept

LEMMA SoundTrimFree ==
  ASSUME NEW t, NEW P, NEW X, NEW b, Sound(t, P, X, {b}), X \subseteq {b},
         NEW size \in Nat, size >= 3, t.header[b].size >= size,
         NEW u, u = block_trim_free(t, b, size)
  PROVE  /\ \E Z : Sound(u, P, Z, {b}) /\ Z \subseteq {b, After(u.header, b)}
         /\ Kept(t.header, u.header, b) /\ u.header[b].size >= size
<1>1. b \in {b} /\ b \in FreeOf(t.header) /\ Chain(t.header, P) BY DEF Sound
<1>2. b \in DOMAIN t.header /\ t.header[b].size \in Nat BY <1>1, FreeSizes
<1>3. CASE ~block_can_split(t, b, size)
  <2>1. u = t BY <1>3 DEF block_trim_free
  <2>2. QED BY <2>1 DEF Kept
<1>4. CASE block_can_split(t, b, size)
  <2> DEFINE r == b + size + 1
             w == Cut(t, b, size)
  <2>1. t.header[b].size >= size + 4 BY <1>2, <1>4 DEF block_can_split, Size, header_size
  <2>2. u = block_insert(w, Remaining(b, size)) BY <1>4 DEF block_trim_free, Cut
  <2> HIDE DEF w
  <2>3. w = Cut(t, b, size) BY DEF w
  <2> HIDE DEF r
  <2>4. r = b + size + 1 BY DEF r
  <2>16. CutHere(t, P, X, {b}, b, size, w, r) BY <1>1, <2>1, <2>3, <2>4 DEF CutHere
  <2>17. IsCut(t, P, X, {b}, b, size, w, r) BY <2>16, SoundTrim
  <2>5. /\ Sound(w, P, X \cup {r}, {b} \cup {r}) /\ \A c : Kept(t.header, w.header, c)
        /\ w.header[b].size = size
        /\ r \notin DOMAIN t.header /\ Remaining(b, size) = r /\ r \in Nat
    BY <2>17 DEF IsCut
  <2>6. r \in {b} \cup {r} OBVIOUS
  <2>7. /\ Sound(block_insert(w, r), P, X \cup {r}, ({b} \cup {r}) \ {r})
        /\ block_insert(w, r).header = w.header
    BY ONLY <2>5, <2>6, SoundInsert
  <2>8. u = block_insert(w, r) BY <2>2, <2>5
  <2>9. r # b BY <1>2, <2>5
  <2>10. ({b} \cup {r}) \ {r} = {b} BY <2>9
  <2>11. Sound(u, P, X \cup {r}, {b}) /\ u.header = w.header BY <2>7, <2>8, <2>10
  <2>12. After(u.header, b) = r BY <2>4, <2>5, <2>11 DEF After
  <2>13. X \cup {r} \subseteq {b, After(u.header, b)} BY <2>12
  <2>14. Kept(t.header, u.header, b) /\ u.header[b].size >= size BY <2>5, <2>11
  <2>15. QED BY <2>11, <2>13, <2>14
<1>5. QED BY <1>3, <1>4

LEMMA SoundPrepare ==
  ASSUME NEW t, NEW P, NEW X, NEW b, Sound(t, P, X, {b}), X \subseteq {b},
         NEW size \in Nat, size >= 3, t.header[b].size >= size,
         NEW r, r = block_prepare_used(t, b, size)
  PROVE  /\ Sound(r.t, P, {}, {}) /\ r.ptr = b + 2
         /\ b \in DOMAIN r.t.header /\ ~r.t.header[b].free /\ r.t.header[b].size >= size
         /\ Kept(t.header, r.t.header, b)
<1> DEFINE u == block_trim_free(t, b, size)
           w == block_mark_as_used(u, b)
<1>1. r = [t |-> w, ptr |-> b + 2] BY DEF block_prepare_used, block_to_ptr, block_start_offset
<1>2. r.t = w /\ r.ptr = b + 2 BY <1>1
<1> HIDE DEF w, u
<1>3. u = block_trim_free(t, b, size) BY DEF u
<1>4. /\ \E Z : Sound(u, P, Z, {b}) /\ Z \subseteq {b, After(u.header, b)}
      /\ Kept(t.header, u.header, b) /\ u.header[b].size >= size
  BY <1>3, SoundTrimFree
<1>5. PICK Z : Sound(u, P, Z, {b}) /\ Z \subseteq {b, After(u.header, b)} BY <1>4
<1>6. b \in {b} /\ w = block_mark_as_used(u, b) BY DEF w
<1>7. /\ Sound(w, P, Z \ {b, After(u.header, b)}, {b} \ {b}) /\ Kept(u.header, w.header, b)
      /\ b \in DOMAIN w.header /\ ~w.header[b].free /\ w.header[b].size = u.header[b].size
  BY <1>5, <1>6, SoundUsed
<1>8. Z \ {b, After(u.header, b)} = {} /\ {b} \ {b} = {} BY <1>5
<1>9. Sound(w, P, {}, {}) BY <1>7, <1>8
<1>10. Kept(t.header, w.header, b) BY <1>4, <1>7, KeptTwice
<1>11. QED BY <1>2, <1>4, <1>7, <1>9, <1>10

IsLead(t, P, b, gap, r) ==
  /\ r.block = b + gap /\ Sound(r.t, P, {r.block}, {r.block})
  /\ r.block \notin DOMAIN t.header /\ \A c : Kept(t.header, r.t.header, c)
  /\ r.t.header[r.block].size = t.header[b].size - gap

LEMMA SoundLead ==
  ASSUME NEW t, NEW P, NEW b, Sound(t, P, {}, {b}),
         NEW gap \in Nat, gap >= 4, t.header[b].size >= gap + 4,
         NEW r, r = block_trim_free_leading(t, b, gap)
  PROVE  IsLead(t, P, b, gap, r)
<1> DEFINE first == gap - 1
           w == Cut(t, b, first)
           k == b + first + 1
<1>1. b \in {b} /\ b \in FreeOf(t.header) /\ Chain(t.header, P) BY DEF Sound
<1>2. b \in DOMAIN t.header /\ t.header[b].size \in Nat /\ b \in Nat BY <1>1, FreeSizes
<1>3. block_can_split(t, b, gap) BY <1>2 DEF block_can_split, Size, header_size
<1>4. r = [t |-> block_insert(w, b), block |-> Remaining(b, first)]
  BY <1>3 DEF block_trim_free_leading, block_header_overhead, Cut
<1>5. r.t = block_insert(w, b) /\ r.block = Remaining(b, first) BY <1>4
<1>6. first \in Nat /\ first >= 3 /\ t.header[b].size >= first + 4 BY <1>2
<1>7. k = b + gap BY <1>2
<1>8. t.header[b].size - first - 1 = t.header[b].size - gap BY <1>2
<1> HIDE DEF w, k
<1>9. w = Cut(t, b, first) /\ k = b + first + 1 BY DEF w, k
<1> HIDE DEF first
<1>17. CutHere(t, P, {}, {b}, b, first, w, k) BY <1>1, <1>6, <1>9 DEF CutHere
<1>18. IsCut(t, P, {}, {b}, b, first, w, k) BY <1>17, SoundTrim
<1>10. /\ Sound(w, P, {} \cup {k}, {b} \cup {k}) /\ \A c : Kept(t.header, w.header, c)
       /\ w.header[k].size = t.header[b].size - first - 1
       /\ k \notin DOMAIN t.header /\ Remaining(b, first) = k /\ k \in Nat
  BY <1>18 DEF IsCut
<1>11. b \in {b} \cup {k} OBVIOUS
<1>12. /\ Sound(block_insert(w, b), P, {} \cup {k}, ({b} \cup {k}) \ {b})
       /\ block_insert(w, b).header = w.header
  BY ONLY <1>10, <1>11, SoundInsert
<1>13. b # k BY <1>2, <1>10
<1>14. {} \cup {k} = {k} /\ ({b} \cup {k}) \ {b} = {k} BY <1>13
<1>15. Sound(r.t, P, {k}, {k}) /\ r.t.header = w.header /\ r.block = k
  BY <1>5, <1>10, <1>12, <1>14
<1>16. QED BY <1>7, <1>8, <1>10, <1>15 DEF IsLead

(* What a call gives: a block that nobody had.                             *)
Given(H, G, b, align, size) ==
  /\ b \in DOMAIN G /\ ~G[b].free /\ G[b].size >= size /\ G[b].size # 0
  /\ (b + 2) % align = 0
  /\ b \in DOMAIN H => H[b].free
  /\ Kept(H, G, b)

aligned_request(align, size) ==
  LET adjust == adjust_request_size(size, 1)
  IN  IF adjust # 0 /\ align > 1 THEN adjust_request_size(adjust + align + header_size, align)
      ELSE adjust

LEMMA Requested ==
  ASSUME NEW align \in Nat \ {0}, NEW size \in Nat
  PROVE  /\ aligned_request(align, size) \in Nat
         /\ aligned_request(align, size) # 0 =>
              /\ adjust_request_size(size, 1) \in Nat /\ adjust_request_size(size, 1) >= 3
              /\ adjust_request_size(size, 1) >= size
              /\ aligned_request(align, size) >= adjust_request_size(size, 1)
              /\ align > 1 => aligned_request(align, size)
                               >= adjust_request_size(size, 1) + align + 4
<1> DEFINE adjust == adjust_request_size(size, 1)
           more   == adjust + align + 4
<1>1. adjust \in Nat /\ (adjust # 0 => adjust >= 3 /\ adjust >= size) BY Adjusted
<1>2. aligned_request(align, size)
      = IF adjust # 0 /\ align > 1 THEN adjust_request_size(more, align) ELSE adjust
  BY DEF aligned_request, header_size
<1> HIDE DEF adjust
<1>3. more \in Nat BY <1>1
<1> HIDE DEF more
<1>4. adjust_request_size(more, align) \in Nat
      /\ (adjust_request_size(more, align) # 0 => adjust_request_size(more, align) >= more)
  BY <1>3, Adjusted
<1>5. more = adjust + align + 4 BY DEF more
<1>6. CASE adjust # 0 /\ align > 1
  <2>1. aligned_request(align, size) = adjust_request_size(more, align) BY <1>2, <1>6
  <2>2. QED BY <1>1, <1>4, <1>5, <1>6, <2>1 DEF adjust
<1>7. CASE ~(adjust # 0 /\ align > 1)
  <2>1. aligned_request(align, size) = adjust BY <1>2, <1>7
  <2>2. QED BY <1>1, <1>7, <2>1 DEF adjust
<1>8. QED BY <1>6, <1>7

LEMMA MemalignForm ==
  ASSUME NEW t, NEW align, NEW size
  PROVE  LET adjust == adjust_request_size(size, 1)
             fits   == Fits(t, aligned_request(align, size))
             m      == CHOOSE x \in fits : TRUE
             block  == Head(t.blocks[m.fl][m.sl])
             gap    == Gap(block + 2, align)
             taken  == remove_free_block(t, block, m)
             lead   == IF gap = 0 THEN [t |-> taken, block |-> block]
                       ELSE block_trim_free_leading(taken, block, gap)
         IN  tlsf_memalign(t, align, size)
             = IF fits = {} THEN [t |-> t, ptr |-> null]
               ELSE block_prepare_used(lead.t, lead.block, adjust)
BY DEF tlsf_memalign, aligned_request, block_to_ptr, block_start_offset

LEMMA MemalignSound ==
  ASSUME NEW t, NEW P, Sound(t, P, {}, {}), NEW align \in Nat \ {0}, NEW size \in Nat,
         NEW r, r = tlsf_memalign(t, align, size)
  PROVE  /\ r.ptr = null => r.t = t
         /\ r.ptr = null <=> Fits(t, aligned_request(align, size)) = {}
         /\ r.ptr # null => /\ Sound(r.t, P, {}, {}) /\ r.ptr \in Nat
                            /\ Given(t.header, r.t.header, r.ptr - 2, align, size)
<1> DEFINE asked  == aligned_request(align, size)
           adjust == adjust_request_size(size, 1)
           fits   == Fits(t, asked)
           m      == CHOOSE x \in fits : TRUE
           block  == Head(t.blocks[m.fl][m.sl])
           gap    == Gap(block + 2, align)
           taken  == remove_free_block(t, block, m)
           lead   == IF gap = 0 THEN [t |-> taken, block |-> block]
                     ELSE block_trim_free_leading(taken, block, gap)
<1>1. r = IF fits = {} THEN [t |-> t, ptr |-> null]
          ELSE block_prepare_used(lead.t, lead.block, adjust)
  BY MemalignForm
<1>2. CASE fits = {}
  <2>1. r.t = t /\ r.ptr = null BY <1>1, <1>2
  <2>2. QED BY <1>2, <2>1
<1>3. CASE fits # {}
  <2>0. asked \in Nat BY Requested
  <2>1. m \in fits BY <1>3
  <2>2. Listing(t, FreeOf(t.header)) /\ Chain(t.header, P)
    <3>1. FreeOf(t.header) \ {} = FreeOf(t.header) OBVIOUS
    <3>2. QED BY <3>1 DEF Sound
  <2> HIDE DEF m
  <2>3. /\ block \in FreeOf(t.header) /\ At(t, block) = m /\ asked # 0
        /\ t.header[block].size \in Nat /\ t.header[block].size >= asked
    <3>1. block = Head(t.blocks[m.fl][m.sl]) OBVIOUS
    <3> HIDE DEF asked, block
    <3>2. m \in Fits(t, asked) BY <2>1
    <3>3. Serves(t, FreeOf(t.header), asked, m, block) BY <2>0, <2>2, <3>1, <3>2, FitsFound
    <3>4. QED BY <3>3 DEF Serves
  <2>4. /\ adjust \in Nat /\ adjust >= 3 /\ adjust >= size /\ asked >= adjust
        /\ align > 1 => asked >= adjust + align + 4
    BY <2>3, Requested
  <2> HIDE DEF block, asked, adjust
  <2>5. block \in Nat BY <2>2, <2>3, FreeSizes
  <2>6. Sound(taken, P, {}, {block}) /\ taken.header = t.header
    <3>1. block \in FreeOf(t.header) \ {} /\ m = At(t, block) BY <2>3
    <3>2. Sound(taken, P, {}, {} \cup {block}) /\ taken.header = t.header BY <3>1, SoundRemove
    <3>3. {} \cup {block} = {block} OBVIOUS
    <3>4. QED BY <3>2, <3>3
  <2>7. /\ gap \in Nat /\ gap <= align + 3 /\ (gap # 0 => gap >= 4)
        /\ (block + 2 + gap) % align = 0 /\ (align = 1 => gap = 0)
    <3>1. block + 2 \in Nat BY <2>5
    <3>2. QED BY <3>1, GapBounds
  <2> HIDE DEF taken, gap
  <2> DEFINE b == block + gap
  <2>8. \E X : /\ lead.block = b /\ Sound(lead.t, P, X, {b}) /\ X \subseteq {b}
               /\ (b \in DOMAIN t.header => t.header[b].free)
               /\ Kept(t.header, lead.t.header, b)
               /\ lead.t.header[b].size >= adjust
    <3>1. CASE gap = 0
      <4>1. lead.t = taken /\ lead.block = block /\ b = block BY <2>5, <3>1
      <4>2. Sound(lead.t, P, {}, {b}) /\ {} \subseteq {b} BY <2>6, <4>1
      <4>3. t.header[b].free BY <2>3, <4>1 DEF FreeOf
      <4>4. Kept(t.header, lead.t.header, b) BY <2>6, <4>1 DEF Kept
      <4>5. lead.t.header[b].size >= adjust BY <2>3, <2>4, <2>6, <4>1, <2>0
      <4>6. QED BY <4>1, <4>2, <4>3, <4>4, <4>5
    <3>2. CASE gap # 0
      <4>1. lead = block_trim_free_leading(taken, block, gap) BY <3>2
      <4>2. align > 1 /\ gap >= 4 /\ gap <= align + 3 BY <2>7, <3>2
      <4>3. taken.header[block].size >= gap + 4
            /\ taken.header[block].size - gap >= adjust
        BY <2>0, <2>3, <2>4, <2>6, <2>7, <4>2
      <4> HIDE DEF lead
      <4>4. /\ lead.block = block + gap /\ Sound(lead.t, P, {lead.block}, {lead.block})
            /\ lead.block \notin DOMAIN taken.header
            /\ \A c : Kept(taken.header, lead.t.header, c)
            /\ lead.t.header[lead.block].size = taken.header[block].size - gap
        <5>1. gap \in Nat /\ gap >= 4 /\ taken.header[block].size >= gap + 4
              /\ Sound(taken, P, {}, {block})
          BY <2>6, <2>7, <4>2, <4>3
        <5>2. IsLead(taken, P, block, gap, lead) BY <4>1, <5>1, SoundLead
        <5>3. QED BY <5>2 DEF IsLead
      <4>5. QED BY <2>6, <4>3, <4>4
    <3>3. QED BY <3>1, <3>2
  <2>9. PICK X : /\ lead.block = b /\ Sound(lead.t, P, X, {b}) /\ X \subseteq {b}
                 /\ (b \in DOMAIN t.header => t.header[b].free)
                 /\ Kept(t.header, lead.t.header, b)
                 /\ lead.t.header[b].size >= adjust
    BY <2>8
  <2> HIDE DEF lead
  <2>10. r = block_prepare_used(lead.t, b, adjust) BY <1>1, <1>3, <2>9
  <2>11. b \in Nat BY <2>5, <2>7
  <2>12. (b + 2) % align = 0
    <3>1. block + 2 + gap = b + 2 BY <2>5, <2>7
    <3>2. QED BY <2>7, <3>1
  <2> HIDE DEF b
  <2>13. /\ Sound(r.t, P, {}, {}) /\ r.ptr = b + 2
         /\ b \in DOMAIN r.t.header /\ ~r.t.header[b].free /\ r.t.header[b].size >= adjust
         /\ Kept(lead.t.header, r.t.header, b)
    <3> DEFINE u == lead.t
    <3>1. Sound(u, P, X, {b}) /\ X \subseteq {b} /\ u.header[b].size >= adjust BY <2>9
    <3>2. adjust \in Nat /\ adjust >= 3 BY <2>4
    <3>3. r = block_prepare_used(u, b, adjust) BY <2>10
    <3> HIDE DEF u
    <3>4. /\ Sound(r.t, P, {}, {}) /\ r.ptr = b + 2
          /\ b \in DOMAIN r.t.header /\ ~r.t.header[b].free /\ r.t.header[b].size >= adjust
          /\ Kept(u.header, r.t.header, b)
      BY ONLY <3>1, <3>2, <3>3, SoundPrepare
    <3>5. QED BY <3>4 DEF u
  <2>14. Kept(t.header, r.t.header, b) BY <2>9, <2>13, KeptTwice
  <2>15. r.t.header[b].size \in Nat BY <2>13, Fields DEF Sound, Chain
  <2>16. r.ptr - 2 = b /\ r.ptr # null /\ r.ptr \in Nat BY <2>11, <2>13 DEF null
  <2>17. r.t.header[b].size >= size /\ r.t.header[b].size # 0 BY <2>4, <2>13, <2>15
  <2>18. Given(t.header, r.t.header, b, align, size)
    BY <2>9, <2>12, <2>13, <2>14, <2>17 DEF Given
  <2>19. QED BY <1>3, <2>13, <2>16, <2>18 DEF asked
<1>4. QED BY <1>2, <1>3

-----------------------------------------------------------------------------
(* tlsf_free                                                               *)

LEMMA NextWord ==
  ASSUME NEW t, NEW b, b \in Nat, t.header[b].size \in Nat
  PROVE  block_next(t, b) = After(t.header, b)
BY DEF block_next, Size, NextAfter, block_to_ptr, block_start_offset, block_header_overhead, After

(* What joining blocks gives: the blocks callers have are not touched.     *)
Joined(t, P, m, b, n) ==
  /\ Sound(m, P, {n}, {b}) /\ After(m.header, b) = n
  /\ \A c : Kept(t.header, m.header, c)

LEMMA MergePrev ==
  ASSUME NEW t, NEW P, NEW b, NEW n, Sound(t, P, {b, n}, {b}), n = After(t.header, b), b # n,
         NEW m, m = block_merge_prev(t, b)
  PROVE  Joined(t, P, m.t, m.block, n)
<1> DEFINE H == t.header
           prev == H[b].prev_phys
           v == block_remove(t, prev)
           w == block_absorb(v, prev, b)
<1>1. Chain(H, P) /\ Coalesced(H, {b, n}) /\ b \in FreeOf(H) BY DEF Sound
<1>2. b \in DOMAIN H /\ b \in Nat /\ Headers(H) BY <1>1, FreeSizes DEF Chain
<1>3. CASE ~H[b].prev_free
  <2>1. m = [t |-> t, block |-> b] BY <1>3 DEF block_merge_prev
  <2>2. m.t = t /\ m.block = b BY <2>1
  <2>3. Coalesced(H, {n}) BY <1>1, <1>3 DEF Coalesced
  <2>4. Sound(t, P, {n}, {b}) BY <2>3 DEF Sound
  <2>5. \A c : Kept(H, H, c) BY DEF Kept
  <2>6. QED BY <2>2, <2>4, <2>5 DEF Joined
<1>4. CASE H[b].prev_free
  <2>1. m = [t |-> w, block |-> prev] BY <1>4 DEF block_merge_prev
  <2>2. m.t = w /\ m.block = prev BY <2>1
  <2> HIDE DEF w
  <2>3. w = block_absorb(v, prev, b) BY DEF w
  <2>4. prev \in DOMAIN H /\ H[prev].size # 0 /\ H[prev].free /\ After(H, prev) = b
    BY <1>1, <1>2, <1>4 DEF Chain, Before
  <2>5. prev # b /\ prev \in FreeOf(H) BY <1>2, <2>4, Fields DEF FreeOf
  <2>6. v = remove_free_block(t, prev, At(t, prev)) BY DEF block_remove, At
  <2> HIDE DEF v, prev
  <2>7. prev \in FreeOf(t.header) \ {b} BY <2>5
  <2>8. Sound(v, P, {b, n}, {b} \cup {prev}) /\ v.header = t.header BY <2>6, <2>7, SoundRemove
  <2>9. prev \in {b} \cup {prev} /\ b \in {b} \cup {prev} /\ b = After(v.header, prev)
        /\ n = After(v.header, b)
    BY <2>4, <2>8
  <2>10. /\ Sound(w, P, {b, n} \ {b}, ({b} \cup {prev}) \ {b})
         /\ \A d : Kept(v.header, w.header, d)
         /\ After(w.header, prev) = n
    <3>1. IsAbsorbed(v, P, {b, n}, {b} \cup {prev}, prev, b, n, w)
      BY <2>3, <2>8, <2>9, SoundAbsorb
    <3>2. QED BY <3>1 DEF IsAbsorbed
  <2>11. {b, n} \ {b} = {n} /\ ({b} \cup {prev}) \ {b} = {prev} BY <2>5
  <2>12. Sound(w, P, {n}, {prev}) BY <2>10, <2>11
  <2>13. QED BY <2>2, <2>8, <2>10, <2>12 DEF Joined
<1>5. QED BY <1>3, <1>4

LEMMA MergeNext ==
  ASSUME NEW t, NEW P, NEW b, NEW n, Sound(t, P, {n}, {b}), n = After(t.header, b),
         NEW w, w = block_merge_next(t, b)
  PROVE  Sound(w, P, {}, {b}) /\ \A c : Kept(t.header, w.header, c)
<1> DEFINE H == t.header
           v == block_remove(t, n)
<1>1. Chain(H, P) /\ Coalesced(H, {n}) /\ b \in FreeOf(H) BY DEF Sound
<1>2. b \in DOMAIN H /\ b \in Nat /\ Headers(H) /\ H[b].size # 0 /\ H[b].size \in Nat
  BY <1>1, FreeSizes DEF Chain
<1>3. n \in DOMAIN H /\ n # b BY <1>1, <1>2, SizeBounds, Fields
<1>4. block_next(t, b) = n BY <1>2, NextWord
<1>5. CASE ~H[n].free
  <2>1. w = t BY <1>4, <1>5 DEF block_merge_next
  <2>2. Coalesced(H, {}) BY <1>1, <1>5 DEF Coalesced
  <2>3. Sound(t, P, {}, {b}) BY <2>2 DEF Sound
  <2>4. \A c : Kept(H, H, c) BY DEF Kept
  <2>5. QED BY <2>1, <2>3, <2>4
<1>6. CASE H[n].free
  <2>1. w = block_absorb(v, b, n) BY <1>4, <1>6 DEF block_merge_next
  <2>2. n \in FreeOf(t.header) \ {b} BY <1>3, <1>6 DEF FreeOf
  <2>3. v = remove_free_block(t, n, At(t, n)) BY DEF block_remove, At
  <2> HIDE DEF v
  <2>4. Sound(v, P, {n}, {b} \cup {n}) /\ v.header = t.header BY <2>2, <2>3, SoundRemove
  <2>5. b \in {b} \cup {n} /\ n \in {b} \cup {n} /\ n = After(v.header, b) BY <2>4
  <2>6. /\ Sound(w, P, {n} \ {n}, ({b} \cup {n}) \ {n}) /\ \A d : Kept(v.header, w.header, d)
    <3>1. IsAbsorbed(v, P, {n}, {b} \cup {n}, b, n, After(v.header, n), w)
      BY <2>1, <2>4, <2>5, SoundAbsorb
    <3>2. QED BY <3>1 DEF IsAbsorbed
  <2>7. {n} \ {n} = {} /\ ({b} \cup {n}) \ {n} = {b} BY <1>3
  <2>8. Sound(w, P, {}, {b}) BY <2>6, <2>7
  <2>9. QED BY <2>4, <2>6, <2>8
<1>7. QED BY <1>5, <1>6

LEMMA FreeSound ==
  ASSUME NEW t, NEW P, Sound(t, P, {}, {}), NEW ptr \in Nat,
         ptr - 2 \in DOMAIN t.header, ~t.header[ptr - 2].free, t.header[ptr - 2].size # 0,
         NEW u, u = tlsf_free(t, ptr)
  PROVE  Sound(u, P, {}, {}) /\ Kept(t.header, u.header, ptr - 2)
<1> DEFINE b == ptr - 2
           n == After(t.header, b)
           f == block_mark_as_free(t, b)
           m == block_merge_prev(f, b)
           w == block_merge_next(m.t, m.block)
<1>1. ptr # null
  <2>1. b \in Nat BY DEF Sound, Chain, Headers
  <2>2. QED BY <2>1 DEF null
<1>2. u = block_insert(w, m.block) BY <1>1 DEF tlsf_free, block_from_ptr, block_start_offset
<1> HIDE DEF w, m, f, b
<1>3. f = block_mark_as_free(t, b) /\ m = block_merge_prev(f, b)
      /\ w = block_merge_next(m.t, m.block)
  BY DEF f, m, w
<1>4. b \in DOMAIN t.header /\ ~t.header[b].free /\ t.header[b].size # 0 BY DEF b
<1>5. /\ Sound(f, P, {} \cup {b, n}, {} \cup {b}) /\ Kept(t.header, f.header, b)
      /\ After(f.header, b) = n /\ b # n
  <2>1. n = After(t.header, b) OBVIOUS
  <2> HIDE DEF n
  <2>2. IsFreed(t, P, {}, {}, b, n, f) BY <1>3, <1>4, <2>1, SoundFreed
  <2>3. QED BY <2>2 DEF IsFreed
<1>6. {} \cup {b, n} = {b, n} /\ {} \cup {b} = {b} OBVIOUS
<1> HIDE DEF n
<1>7. Sound(f, P, {b, n}, {b}) /\ n = After(f.header, b) /\ b # n BY <1>5, <1>6
<1>8. Joined(f, P, m.t, m.block, n) BY <1>3, <1>7, MergePrev
<1>9. Sound(m.t, P, {n}, {m.block}) /\ n = After(m.t.header, m.block) BY <1>8 DEF Joined
<1>10. Sound(w, P, {}, {m.block}) /\ \A c : Kept(m.t.header, w.header, c)
  BY <1>3, <1>9, MergeNext
<1>11. m.block \in {m.block} OBVIOUS
<1>12. /\ Sound(block_insert(w, m.block), P, {}, {m.block} \ {m.block})
       /\ block_insert(w, m.block).header = w.header
  BY <1>10, <1>11, SoundInsert
<1>13. {m.block} \ {m.block} = {} OBVIOUS
<1>14. Sound(u, P, {}, {}) /\ u.header = w.header BY <1>2, <1>12, <1>13
<1>15. Kept(f.header, m.t.header, b) BY <1>8 DEF Joined
<1>16. Kept(m.t.header, w.header, b) BY <1>10
<1>17. Kept(t.header, m.t.header, b) BY <1>5, <1>15, KeptTwice
<1>18. Kept(t.header, w.header, b) BY <1>16, <1>17, KeptTwice
<1>19. QED BY <1>14, <1>18 DEF b

-----------------------------------------------------------------------------
(* What the allocator's own checks insist on.                              *)

LEMMA Places ==
  ASSUME NEW list, NEW B, Enumerates(list, B), NEW k \in DOMAIN list
  PROVE  list[k] \in B
<1>1. list \in Seq(Nat) BY DEF Enumerates
<1>2. k \in 1 .. Len(list) BY <1>1
<1>3. QED BY <1>2 DEF Enumerates

LEMMA ListsCheck ==
  ASSUME NEW t, NEW P, Sound(t, P, {}, {})
  PROVE  tlsf_check(t)
<1> DEFINE H == t.header
           F == FreeOf(H)
<1>1. Chain(H, P) /\ Coalesced(H, {}) /\ Listing(t, F)
  <2>1. F \ {} = F OBVIOUS
  <2>2. QED BY <2>1 DEF Sound
<1> SUFFICES ASSUME NEW fl \in FLs, NEW sl \in SLs
             PROVE  /\ fl \notin t.fl_bitmap => sl \notin t.sl_bitmap[fl]
                    /\ sl \notin t.sl_bitmap[fl] <=> t.blocks[fl][sl] = <<>>
                    /\ \A k \in DOMAIN t.blocks[fl][sl] :
                         LET block == t.blocks[fl][sl][k]
                             next  == block_next(t, block)
                         IN  /\ block \in DOMAIN t.header /\ next \in DOMAIN t.header
                             /\ t.header[block].free /\ ~t.header[block].prev_free
                             /\ ~t.header[next].free /\ t.header[next].prev_free
                             /\ Size(t, block) >= block_size_min
                             /\ mapping_insert(Size(t, block)) = [fl |-> fl, sl |-> sl]
  BY DEF tlsf_check, FLs, SLs
<1>2. Bits(t) /\ Enumerates(t.blocks[fl][sl], Class(t, F, fl, sl)) BY <1>1 DEF Listing
<1>3. fl \notin t.fl_bitmap => sl \notin t.sl_bitmap[fl] BY <1>2 DEF Bits
<1>4. sl \notin t.sl_bitmap[fl] <=> t.blocks[fl][sl] = <<>> BY <1>2 DEF Bits
<1>5. ASSUME NEW k \in DOMAIN t.blocks[fl][sl], NEW block, block = t.blocks[fl][sl][k],
             NEW next, next = block_next(t, block)
      PROVE  /\ block \in DOMAIN t.header /\ next \in DOMAIN t.header
             /\ t.header[block].free /\ ~t.header[block].prev_free
             /\ ~t.header[next].free /\ t.header[next].prev_free
             /\ Size(t, block) >= block_size_min
             /\ mapping_insert(Size(t, block)) = [fl |-> fl, sl |-> sl]
  <2>1. block \in Class(t, F, fl, sl) BY <1>2, <1>5, Places
  <2>2. block \in F /\ At(t, block) = [fl |-> fl, sl |-> sl] BY <2>1 DEF Class
  <2>3. /\ block \in DOMAIN H /\ block \in Nat /\ H[block].free /\ H[block].size # 0
        /\ H[block].size \in Nat /\ H[block].size >= 3
    BY <1>1, <2>2, FreeSizes
  <2>4. next = After(H, block) BY <1>5, <2>3, NextWord
  <2>5. next \in DOMAIN H /\ H[next].prev_free = H[block].free
    BY <1>1, <2>3, <2>4 DEF Chain, Next2
  <2>6. ~H[block].prev_free BY <1>1, <2>3 DEF Coalesced
  <2>7. H[next].prev_free BY <2>3, <2>5
  <2>8. ~H[next].free BY <1>1, <2>5, <2>7 DEF Coalesced
  <2>9. QED BY <2>2, <2>3, <2>5, <2>6, <2>7, <2>8 DEF Size, block_size_min, At
<1>6. QED BY <1>3, <1>4, <1>5

(* No pool reaches the word before the first of another.                   *)
LEMMA PoolCheck ==
  ASSUME NEW t, NEW P, Sound(t, P, {}, {}), NEW pool \in Nat,
         \A p \in P : ~(p.first < pool - 1 /\ pool - 1 <= p.last)
  PROVE  tlsf_check_pool(t, pool)
<1> DEFINE H == t.header
           first == pool - 1
<1>1. Chain(H, P) /\ Headers(H) /\ Pools(P) BY DEF Sound, Chain
<1>2. ASSUME first \in DOMAIN H, H[first].prev_free PROVE FALSE
  <2>1. PICK b \in DOMAIN H : H[b].size # 0 /\ After(H, b) = first
    BY <1>1, <1>2 DEF Chain, Before
  <2>2. PICK p \in P : Within(H, p, b) BY <1>1 DEF Chain
  <2>3. b < first /\ b \in Nat BY <1>1, <2>1, Fields
  <2>4. p.first \in Nat /\ p.first <= b /\ first <= p.last BY <1>1, <2>1, <2>2 DEF Within, Pools
  <2>5. p.first < first BY <2>3, <2>4
  <2>6. QED BY <2>4, <2>5
<1>3. ASSUME NEW b \in DOMAIN H, H[b].size # 0, NEW next, next = block_next(t, b)
      PROVE  /\ next \in DOMAIN H /\ H[next].prev_free = H[b].free
             /\ H[next].prev_free => H[next].prev_phys = b
  <2>1. b \in Nat /\ H[b].size \in Nat BY <1>1, Fields
  <2>2. next = After(H, b) BY <1>3, <2>1, NextWord
  <2>3. Next2(H, b) BY <1>1 DEF Chain
  <2>4. QED BY <1>3, <2>2, <2>3 DEF Next2
<1>4. QED BY <1>2, <1>3 DEF tlsf_check_pool, Size, block_header_overhead

LEMMA ListShort ==
  ASSUME NEW list, NEW B, Enumerates(list, B), NEW D, IsFiniteSet(D), B \subseteq D
  PROVE  Len(list) <= Cardinality(D) /\ Len(list) \in Nat /\ Cardinality(D) \in Nat
<1> DEFINE n == Len(list)
           f == [k \in 1 .. n |-> list[k]]
<1>1. n \in Nat BY DEF Enumerates
<1>2. f \in Injection(1 .. n, D) BY DEF Enumerates, Injection, IsInjective
<1>3. IsFiniteSet(1 .. n) /\ Cardinality(1 .. n) = n BY <1>1, FS_Interval, SMTT(20)
<1> HIDE DEF f, n
<1>4. Cardinality(1 .. n) <= Cardinality(D) BY <1>2, FS_Injection
<1>5. Cardinality(D) \in Nat BY FS_CardinalityType
<1>6. QED BY <1>1, <1>3, <1>4, <1>5 DEF n

LEMMA OnceListed ==
  ASSUME NEW P, Sound(tlsf, P, {}, {}), NEW block \in DOMAIN tlsf.header
  PROVE  Cardinality(Listed(block)) = IF tlsf.header[block].free THEN 1 ELSE 0
<1> DEFINE t == tlsf
           H == t.header
           F == FreeOf(H)
           K == 1 .. Cardinality(DOMAIN H)
           list(fl, sl) == t.blocks[fl][sl]
<1>1. Chain(H, P) /\ Listing(t, F) /\ IsFiniteSet(DOMAIN H) /\ F \subseteq DOMAIN H
  <2>1. F \ {} = F OBVIOUS
  <2>2. QED BY <2>1 DEF Sound, Chain, Headers, FreeOf
<1>2. Listed(block) = {p \in FLs \X SLs \X K : p[3] \in DOMAIN list(p[1], p[2])
                                               /\ list(p[1], p[2])[p[3]] = block}
  BY DEF Listed, FLs, SLs
<1>3. ASSUME NEW fl \in FLs, NEW sl \in SLs
      PROVE  Enumerates(list(fl, sl), Class(t, F, fl, sl))
  BY <1>1 DEF Listing
<1>4. CASE ~H[block].free
  <2>1. ASSUME NEW p \in Listed(block) PROVE FALSE
    <3>1. p[1] \in FLs /\ p[2] \in SLs /\ p[3] \in DOMAIN list(p[1], p[2])
          /\ list(p[1], p[2])[p[3]] = block
      BY <1>2, <2>1
    <3>2. block \in Class(t, F, p[1], p[2])
      <4>1. Enumerates(list(p[1], p[2]), Class(t, F, p[1], p[2])) BY <1>3, <3>1
      <4> HIDE DEF list
      <4>2. QED BY <3>1, <4>1, Places
    <3>3. QED BY <1>4, <3>2 DEF Class, FreeOf
  <2>2. Listed(block) = {} BY <2>1
  <2>3. QED BY <1>4, <2>2, FS_EmptySet
<1>5. CASE H[block].free
  <2> DEFINE m == At(t, block)
  <2>1. block \in F BY <1>5 DEF FreeOf
  <2>2. m.fl \in FLs /\ m.sl \in SLs /\ m = [fl |-> m.fl, sl |-> m.sl]
        /\ block \in Class(t, F, m.fl, m.sl)
    BY <1>1, <2>1, WhereListed
  <2> DEFINE l == list(m.fl, m.sl)
  <2> HIDE DEF m
  <2>3. Enumerates(l, Class(t, F, m.fl, m.sl)) BY <1>3, <2>2
  <2>4. Class(t, F, m.fl, m.sl) \subseteq DOMAIN H BY <1>1 DEF Class
  <2> HIDE DEF l, F
  <2>5. Len(l) <= Cardinality(DOMAIN H) /\ Len(l) \in Nat /\ Cardinality(DOMAIN H) \in Nat
    BY <1>1, <2>3, <2>4, ListShort
  <2>6. PICK k \in 1 .. Len(l) : l[k] = block BY <2>2, <2>3 DEF Enumerates
  <2>7. k \in K /\ DOMAIN l = 1 .. Len(l) BY <2>3, <2>5 DEF Enumerates
  <2>8. <<m.fl, m.sl, k>> \in Listed(block) BY <1>2, <2>2, <2>6, <2>7 DEF l
  <2>9. ASSUME NEW p \in Listed(block) PROVE p = <<m.fl, m.sl, k>>
    <3>1. p \in FLs \X SLs \X K /\ p[1] \in FLs /\ p[2] \in SLs
          /\ p[3] \in DOMAIN list(p[1], p[2]) /\ list(p[1], p[2])[p[3]] = block
      BY <1>2, <2>9
    <3>2. block \in Class(t, F, p[1], p[2])
      <4>1. Enumerates(list(p[1], p[2]), Class(t, F, p[1], p[2])) BY <1>3, <3>1
      <4> HIDE DEF list
      <4>2. QED BY <3>1, <4>1, Places
    <3>3. m = [fl |-> p[1], sl |-> p[2]] BY <3>2 DEF Class, m
    <3>4. m.fl = p[1] /\ m.sl = p[2] BY <3>3
    <3>5. p[3] \in 1 .. Len(l) /\ l[p[3]] = block BY <2>7, <3>1, <3>4 DEF l
    <3>6. p[3] = k BY <2>3, <2>6, <3>5 DEF Enumerates
    <3>7. QED BY <3>1, <3>4, <3>6
  <2>10. Listed(block) = {<<m.fl, m.sl, k>>} BY <2>8, <2>9
  <2>11. QED BY <1>5, <2>10, FS_Singleton
<1>6. QED BY <1>4, <1>5

-----------------------------------------------------------------------------
(* Arenas, and what callers hold.                                          *)

PoolsIn(P, areas) == \A p \in P : \E n \in DOMAIN areas :
                    /\ p.first = areas[n].start + 1
                    /\ p.last = areas[n].start + areas[n].words - 2

Spaced(areas) == /\ areas \in Seq([start : Nat, words : Nat])
              /\ \A n \in DOMAIN areas : areas[n].start = n * 2 * block_size_max

LEMMA Steps ==
  ASSUME NEW m \in Nat, NEW n \in Nat, m < n
  PROVE  /\ m * 2 * block_size_max \in Nat /\ n * 2 * block_size_max \in Nat
         /\ m * 2 * block_size_max + 2 * block_size_max <= n * 2 * block_size_max
         /\ block_size_max \in Nat /\ block_size_max >= 1
<1> DEFINE f == block_size_max
           x == m * 2
           y == n * 2
<1>1. f \in Nat /\ f >= 1 BY Indexes, Power
<1>2. x \in Nat /\ y \in Nat /\ x + 1 \in Nat /\ x + 1 + 1 <= y OBVIOUS
<1> HIDE DEF f, x, y
<1>3. (x + 1) * f = x * f + f /\ (x + 1 + 1) * f = (x + 1) * f + f /\ x * f \in Nat
  BY <1>1, <1>2, Products
<1>4. x + 1 + 1 \in Nat BY <1>2
<1>5. (x + 1 + 1) * f <= y * f /\ y * f \in Nat BY <1>1, <1>2, <1>4, Products
<1>6. x * f + 2 * f <= y * f BY <1>1, <1>3, <1>5
<1>7. QED BY <1>1, <1>3, <1>5, <1>6 DEF x, y, f

LEMMA ArenaTypes ==
  ASSUME NEW areas, Spaced(areas)
  PROVE  /\ Len(areas) \in Nat
         /\ \A n \in DOMAIN areas : n \in 1 .. Len(areas) /\ areas[n].start \in Nat /\ areas[n].words \in Nat
<1> DEFINE A == [start : Nat, words : Nat]
<1>1. areas \in Seq(A) BY DEF Spaced
<1> HIDE DEF A
<1>2. Len(areas) \in Nat /\ DOMAIN areas = 1 .. Len(areas) BY <1>1, LenProperties
<1>3. \A n \in 1 .. Len(areas) : areas[n] \in A BY <1>1, ElementOfSeq
<1>4. QED BY <1>2, <1>3 DEF A

LEMMA Spacing ==
  ASSUME NEW areas, Spaced(areas), NEW P, Pools(P), PoolsIn(P, areas), NEW p \in P
  PROVE  /\ p.first \in Nat /\ p.last \in Nat
         /\ \E n \in DOMAIN areas :
              /\ p.first = areas[n].start + 1 /\ p.last = areas[n].start + areas[n].words - 2
              /\ p.last < areas[n].start + 2 + block_size_max
<1>1. PICK n \in DOMAIN areas : p.first = areas[n].start + 1 /\ p.last = areas[n].start + areas[n].words - 2
  BY DEF PoolsIn
<1>2. p.last - p.first - 1 < block_size_max BY DEF Pools
<1>3. p.last \in Nat /\ p.first \in Nat BY DEF Pools
<1>4. block_size_max \in Nat BY Indexes
<1>5. areas[n].start \in Nat BY ArenaTypes
<1> DEFINE x == areas[n].start
           f == block_size_max
           u == p.first
           v == p.last
<1>6. p.last < areas[n].start + 2 + block_size_max
  <2>1. x \in Nat /\ f \in Nat /\ u \in Nat /\ v \in Nat /\ u = x + 1 /\ v - u - 1 < f
    BY <1>1, <1>2, <1>3, <1>4, <1>5
  <2> HIDE DEF x, f, u, v
  <2>2. v < x + 2 + f BY <2>1
  <2>3. QED BY <2>2 DEF x, f, v
<1>7. QED BY <1>1, <1>3, <1>6

LEMMA Between ==
  ASSUME NEW first \in Nat, NEW last \in Nat, NEW x \in Nat, NEW start \in Nat, NEW f \in Nat,
         f >= 1, first = x + 1, last < x + 2 + f
  PROVE  /\ x + 2 * f <= start => last < start + 1
         /\ x = start \/ start + 2 * f <= x => ~(first < start + 1)
OBVIOUS

(* Where the next arena goes, or one that is there, no pool reaches.       *)
LEMMA NoPoolThere ==
  ASSUME NEW areas, Spaced(areas), NEW P, Pools(P), PoolsIn(P, areas), NEW p \in P,
         NEW k \in 1 .. Len(areas) + 1, NEW start, start = k * 2 * block_size_max
  PROVE  /\ start \in Nat
         /\ ~(p.first < start + 1 /\ start + 1 <= p.last)
         /\ k = Len(areas) + 1 => p.last < start + 1
<1>1. p.first \in Nat /\ p.last \in Nat BY Spacing
<1>2. PICK n \in DOMAIN areas :
        /\ p.first = areas[n].start + 1 /\ p.last < areas[n].start + 2 + block_size_max
  BY Spacing
<1> DEFINE x == areas[n].start
<1>3. x \in Nat /\ x = n * 2 * block_size_max BY ArenaTypes DEF Spaced
<1>4. Len(areas) \in Nat /\ n \in 1 .. Len(areas) BY ArenaTypes
<1> DEFINE l == Len(areas)
<1>12. l \in Nat /\ n \in 1 .. l /\ k \in 1 .. l + 1 BY <1>4
<1> HIDE DEF l
<1>5. n \in Nat /\ k \in Nat BY <1>12
<1>6. block_size_max \in Nat /\ block_size_max >= 1 BY Indexes, Power
<1>7. p.first = x + 1 /\ p.last < x + 2 + block_size_max BY <1>2
<1> HIDE DEF x
<1>8. CASE n < k
  <2>1. start \in Nat /\ x + 2 * block_size_max <= start BY <1>3, <1>5, <1>8, Steps
  <2>2. p.last < start + 1 BY <1>1, <1>3, <1>6, <1>7, <2>1, Between
  <2>3. ~(start + 1 <= p.last) BY <1>1, <2>1, <2>2
  <2>4. QED BY <2>1, <2>2, <2>3
<1>9. CASE n = k
  <2>1. start = x BY <1>3, <1>9
  <2>2. ~(p.first < start + 1) BY <1>1, <1>3, <1>6, <1>7, <2>1, Between
  <2>3. k # l + 1 BY <1>12, <1>9
  <2>4. QED BY <1>3, <2>1, <2>2, <2>3 DEF l
<1>10. CASE k < n
  <2>1. start \in Nat /\ start + 2 * block_size_max <= x BY <1>3, <1>5, <1>10, Steps
  <2>2. ~(p.first < start + 1) BY <1>1, <1>3, <1>6, <1>7, <2>1, Between
  <2>3. k # l + 1 BY <1>12, <1>10
  <2>4. QED BY <2>1, <2>2, <2>3 DEF l
<1>11. n < k \/ n = k \/ k < n BY ONLY <1>5
<1>13. QED BY <1>8, <1>9, <1>10, <1>11

Used(H, ptr, size) == /\ ptr \in Nat /\ ptr - 2 \in DOMAIN H
                      /\ ~H[ptr - 2].free /\ H[ptr - 2].size # 0 /\ H[ptr - 2].size >= size

HeldType == [ptr : Nat, words : Nat, alignment : Nat \ {0}]
CallType == [op : {"alloc", "free", "none"}, size : Nat, alignment : Nat \ {0}, ptr : Nat]

Freeing(c, thread) == c[thread].op = "free"

Calls(c) == /\ c \in [Threads -> CallType]
            /\ \A thread \in Threads : c[thread].op = "alloc" =>
                 c[thread].size \in Sizes /\ c[thread].alignment \in Alignments

(* The words of the pool an arena is made for, and of a request.           *)
Pool(size) == Max({grow_increment, size * 2}) \div ALIGN_SIZE

LEMMA WordsUp ==
  ASSUME NEW size \in Nat
  PROVE  InWords(size) \in Nat /\ size <= 8 * InWords(size) /\ 8 * InWords(size) <= size + 7
BY DEF InWords, ALIGN_SIZE

LEMMA PoolWords ==
  ASSUME NEW size \in Nat
  PROVE  /\ Pool(size) \in Nat
         /\ arena_size(size) \div ALIGN_SIZE = Pool(size) + 2
         /\ grow_increment <= 8 * Pool(size) + 7 /\ size * 2 <= 8 * Pool(size) + 7
<1> DEFINE bytes == Max({grow_increment, size * 2})
<1>1. grow_increment \in Nat /\ size * 2 \in Nat BY HeapAssumption
<1>2. bytes = IF grow_increment >= size * 2 THEN grow_increment ELSE size * 2 BY <1>1, Largest
<1>3. bytes \in Nat /\ bytes >= grow_increment /\ bytes >= size * 2 BY <1>1, <1>2
<1>4. arena_size(size) = bytes + 2 * 8 BY DEF arena_size, ArenaHeader, ALIGN_SIZE
<1>5. Pool(size) = bytes \div 8 BY DEF Pool, ALIGN_SIZE
<1> HIDE DEF bytes
<1>6. /\ bytes \div 8 \in Nat /\ (bytes + 2 * 8) \div 8 = bytes \div 8 + 2
      /\ bytes <= 8 * (bytes \div 8) + 7
  BY <1>3
<1>7. QED BY <1>1, <1>3, <1>4, <1>5, <1>6 DEF ALIGN_SIZE

(* What callers hold, or are giving back, are used blocks, each once.      *)
Holds(H, D, c) ==
  /\ D \subseteq HeldType
  /\ \A a \in D : Used(H, a.ptr, a.words) /\ a.ptr % a.alignment = 0
  /\ \A a, b \in D : a.ptr = b.ptr => a = b
  /\ \A s \in Threads : Freeing(c, s) => Used(H, c[s].ptr, 0)
  /\ \A a \in D, s \in Threads : Freeing(c, s) => c[s].ptr # a.ptr
  /\ \A r, s \in Threads : Freeing(c, r) /\ Freeing(c, s) /\ c[r].ptr = c[s].ptr => r = s

LEMMA UsedKept ==
  ASSUME NEW H, NEW G, NEW b, Kept(H, G, b), NEW ptr, NEW size, Used(H, ptr, size), ptr - 2 # b
  PROVE  Used(G, ptr, size)
BY DEF Kept, Used

LEMMA HoldsKept ==
  ASSUME NEW H, NEW D, NEW c, Holds(H, D, c),
         NEW G, NEW b, Kept(H, G, b), b \in DOMAIN H => H[b].free
  PROVE  Holds(G, D, c)
<1>1. \A a \in D : Used(G, a.ptr, a.words)
  <2> TAKE a \in D
  <2>1. Used(H, a.ptr, a.words) BY DEF Holds
  <2>2. a.ptr - 2 # b BY <2>1 DEF Used
  <2>3. QED BY <2>1, <2>2, UsedKept
<1>2. \A s \in Threads : Freeing(c, s) => Used(G, c[s].ptr, 0)
  <2> SUFFICES ASSUME NEW s \in Threads, Freeing(c, s) PROVE Used(G, c[s].ptr, 0) OBVIOUS
  <2>1. Used(H, c[s].ptr, 0) BY DEF Holds
  <2>2. c[s].ptr - 2 # b BY <2>1 DEF Used
  <2>3. QED BY <2>1, <2>2, UsedKept
<1>3. QED BY <1>1, <1>2 DEF Holds

(* The call of s ends.                                                     *)
LEMMA Ended_ ==
  ASSUME NEW c \in [Threads -> CallType], NEW s \in Threads, NEW d, d = [c EXCEPT ![s] = Idle]
  PROVE  /\ ~Freeing(d, s)
         /\ \A r \in Threads : Freeing(d, r) => r # s /\ Freeing(c, r) /\ d[r] = c[r]
BY DEF Idle, Freeing

LEMMA HoldsEnded ==
  ASSUME NEW H, NEW D, NEW c, Holds(H, D, c), c \in [Threads -> CallType],
         NEW s \in Threads, NEW d, d = [c EXCEPT ![s] = Idle]
  PROVE  Holds(H, D, d)
<1>1. \A r \in Threads : Freeing(d, r) => Freeing(c, r) /\ d[r] = c[r] BY Ended_
<1>2. QED BY <1>1 DEF Holds

LEMMA HoldsMore ==
  ASSUME NEW H, NEW D, NEW c, Holds(H, D, c), NEW h \in HeldType,
         Used(H, h.ptr, h.words), h.ptr % h.alignment = 0,
         \A a \in D : a.ptr # h.ptr, \A s \in Threads : Freeing(c, s) => c[s].ptr # h.ptr
  PROVE  Holds(H, D \cup {h}, c)
BY DEF Holds

LEMMA HoldsGiven ==
  ASSUME NEW H, Headers(H), NEW D, NEW c, Holds(H, D, c), c \in [Threads -> CallType],
         NEW s \in Threads, NEW d, d = [c EXCEPT ![s] = Idle],
         NEW G, NEW ptr \in Nat, NEW align \in Nat \ {0}, NEW size \in Nat,
         Given(H, G, ptr - 2, align, size)
  PROVE  Holds(G, D \cup {[ptr |-> ptr, words |-> size, alignment |-> align]}, d)
<1> DEFINE b == ptr - 2
           h == [ptr |-> ptr, words |-> size, alignment |-> align]
<1>1. /\ b \in DOMAIN G /\ ~G[b].free /\ G[b].size >= size /\ G[b].size # 0
      /\ (b + 2) % align = 0 /\ (b \in DOMAIN H => H[b].free) /\ Kept(H, G, b)
  BY DEF Given
<1>2. b + 2 = ptr OBVIOUS
<1>3. Used(G, ptr, size) /\ ptr % align = 0 BY <1>1, <1>2 DEF Used
<1>4. ASSUME NEW p, NEW n, Used(H, p, n) PROVE p # ptr BY <1>1, <1>4 DEF Used
<1>5. Holds(H, D, d) BY HoldsEnded
<1>6. \A a \in D : a.ptr # ptr BY <1>4 DEF Holds
<1>7. \A r \in Threads : Freeing(d, r) => d[r].ptr # ptr BY <1>4, <1>5 DEF Holds
<1> HIDE DEF b
<1>8. Holds(G, D, d) BY <1>1, <1>5, HoldsKept
<1>9. h \in HeldType /\ h.ptr = ptr /\ h.words = size /\ h.alignment = align BY DEF HeldType
<1> HIDE DEF h
<1>10. Holds(G, D \cup {h}, d) BY <1>3, <1>6, <1>7, <1>8, <1>9, HoldsMore
<1>11. QED BY <1>10 DEF h

LEMMA HoldsFreed ==
  ASSUME NEW H, NEW D, NEW c, Holds(H, D, c), c \in [Threads -> CallType],
         NEW s \in Threads, Freeing(c, s), NEW d, d = [c EXCEPT ![s] = Idle],
         NEW G, Kept(H, G, c[s].ptr - 2)
  PROVE  Holds(G, D, d)
<1>1. c[s].ptr \in Nat BY DEF CallType
<1>2. \A r \in Threads : Freeing(d, r) => r # s /\ Freeing(c, r) /\ d[r] = c[r] BY Ended_
<1>3. \A a \in D : Used(G, a.ptr, a.words)
  <2> TAKE a \in D
  <2>1. Used(H, a.ptr, a.words) /\ a.ptr # c[s].ptr BY DEF Holds
  <2>2. a.ptr - 2 # c[s].ptr - 2 BY <1>1, <2>1 DEF Used
  <2>3. QED BY <2>1, <2>2, UsedKept
<1>4. \A r \in Threads : Freeing(d, r) => Used(G, d[r].ptr, 0)
  <2> SUFFICES ASSUME NEW r \in Threads, Freeing(d, r) PROVE Used(G, d[r].ptr, 0) OBVIOUS
  <2>1. Used(H, c[r].ptr, 0) /\ c[r].ptr # c[s].ptr /\ d[r] = c[r] BY <1>2 DEF Holds
  <2>2. c[r].ptr - 2 # c[s].ptr - 2 BY <1>1, <2>1 DEF Used
  <2>3. QED BY <2>1, <2>2, UsedKept
<1>5. QED BY <1>2, <1>3, <1>4 DEF Holds

(* What callers hold is apart from everything else.                        *)
LEMMA BlocksApart ==
  ASSUME NEW H, NEW P, Chain(H, P), NEW x \in Nat, NEW m \in Nat, NEW y \in Nat, NEW n \in Nat,
         Used(H, x, m), Used(H, y, n), x # y
  PROVE  (x .. x + m - 1) \cap (y .. y + n - 1) = {}
<1>1. Headers(H) /\ Apart(H) BY DEF Chain
<1>2. ASSUME NEW u \in Nat, NEW j \in Nat, NEW v \in Nat, NEW k \in Nat,
             Used(H, u, j), Used(H, v, k), u < v
      PROVE  u + j - 1 < v
  <2> DEFINE b == u - 2
             c == v - 2
             s == H[b].size
  <2>1. b \in DOMAIN H /\ s # 0 /\ s >= j /\ c \in DOMAIN H BY <1>2 DEF Used
  <2>2. s \in Nat /\ b \in Nat /\ c \in Nat BY <1>1, <2>1, Fields
  <2>3. b < c BY <1>2
  <2>4. After(H, b) <= c
    <3> HIDE DEF b, c
    <3>1. QED BY <1>1, <2>1, <2>3 DEF Apart
  <2>5. b + s + 1 <= c BY <2>4 DEF After
  <2>6. u = b + 2 /\ v = c + 2 BY <2>2
  <2> HIDE DEF b, c, s
  <2>7. QED BY <2>1, <2>2, <2>5, <2>6
<1>3. x < y \/ y < x OBVIOUS
<1>4. CASE x < y
  <2>1. x + m - 1 < y BY <1>2, <1>4
  <2>2. QED BY <2>1
<1>5. CASE y < x
  <2>1. y + n - 1 < x BY <1>2, <1>5
  <2>2. QED BY <2>1
<1>6. QED BY <1>3, <1>4, <1>5

LEMMA HeadersApart ==
  ASSUME NEW H, NEW P, Chain(H, P), NEW x \in Nat, NEW m \in Nat, Used(H, x, m), NEW b \in DOMAIN H
  PROVE  (x .. x + m - 1) \cap (IF H[b].free THEN b + 1 .. b + 3 ELSE {b + 1}) = {}
<1> DEFINE c == x - 2
           s == H[c].size
           W == x .. x + m - 1
<1>1. Headers(H) /\ Apart(H) BY DEF Chain
<1>2. c \in DOMAIN H /\ ~H[c].free /\ s # 0 /\ s >= m BY DEF Used
<1>3. c \in Nat /\ s \in Nat /\ b \in Nat /\ x = c + 2 BY <1>1, <1>2, Fields
<1>4. After(H, c) = c + s + 1 BY DEF After
<1> HIDE DEF c, s
<1>5. CASE b = c
  <2>1. \A w \in W : w # b + 1 BY <1>3, <1>5
  <2>2. QED BY <1>2, <1>5, <2>1
<1>6. CASE c < b
  <2>1. After(H, c) <= b BY <1>1, <1>2, <1>6 DEF Apart, s
  <2>2. x + m - 1 <= b BY <1>2, <1>3, <1>4, <2>1
  <2>3. \A w \in W : w <= b BY <1>3, <2>2
  <2>4. QED BY <1>3, <2>3
<1>7. CASE b < c /\ H[b].free
  <2>1. H[b].size # 0 BY <1>7 DEF Chain, Sized
  <2>2. H[b].size \in Nat /\ H[b].size >= 3 BY <2>1, SizeBounds
  <2>3. b + H[b].size + 1 <= c BY <1>1, <1>2, <1>7, <2>1 DEF Apart, After
  <2>4. b + 3 < x BY <1>3, <2>2, <2>3
  <2>5. \A w \in W : b + 3 < w BY <1>3, <2>4
  <2>6. QED BY <1>3, <1>7, <2>5
<1>8. CASE b < c /\ ~H[b].free
  <2>1. \A w \in W : w # b + 1 BY <1>3, <1>8
  <2>2. QED BY <1>8, <2>1
<1>9. b = c \/ c < b \/ b < c BY <1>3
<1>10. QED BY <1>5, <1>6, <1>7, <1>8, <1>9

LEMMA WithinArena ==
  ASSUME NEW H, NEW P, Chain(H, P), NEW areas, Spaced(areas), PoolsIn(P, areas),
         NEW x \in Nat, NEW m \in Nat, Used(H, x, m)
  PROVE  \E n \in DOMAIN areas :
           x .. x + m - 1 \subseteq areas[n].start + 2 .. areas[n].start + areas[n].words - 1
<1> DEFINE c == x - 2
           s == H[c].size
<1>1. Headers(H) /\ Pools(P) BY DEF Chain
<1>2. c \in DOMAIN H /\ s # 0 /\ s >= m BY DEF Used
<1>3. c \in Nat /\ s \in Nat /\ x = c + 2 BY <1>1, <1>2, Fields
<1>4. PICK p \in P : Within(H, p, c) BY <1>2 DEF Chain
<1>5. p.first <= c /\ c + s + 1 <= p.last BY <1>2, <1>4 DEF Within, After
<1>6. p.first \in Nat /\ p.last \in Nat BY <1>1, Spacing
<1>7. PICK n \in DOMAIN areas :
        p.first = areas[n].start + 1 /\ p.last = areas[n].start + areas[n].words - 2
  BY DEF PoolsIn
<1>8. areas[n].start \in Nat /\ areas[n].words \in Nat BY ArenaTypes
<1> DEFINE i == areas[n].start
           j == areas[n].words
           u == p.first
           v == p.last
<1>9. i \in Nat /\ j \in Nat /\ u \in Nat /\ v \in Nat /\ u = i + 1 /\ v = i + j - 2
      /\ u <= c /\ c + s + 1 <= v
  BY <1>5, <1>6, <1>7, <1>8
<1> HIDE DEF i, j, u, v, c, s
<1>10. i + 2 <= x /\ x + m - 1 <= i + j - 1 BY <1>2, <1>3, <1>9
<1>11. x .. x + m - 1 \subseteq i + 2 .. i + j - 1 BY <1>9, <1>10
<1>12. QED BY <1>11 DEF i, j

-----------------------------------------------------------------------------
(* The invariant.  No arena's pool is of block_size_max words exactly: the *)
(* test in tlsf_add_pool lets that size through, whose first index is one  *)
(* past the lists.                                                         *)

NotAtLimit == \A size \in Sizes : Pool(size) # block_size_max

Rooted(t, areas) == \E P : Sound(t, P, {}, {}) /\ PoolsIn(P, areas)

HeapInv == Rooted(tlsf, arenas) /\ Spaced(arenas) /\ Calls(call) /\ Holds(tlsf.header, held, call)

LEMMA InvSound == HeapInv => BlocksSound
<1> SUFFICES ASSUME HeapInv PROVE BlocksSound OBVIOUS
<1>1. PICK P : Sound(tlsf, P, {}, {}) /\ PoolsIn(P, arenas) BY DEF HeapInv, Rooted
<1>2. Spaced(arenas) /\ Holds(tlsf.header, held, call) BY DEF HeapInv
<1>3. Chain(tlsf.header, P) /\ Pools(P) BY <1>1 DEF Sound, Chain
<1>4. ASSUME NEW n \in DOMAIN arenas PROVE tlsf_check_pool(tlsf, arenas[n].start + ArenaHeader)
  <2>1. arenas[n].start \in Nat /\ n \in 1 .. Len(arenas) /\ Len(arenas) \in Nat BY <1>2, ArenaTypes
  <2>2. arenas[n].start = n * 2 * block_size_max BY <1>2 DEF Spaced
  <2>3. n \in 1 .. Len(arenas) + 1 BY <2>1
  <2> DEFINE start == arenas[n].start
  <2> HIDE DEF start
  <2>4. start \in Nat /\ start = n * 2 * block_size_max BY <2>1, <2>2 DEF start
  <2>5. \A p \in P : ~(p.first < start + 1 /\ start + 1 <= p.last)
    BY <1>1, <1>2, <1>3, <2>3, <2>4, NoPoolThere
  <2>6. start + 2 \in Nat /\ start + 2 - 1 = start + 1 BY <2>4
  <2>7. tlsf_check_pool(tlsf, start + 2)
    <3> DEFINE pool == start + 2
    <3>1. pool \in Nat /\ pool - 1 = start + 1 BY <2>4
    <3> HIDE DEF pool
    <3>2. \A p \in P : ~(p.first < pool - 1 /\ pool - 1 <= p.last) BY <2>5, <3>1
    <3>3. tlsf_check_pool(tlsf, pool) BY <1>1, <3>1, <3>2, PoolCheck
    <3>4. QED BY <3>3 DEF pool
  <2>8. QED BY <2>7 DEF start, ArenaHeader
<1>5. ChecksPass BY <1>1, <1>4, ListsCheck, OnceListed DEF ChecksPass
<1>6. ASSUME NEW a \in held
      PROVE  a.ptr \in Nat /\ a.words \in Nat /\ Used(tlsf.header, a.ptr, a.words)
  BY <1>2 DEF Holds, HeldType
<1>7. ASSUME NEW a \in held
      PROVE  \E n \in DOMAIN arenas :
               Words(a) \subseteq arenas[n].start + ArenaHeader .. arenas[n].start + arenas[n].words - 1
  <2>1. a.ptr \in Nat /\ a.words \in Nat /\ Used(tlsf.header, a.ptr, a.words) BY <1>6
  <2>2. \E n \in DOMAIN arenas :
          a.ptr .. a.ptr + a.words - 1
            \subseteq arenas[n].start + 2 .. arenas[n].start + arenas[n].words - 1
    BY <1>1, <1>2, <1>3, <2>1, WithinArena
  <2>3. QED BY <2>2 DEF Words, ArenaHeader
<1>8. ASSUME NEW a \in held, NEW b \in held, a # b PROVE Words(a) \cap Words(b) = {}
  <2>1. a.ptr # b.ptr BY <1>2, <1>8 DEF Holds
  <2>2. QED BY <1>3, <1>6, <2>1, BlocksApart DEF Words
<1>9. ASSUME NEW a \in held, NEW b \in DOMAIN tlsf.header PROVE Words(a) \cap Header(b) = {}
  <2>1. Header(b) = IF tlsf.header[b].free THEN b + 1 .. b + 3 ELSE {b + 1}
    <3>1. b \in Nat BY <1>3, Fields DEF Chain
    <3>2. b + 4 - 1 = b + 3 BY <3>1
    <3>3. QED BY <3>2 DEF Header, header_size
  <2>2. QED BY <1>3, <1>6, <2>1, HeadersApart DEF Words
<1>10. \A a \in held : a.ptr % a.alignment = 0 BY <1>2 DEF Holds
<1>11. CallersApart BY <1>7, <1>8, <1>9, <1>10 DEF CallersApart
<1>12. QED BY <1>5, <1>11 DEF BlocksSound

LEMMA NothingYet ==
  /\ Sound(control_construct, {}, {}, {}) /\ PoolsIn({}, <<>>) /\ Spaced(<<>>)
  /\ control_construct.header = <<>>
<1> DEFINE t == control_construct
           H == t.header
<1>1. H = <<>> /\ DOMAIN H = {} BY DEF control_construct
<1>2. H \in [DOMAIN H -> HeaderType] /\ DOMAIN H \subseteq Nat /\ IsFiniteSet(DOMAIN H)
  BY <1>1, FS_EmptySet
<1>3. FreeOf(H) = {} /\ Coalesced(H, {}) /\ Apart(H) BY <1>1 DEF FreeOf, Coalesced, Apart
<1>4. Chain(H, {}) BY <1>1, <1>2, <1>3 DEF Chain, Headers, Pools
<1>5. /\ t.fl_bitmap = {} /\ t.sl_bitmap = [fl \in FLs |-> {}]
      /\ t.blocks = [fl \in FLs |-> [sl \in SLs |-> <<>>]]
  BY DEF control_construct, FLs, SLs
<1>6. <<>> \in Seq(Nat) BY EmptySeq
<1>7. Lists(t)
  <2>1. t = [fl_bitmap |-> {}, sl_bitmap |-> [fl \in FLs |-> {}],
             blocks |-> [fl \in FLs |-> [sl \in SLs |-> <<>>]], header |-> H]
    BY <1>1 DEF control_construct, FLs, SLs
  <2>2. [fl \in FLs |-> {}] \in [FLs -> SUBSET SLs] OBVIOUS
  <2>3. [fl \in FLs |-> [sl \in SLs |-> <<>>]] \in [FLs -> [SLs -> Seq(Nat)]] BY <1>6
  <2> HIDE DEF t, H
  <2>4. QED BY <2>1, <2>2, <2>3 DEF Lists
<1>8. Bits(t) BY <1>5 DEF Bits
<1>9. \A fl \in FLs, sl \in SLs : Enumerates(t.blocks[fl][sl], Class(t, {}, fl, sl))
  <2>1. Enumerates(<<>>, {})
    <3>1. Len(<<>>) = 0 BY EmptySeq
    <3>2. QED BY <1>6, <3>1 DEF Enumerates
  <2>2. \A fl \in FLs, sl \in SLs : Class(t, {}, fl, sl) = {} BY DEF Class
  <2>3. \A fl \in FLs, sl \in SLs : t.blocks[fl][sl] = <<>> BY <1>5
  <2> HIDE DEF t
  <2>4. TAKE fl \in FLs, sl \in SLs
  <2>5. t.blocks[fl][sl] = <<>> /\ Class(t, {}, fl, sl) = {} BY <2>2, <2>3
  <2>6. QED BY <2>1, <2>5
<1>10. Listing(t, {}) BY <1>7, <1>8, <1>9 DEF Listing
<1>11. FreeOf(H) \ {} = {} BY <1>3
<1>12. Sound(t, {}, {}, {}) BY <1>3, <1>4, <1>10, <1>11 DEF Sound
<1>13. PoolsIn({}, <<>>) BY DEF PoolsIn
<1>14. Spaced(<<>>)
  <2>1. <<>> \in Seq([start : Nat, words : Nat]) BY EmptySeq
  <2>2. QED BY <2>1 DEF Spaced
<1>15. QED BY <1>1, <1>12, <1>13, <1>14

LEMMA HeapStarts == HeapInit => HeapInv
<1> SUFFICES ASSUME HeapInit PROVE HeapInv OBVIOUS
<1>1. tlsf = control_construct /\ arenas = <<>> /\ held = {}
      /\ call = [thread \in Threads |-> Idle]
  BY DEF HeapInit
<1>2. Rooted(tlsf, arenas) /\ Spaced(arenas) BY <1>1, NothingYet DEF Rooted
<1>3. Idle \in CallType /\ Idle.op = "none" BY DEF Idle, CallType, null
<1>4. \A s \in Threads : call[s].op = "none" BY <1>1, <1>3
<1>5. Calls(call) BY <1>1, <1>3, <1>4 DEF Calls
<1>6. Holds(tlsf.header, held, call) BY <1>1, <1>4 DEF Holds, Freeing
<1>7. QED BY <1>2, <1>5, <1>6 DEF HeapInv

-----------------------------------------------------------------------------
(* The steps.                                                              *)

MoreArenas(areas, more, new) ==
  /\ Spaced(more) /\ new.start \in Nat
  /\ \A n \in DOMAIN areas : n \in DOMAIN more /\ more[n] = areas[n]
  /\ Len(areas) + 1 \in DOMAIN more /\ more[Len(areas) + 1] = new

LEMMA ArenaMore ==
  ASSUME NEW areas, Spaced(areas), NEW start, start = (Len(areas) + 1) * 2 * block_size_max,
         NEW bytes \in Nat, NEW new, new = [start |-> start, words |-> bytes],
         NEW more, more = Append(areas, new)
  PROVE  MoreArenas(areas, more, new)
<1> DEFINE A == [start : Nat, words : Nat]
           l == Len(areas)
<1>1. areas \in Seq(A) BY DEF Spaced
<1>2. l \in Nat BY ArenaTypes
<1>3. start \in Nat
  <2>1. l + 1 \in Nat /\ l + 1 + 1 \in Nat /\ l + 1 < l + 1 + 1 BY <1>2
  <2> DEFINE i == l + 1
             j == l + 1 + 1
  <2> HIDE DEF i, j
  <2>2. i \in Nat /\ j \in Nat /\ i < j BY <2>1 DEF i, j
  <2>3. i * 2 * block_size_max \in Nat BY <2>2, Steps
  <2>4. QED BY <2>3 DEF i
<1>4. new \in A BY <1>3
<1> HIDE DEF A
<1>5. /\ more \in Seq(A) /\ Len(more) = l + 1 /\ more[l + 1] = new
      /\ \A n \in 1 .. l : more[n] = areas[n]
  BY <1>1, <1>4, AppendProperties
<1>6. DOMAIN more = 1 .. l + 1 /\ DOMAIN areas = 1 .. l BY <1>1, <1>5, LenProperties
<1>7. ASSUME NEW n \in DOMAIN more PROVE more[n].start = n * 2 * block_size_max
  <2>1. n \in 1 .. l \/ n = l + 1 BY <1>2, <1>6
  <2>2. CASE n \in 1 .. l BY <1>5, <1>6, <2>2 DEF Spaced
  <2>3. CASE n = l + 1 BY <1>5, <2>3
  <2>4. QED BY <2>1, <2>2, <2>3
<1>8. Spaced(more) BY <1>5, <1>7 DEF Spaced, A
<1>9. \A n \in DOMAIN areas : n \in DOMAIN more /\ more[n] = areas[n] BY <1>2, <1>5, <1>6
<1>10. l + 1 \in DOMAIN more BY <1>2, <1>6
<1>11. QED BY <1>3, <1>5, <1>8, <1>9, <1>10 DEF MoreArenas

LEMMA KeptAll ==
  ASSUME NEW H, NEW G, H = G
  PROVE  \A c : Kept(H, G, c)
BY DEF Kept

Grown(t, u, areas, pool) ==
  /\ Spaced(areas) /\ Rooted(u, areas) /\ \A c : Kept(t.header, u.header, c)
  /\ pool >= 3 /\ pool < block_size_max => \E b \in FreeOf(u.header) : Size(u, b) = pool

LEMMA GrowSound ==
  ASSUME NEW t, NEW areas, Spaced(areas), Rooted(t, areas),
         NEW start, start = (Len(areas) + 1) * 2 * block_size_max,
         NEW pool \in Nat, pool # block_size_max,
         NEW u, u = tlsf_add_pool(t, start + 2, pool + 2),
         NEW more, more = Append(areas, [start |-> start, words |-> pool + 4])
  PROVE  Grown(t, u, more, pool)
<1>0. PICK P : Sound(t, P, {}, {}) /\ PoolsIn(P, areas) BY DEF Rooted
<1> DEFINE mem == start + 2
           bytes == pool + 2
           new == [first |-> mem - 1, last |-> mem + bytes - 2]
           l == Len(areas)
<1>1. Pools(P) BY <1>0 DEF Sound, Chain
<1>2. l \in Nat BY ArenaTypes
<1>3. /\ Spaced(more) /\ start \in Nat
      /\ \A n \in DOMAIN areas : n \in DOMAIN more /\ more[n] = areas[n]
      /\ l + 1 \in DOMAIN more /\ more[l + 1] = [start |-> start, words |-> pool + 4]
  <2> DEFINE arena == [start |-> start, words |-> pool + 4]
             bytes_ == pool + 4
  <2>1. bytes_ \in Nat /\ arena = [start |-> start, words |-> bytes_]
        /\ more = Append(areas, arena)
    OBVIOUS
  <2> HIDE DEF bytes_, arena, l
  <2>2. MoreArenas(areas, more, arena) BY <2>1, ArenaMore
  <2>3. QED BY <2>1, <2>2 DEF MoreArenas, l, bytes_
<1>4. mem \in Nat \ {0} /\ bytes \in Nat /\ bytes - 2 = pool /\ mem - 1 = start + 1 BY <1>3
<1>5. PoolsIn(P, more) BY <1>0, <1>3 DEF PoolsIn
<1>6. \A p \in P : p.last < mem - 1
  <2>1. l + 1 \in 1 .. l + 1 BY <1>2
  <2>2. \A p \in P : p.last < start + 1
    <3> TAKE p \in P
    <3> DEFINE k == l + 1
    <3>1. k \in 1 .. Len(areas) + 1 /\ start = k * 2 * block_size_max /\ k = Len(areas) + 1 BY <2>1
    <3> HIDE DEF k, l
    <3>2. QED BY <1>0, <1>1, <3>1, NoPoolThere
  <2>3. QED BY <1>4, <2>2
<1>7. u = tlsf_add_pool(t, mem, bytes) OBVIOUS
<1> HIDE DEF mem, bytes
<1>8. /\ ~(bytes - 2 >= 3 /\ bytes - 2 < block_size_max) => u = t
      /\ bytes - 2 >= 3 /\ bytes - 2 < block_size_max =>
           /\ Sound(u, P \cup {new}, {}, {})
           /\ \A c : Kept(t.header, u.header, c)
           /\ mem - 1 \in FreeOf(u.header) /\ Size(u, mem - 1) = bytes - 2
  <2>1. IsPooled(t, u, P, mem, bytes) BY <1>0, <1>4, <1>6, <1>7, SoundPool
  <2>2. QED BY <2>1 DEF IsPooled
<1>9. CASE ~(pool >= 3 /\ pool < block_size_max)
  <2>1. u = t BY <1>4, <1>8, <1>9
  <2>2. QED BY <1>0, <1>3, <1>5, <1>9, <2>1, KeptAll DEF Grown, Rooted
<1>10. CASE pool >= 3 /\ pool < block_size_max
  <2>1. /\ Sound(u, P \cup {new}, {}, {}) /\ \A c : Kept(t.header, u.header, c)
        /\ mem - 1 \in FreeOf(u.header) /\ Size(u, mem - 1) = pool
    BY <1>4, <1>8, <1>10
  <2>2. new.first = start + 1 /\ new.last = start + (pool + 4) - 2
    <3>1. mem = start + 2 /\ bytes = pool + 2 BY DEF mem, bytes
    <3>2. mem + bytes - 2 = start + (pool + 4) - 2 BY <1>3, <3>1
    <3>3. QED BY <1>4, <3>2
  <2> HIDE DEF new
  <2>3. PoolsIn(P \cup {new}, more)
    <3>1. more[l + 1].start = start /\ more[l + 1].words = pool + 4 BY <1>3
    <3>2. \E n \in DOMAIN more : /\ new.first = more[n].start + 1
                                 /\ new.last = more[n].start + more[n].words - 2
      BY <1>3, <2>2, <3>1
    <3>3. QED BY <1>5, <3>2 DEF PoolsIn
  <2>4. QED BY <1>3, <2>1, <2>3 DEF Grown, Rooted
<1>11. QED BY <1>9, <1>10

LEMMA CallsEnded ==
  ASSUME NEW c, Calls(c), NEW s \in Threads, NEW d, d = [c EXCEPT ![s] = Idle]
  PROVE  Calls(d)
<1>1. Idle \in CallType /\ Idle.op = "none" BY DEF Idle, CallType, null
<1>2. c \in [Threads -> CallType] BY DEF Calls
<1>3. d \in [Threads -> CallType] /\ d[s].op = "none" /\ \A r \in Threads : r # s => d[r] = c[r]
  BY <1>1, <1>2
<1>4. QED BY <1>3 DEF Calls

LEMMA HoldsRequest ==
  ASSUME NEW H, NEW D, NEW c, Holds(H, D, c), Calls(c), NEW s \in Threads,
         NEW size \in Sizes, NEW alignment \in Alignments,
         NEW d, d = [c EXCEPT ![s] = Request(size, alignment)]
  PROVE  Holds(H, D, d) /\ Calls(d)
<1> DEFINE req == Request(size, alignment)
<1>1. req \in CallType /\ req.op = "alloc" /\ req.size = size /\ req.alignment = alignment
  <2>1. size \in Nat /\ alignment \in Nat \ {0} BY HeapAssumption
  <2>2. QED BY <2>1 DEF Request, CallType, null
<1> HIDE DEF req
<1>2. c \in [Threads -> CallType] BY DEF Calls
<1>3. d = [c EXCEPT ![s] = req] BY DEF req
<1>4. d \in [Threads -> CallType] /\ d[s] = req /\ \A r \in Threads : r # s => d[r] = c[r]
  BY <1>1, <1>2, <1>3
<1>5. Calls(d) BY <1>1, <1>4 DEF Calls
<1>6. \A r \in Threads : Freeing(d, r) => Freeing(c, r) /\ d[r] = c[r]
  BY <1>1, <1>4 DEF Freeing
<1>7. Holds(H, D, d) BY <1>6 DEF Holds
<1>8. QED BY <1>5, <1>7

LEMMA HoldsReturn ==
  ASSUME NEW H, Headers(H), NEW D, NEW c, Holds(H, D, c), Calls(c), NEW s \in Threads, NEW a \in D,
         NEW d, d = [c EXCEPT ![s] = Return(a.ptr)]
  PROVE  Holds(H, D \ {a}, d) /\ Calls(d)
<1> DEFINE back == Return(a.ptr)
<1>0. a.ptr \in Nat /\ a.words \in Nat BY DEF Holds, HeldType
<1>1. back \in CallType /\ back.op = "free" /\ back.ptr = a.ptr BY <1>0 DEF Return, CallType
<1> HIDE DEF back
<1>2. c \in [Threads -> CallType] BY DEF Calls
<1>3. d = [c EXCEPT ![s] = back] BY DEF back
<1>4. d \in [Threads -> CallType] /\ d[s] = back /\ \A r \in Threads : r # s => d[r] = c[r]
  BY <1>1, <1>2, <1>3
<1>5. Calls(d) BY <1>1, <1>4 DEF Calls
<1>6. Used(H, a.ptr, 0)
  <2>1. Used(H, a.ptr, a.words) BY DEF Holds
  <2>2. a.ptr - 2 \in DOMAIN H /\ H[a.ptr - 2].size >= a.words BY <2>1 DEF Used
  <2>3. H[a.ptr - 2].size \in Nat BY <2>2, Fields
  <2>4. QED BY <2>1, <2>3 DEF Used
<1>7. \A r \in Threads : Freeing(d, r) => r = s \/ (Freeing(c, r) /\ d[r] = c[r])
  BY <1>4 DEF Freeing
<1>8. \A r \in Threads : Freeing(d, r) => Used(H, d[r].ptr, 0)
  BY <1>1, <1>4, <1>6, <1>7 DEF Holds
<1>9. \A b \in D \ {a}, r \in Threads : Freeing(d, r) => d[r].ptr # b.ptr
  <2> SUFFICES ASSUME NEW b \in D \ {a}, NEW r \in Threads, Freeing(d, r) PROVE d[r].ptr # b.ptr
    OBVIOUS
  <2>1. CASE r = s BY <1>1, <1>4, <2>1 DEF Holds
  <2>2. CASE r # s BY <1>7, <2>2 DEF Holds
  <2>3. QED BY <2>1, <2>2
<1>10. \A q, r \in Threads : Freeing(d, q) /\ Freeing(d, r) /\ d[q].ptr = d[r].ptr => q = r
  <2> SUFFICES ASSUME NEW q \in Threads, NEW r \in Threads, Freeing(d, q), Freeing(d, r),
                      d[q].ptr = d[r].ptr
               PROVE  q = r
    OBVIOUS
  <2>1. CASE q = s /\ r # s
    <3>1. Freeing(c, r) /\ c[r].ptr = a.ptr BY <1>1, <1>4, <1>7, <2>1
    <3>2. QED BY <3>1 DEF Holds
  <2>2. CASE q # s /\ r = s
    <3>1. Freeing(c, q) /\ c[q].ptr = a.ptr BY <1>1, <1>4, <1>7, <2>2
    <3>2. QED BY <3>1 DEF Holds
  <2>3. CASE q # s /\ r # s BY <1>7, <2>3 DEF Holds
  <2>4. QED BY <2>1, <2>2, <2>3
<1>11. Holds(H, D \ {a}, d) BY <1>8, <1>9, <1>10 DEF Holds
<1>12. QED BY <1>5, <1>11

(* A call of tlsf_memalign, whether it finds memory or not.                *)
Settled(t, areas, D, c) == Rooted(t, areas) /\ Calls(c) /\ Holds(t.header, D, c)

LEMMA ServeSound ==
  ASSUME NEW t, NEW areas, Rooted(t, areas),
         NEW D, NEW c, Calls(c), Holds(t.header, D, c), NEW s \in Threads, c[s].op = "alloc",
         NEW r, r = tlsf_memalign(t, c[s].alignment, InWords(c[s].size)),
         NEW d, d = [c EXCEPT ![s] = Idle],
         NEW E, E = IF r.ptr = null THEN D
                    ELSE D \cup {[ptr |-> r.ptr, words |-> InWords(c[s].size),
                                   alignment |-> c[s].alignment]}
  PROVE  Settled(r.t, areas, E, d)
<1> DEFINE size == InWords(c[s].size)
           align == c[s].alignment
           h == [ptr |-> r.ptr, words |-> size, alignment |-> align]
<1>1. PICK P : Sound(t, P, {}, {}) /\ PoolsIn(P, areas) BY DEF Rooted
<1>2. c \in [Threads -> CallType] BY DEF Calls
<1>3. size \in Nat /\ align \in Nat \ {0}
  <2>1. c[s].size \in Nat /\ align \in Nat \ {0} BY <1>2 DEF CallType
  <2>2. QED BY <2>1, WordsUp
<1>4. Headers(t.header) BY <1>1 DEF Sound, Chain
<1>5. r = tlsf_memalign(t, align, size) OBVIOUS
<1>6. E = IF r.ptr = null THEN D ELSE D \cup {h} OBVIOUS
<1>7. Calls(d) BY CallsEnded
<1> HIDE DEF size, align
<1>8. /\ r.ptr = null => r.t = t
      /\ r.ptr # null => /\ Sound(r.t, P, {}, {}) /\ r.ptr \in Nat
                         /\ Given(t.header, r.t.header, r.ptr - 2, align, size)
  BY <1>1, <1>3, <1>5, MemalignSound
<1>9. CASE r.ptr = null
  <2>1. r.t = t /\ E = D BY <1>6, <1>8, <1>9
  <2>2. Holds(t.header, D, d) BY <1>2, HoldsEnded
  <2>3. QED BY <1>1, <1>7, <2>1, <2>2 DEF Settled, Rooted
<1>10. CASE r.ptr # null
  <2>1. /\ Sound(r.t, P, {}, {}) /\ r.ptr \in Nat
        /\ Given(t.header, r.t.header, r.ptr - 2, align, size) /\ E = D \cup {h}
    BY <1>6, <1>8, <1>10
  <2>2. Holds(r.t.header, D \cup {h}, d) BY <1>2, <1>3, <1>4, <2>1, HoldsGiven
  <2>3. QED BY <1>1, <1>7, <2>1, <2>2 DEF Settled, Rooted
<1>11. QED BY <1>9, <1>10

LEMMA HeapSteps == NotAtLimit /\ HeapInv /\ [HeapNext]_heapVars => HeapInv'
<1> SUFFICES ASSUME NotAtLimit, HeapInv, [HeapNext]_heapVars PROVE HeapInv' OBVIOUS
<1>1. Rooted(tlsf, arenas) /\ Spaced(arenas) /\ Calls(call) /\ Holds(tlsf.header, held, call) BY DEF HeapInv
<1>2. call \in [Threads -> CallType] BY <1>1 DEF Calls
<1>3. Headers(tlsf.header) BY <1>1 DEF Rooted, Sound, Chain
<1>4. ASSUME UNCHANGED heapVars PROVE HeapInv' BY <1>1, <1>4 DEF heapVars, HeapInv
<1>5. ASSUME NEW s \in Threads, CallAlloc(s) PROVE HeapInv'
  <2>1. PICK size \in Sizes, alignment \in Alignments :
          call' = [call EXCEPT ![s] = Request(size, alignment)]
    BY <1>5 DEF CallAlloc
  <2>2. UNCHANGED <<tlsf, arenas, held>> BY <1>5 DEF CallAlloc
  <2>3. Holds(tlsf.header, held, call') /\ Calls(call') BY <1>1, <2>1, HoldsRequest
  <2>4. QED BY <1>1, <2>2, <2>3 DEF HeapInv
<1>6. ASSUME NEW s \in Threads, CallFree(s) PROVE HeapInv'
  <2>1. PICK a \in held : call' = [call EXCEPT ![s] = Return(a.ptr)] /\ held' = held \ {a}
    BY <1>6 DEF CallFree
  <2>2. UNCHANGED <<tlsf, arenas>> BY <1>6 DEF CallFree
  <2>3. Holds(tlsf.header, held \ {a}, call') /\ Calls(call') BY <1>1, <1>3, <2>1, HoldsReturn
  <2>4. QED BY <1>1, <2>1, <2>2, <2>3 DEF HeapInv
<1>7. ASSUME NEW s \in Threads, AllocFits(s) PROVE HeapInv'
  <2> DEFINE r == Memalign(s, tlsf)
  <2>1. /\ call[s].op = "alloc" /\ arenas' = arenas
        /\ tlsf' = r.t /\ call' = [call EXCEPT ![s] = Idle]
        /\ held' = IF r.ptr = null THEN held
                   ELSE held \cup {[ptr |-> r.ptr, words |-> InWords(call[s].size),
                                    alignment |-> call[s].alignment]}
    BY <1>7 DEF AllocFits, Entered, Returns
  <2>2. r = tlsf_memalign(tlsf, call[s].alignment, InWords(call[s].size)) BY DEF Memalign
  <2> HIDE DEF r
  <2>3. Settled(r.t, arenas, held', call') BY <1>1, <2>1, <2>2, ServeSound
  <2>4. QED BY <1>1, <2>1, <2>3 DEF HeapInv, Settled
<1>8. ASSUME NEW s \in Threads, AllocGrows(s) PROVE HeapInv'
  <2> DEFINE pool == Pool(call[s].size)
             u    == tlsf_add_pool(tlsf, ArenaStart + 2, pool + 2)
             r    == Memalign(s, u)
             start == ArenaStart
  <2>1. /\ call[s].op = "alloc" /\ call[s].size \in Sizes BY <1>1, <1>8 DEF AllocGrows, Entered, Calls
  <2>2. call[s].size \in Nat /\ grow_increment \in Nat BY <2>1, HeapAssumption
  <2>3. pool \in Nat /\ arena_size(call[s].size) \div ALIGN_SIZE = pool + 2 BY <2>2, PoolWords
  <2>4. pool # block_size_max BY <2>1 DEF NotAtLimit
  <2>5. pool + 2 + 2 * 1 = pool + 4 BY <2>3
  <2>6. /\ tlsf' = r.t /\ call' = [call EXCEPT ![s] = Idle]
        /\ held' = (IF r.ptr = null THEN held
                    ELSE held \cup {[ptr |-> r.ptr, words |-> InWords(call[s].size),
                                     alignment |-> call[s].alignment]})
        /\ arenas' = Append(arenas, [start |-> start, words |-> pool + 4])
    BY <1>8, <2>3, <2>5 DEF AllocGrows, Returns, ArenaHeader, block_header_overhead
  <2>7. start = (Len(arenas) + 1) * 2 * block_size_max /\ u = tlsf_add_pool(tlsf, start + 2, pool + 2)
    BY DEF ArenaStart
  <2>8. r = tlsf_memalign(u, call[s].alignment, InWords(call[s].size)) BY DEF Memalign
  <2> HIDE DEF r, u, start, pool
  <2>9. Grown(tlsf, u, arenas', pool)
    BY <1>1, <2>3, <2>4, <2>6, <2>7, GrowSound
  <2>10. Spaced(arenas') /\ Rooted(u, arenas') /\ Kept(tlsf.header, u.header, -1)
    BY <2>9 DEF Grown
  <2>11. Holds(u.header, held, call)
    <3>1. -1 \notin DOMAIN tlsf.header BY <1>3 DEF Headers
    <3>2. QED BY <1>1, <2>10, <3>1, HoldsKept
  <2>12. Settled(r.t, arenas', held', call')
    BY <1>1, <2>1, <2>6, <2>8, <2>10, <2>11, ServeSound
  <2>13. QED BY <2>6, <2>10, <2>12 DEF HeapInv, Settled
<1>9. ASSUME NEW s \in Threads, AllocFails(s) PROVE HeapInv'
  <2>1. call' = [call EXCEPT ![s] = Idle] /\ UNCHANGED <<tlsf, arenas, held>>
    BY <1>9 DEF AllocFails
  <2>2. Calls(call') /\ Holds(tlsf.header, held, call') BY <1>1, <1>2, <2>1, CallsEnded, HoldsEnded
  <2>3. QED BY <1>1, <2>1, <2>2 DEF HeapInv
<1>10. ASSUME NEW s \in Threads, Free(s) PROVE HeapInv'
  <2>1. /\ call[s].op = "free" /\ tlsf' = tlsf_free(tlsf, call[s].ptr)
        /\ call' = [call EXCEPT ![s] = Idle] /\ UNCHANGED <<arenas, held>>
    BY <1>10 DEF Free, Entered
  <2>2. PICK P : Sound(tlsf, P, {}, {}) /\ PoolsIn(P, arenas) BY <1>1 DEF Rooted
  <2>3. Freeing(call, s) /\ Used(tlsf.header, call[s].ptr, 0) BY <1>1, <2>1 DEF Holds, Freeing
  <2>4. /\ call[s].ptr \in Nat /\ call[s].ptr - 2 \in DOMAIN tlsf.header
        /\ ~tlsf.header[call[s].ptr - 2].free /\ tlsf.header[call[s].ptr - 2].size # 0
    BY <2>3 DEF Used
  <2>5. Sound(tlsf', P, {}, {}) /\ Kept(tlsf.header, tlsf'.header, call[s].ptr - 2)
    BY <2>1, <2>2, <2>4, FreeSound
  <2>6. Holds(tlsf'.header, held, call') BY <1>1, <1>2, <2>1, <2>3, <2>5, HoldsFreed
  <2>7. Calls(call') BY <1>1, <2>1, CallsEnded
  <2>8. QED BY <1>1, <2>1, <2>2, <2>5, <2>6, <2>7 DEF HeapInv, Rooted
<1>11. ASSUME HeapDestroy PROVE HeapInv'
  <2>1. arenas' = <<>> /\ held' = {} /\ tlsf' = control_construct /\ call' = call
        /\ \A s \in Threads : call[s] = Idle
    BY <1>11 DEF HeapDestroy
  <2>2. \A s \in Threads : ~Freeing(call, s) BY <2>1 DEF Idle, Freeing
  <2>3. Holds(control_construct.header, {}, call) BY <2>2 DEF Holds
  <2>4. QED BY <1>1, <2>1, <2>3, NothingYet DEF HeapInv, Rooted
<1>12. QED BY <1>4, <1>5, <1>6, <1>7, <1>8, <1>9, <1>10, <1>11 DEF HeapNext, Serve, Ended

(* Whatever is asked for and given back, in any order and by any thread,   *)
(* the allocator's own checks pass (tlsf.c:844-939), and what callers hold *)
(* is aligned, within one arena, apart from each other and from the        *)
(* headers of all blocks (heap.c:47-86).                                   *)
THEOREM HeapBlocksSound == HeapSpec /\ NotAtLimit => []BlocksSound
<1>1. HeapSpec /\ NotAtLimit => []HeapInv
  <2> SUFFICES ASSUME NotAtLimit PROVE HeapSpec => []HeapInv OBVIOUS
  <2>1. HeapInv /\ [HeapNext]_heapVars => HeapInv' BY HeapSteps
  <2>2. QED BY <2>1, HeapStarts, PTL DEF HeapSpec
<1>2. QED BY <1>1, InvSound, PTL

-----------------------------------------------------------------------------
(* A new arena meets the request it was made for: its pool is in a list    *)
(* that a search for the request, rounded up, looks in.                    *)

Room(size, alignment) ==
  LET asked == aligned_request(alignment, InWords(size))
  IN  /\ Pool(size) >= 3 /\ Pool(size) < block_size_max /\ asked # 0
      /\ NoLater(mapping_search(asked), mapping_insert(Pool(size)))

GrowthRoom == \A size \in Sizes \ {0}, alignment \in Alignments : Room(size, alignment)

LEMMA ArenaServes ==
  ASSUME NEW t, NEW u, NEW areas, NEW pool \in Nat, Grown(t, u, areas, pool),
         NEW size \in Nat, NEW align \in Nat \ {0},
         pool >= 3, pool < block_size_max, aligned_request(align, size) # 0,
         NoLater(mapping_search(aligned_request(align, size)), mapping_insert(pool)),
         NEW r, r = tlsf_memalign(u, align, size)
  PROVE  r.ptr # null
<1> DEFINE asked == aligned_request(align, size)
           F == FreeOf(u.header)
<1>1. PICK P : Sound(u, P, {}, {}) BY DEF Grown, Rooted
<1>2. PICK b \in F : Size(u, b) = pool BY DEF Grown
<1>3. Listing(u, F)
  <2>1. F \ {} = F OBVIOUS
  <2>2. QED BY <1>1, <2>1 DEF Sound
<1>4. asked \in Nat /\ asked # 0 BY Requested
<1>5. NoLater(mapping_search(asked), At(u, b)) BY <1>2 DEF At
<1> HIDE DEF asked
<1>6. Fits(u, asked) # {} BY <1>2, <1>3, <1>4, <1>5, FitsSome
<1>7. r.ptr = null <=> Fits(u, aligned_request(align, size)) = {} BY <1>1, MemalignSound
<1>8. QED BY <1>6, <1>7 DEF asked

LEMMA NotRefused ==
  ASSUME HeapInv, NotAtLimit, GrowthRoom, NEW s \in Threads, AllocGrows(s)
  PROVE  refused' \subseteq refused \cup {0}
<1> DEFINE size  == call[s].size
           words == InWords(size)
           align == call[s].alignment
           pool  == Pool(size)
           start == ArenaStart
           u     == tlsf_add_pool(tlsf, start + 2, pool + 2)
           r     == Memalign(s, u)
<1>1. Rooted(tlsf, arenas) /\ Spaced(arenas) /\ Calls(call) BY DEF HeapInv
<1>2. call[s].op = "alloc" /\ size \in Sizes /\ align \in Alignments
  BY <1>1 DEF AllocGrows, Entered, Calls
<1>3. size \in Nat /\ align \in Nat \ {0} BY <1>2, HeapAssumption
<1>4. /\ pool \in Nat /\ words \in Nat /\ pool # block_size_max
      /\ arena_size(size) \div ALIGN_SIZE = pool + 2
  <2>1. pool # block_size_max BY <1>2 DEF NotAtLimit
  <2>2. QED BY <1>3, <2>1, WordsUp, PoolWords
<1>5. pool + 2 + 2 * 1 = pool + 4 BY <1>4
<1>6. /\ refused' = (IF r.ptr = null THEN refused \cup {size} ELSE refused)
      /\ arenas' = Append(arenas, [start |-> start, words |-> pool + 4])
  BY <1>4, <1>5 DEF AllocGrows, ArenaHeader, block_header_overhead
<1>7. start = (Len(arenas) + 1) * 2 * block_size_max /\ u = tlsf_add_pool(tlsf, start + 2, pool + 2)
  BY DEF ArenaStart
<1>8. r = tlsf_memalign(u, align, words) BY DEF Memalign
<1>9. CASE size = 0 BY <1>6, <1>9
<1>10. CASE size # 0
  <2>1. Room(size, align) BY <1>2, <1>10 DEF GrowthRoom
  <2>2. /\ pool >= 3 /\ pool < block_size_max /\ aligned_request(align, words) # 0
        /\ NoLater(mapping_search(aligned_request(align, words)), mapping_insert(pool))
    BY <2>1 DEF Room
  <2> HIDE DEF r, u, start, pool, words, size, align
  <2>3. Grown(tlsf, u, arenas', pool) BY <1>1, <1>4, <1>6, <1>7, GrowSound
  <2>4. r.ptr # null BY <1>3, <1>4, <1>8, <2>2, <2>3, ArenaServes
  <2>5. QED BY <1>6, <2>4
<1>11. QED BY <1>9, <1>10

LEMMA GrowthSteps ==
  NotAtLimit /\ GrowthRoom /\ HeapInv /\ GrowthSuffices /\ [HeapNext]_heapVars => GrowthSuffices'
<1> SUFFICES ASSUME NotAtLimit, GrowthRoom, HeapInv, GrowthSuffices, [HeapNext]_heapVars
             PROVE  GrowthSuffices'
  OBVIOUS
<1>1. ASSUME UNCHANGED refused PROVE GrowthSuffices' BY <1>1 DEF GrowthSuffices
<1>2. ASSUME NEW s \in Threads, CallAlloc(s) \/ CallFree(s) \/ AllocFits(s) \/ Free(s) \/ AllocFails(s)
      PROVE  GrowthSuffices'
  BY <1>1, <1>2 DEF CallAlloc, CallFree, AllocFits, Free, AllocFails
<1>3. ASSUME NEW s \in Threads, AllocGrows(s) PROVE GrowthSuffices'
  <2>1. refused' \subseteq refused \cup {0} BY <1>3, NotRefused
  <2>2. QED BY <2>1 DEF GrowthSuffices
<1>4. ASSUME HeapDestroy PROVE GrowthSuffices' BY <1>1, <1>4 DEF HeapDestroy
<1>5. ASSUME UNCHANGED heapVars PROVE GrowthSuffices' BY <1>1, <1>5 DEF heapVars
<1>6. QED BY <1>2, <1>3, <1>4, <1>5 DEF HeapNext, Serve, Ended

(* With a new arena every request is met but the empty one, whatever was   *)
(* asked for and given back before (heap.c:52-74), if the pool of the      *)
(* arena made for a request, whose words are those of the increment or of  *)
(* twice the request's bytes, rounded down (tlsf.c:986), is in a list that *)
(* the search for the request's words, rounded up, looks in (GrowthRoom).  *)
THEOREM HeapGrowthSuffices == HeapSpec /\ NotAtLimit /\ GrowthRoom => []GrowthSuffices
<1>1. HeapInit => GrowthSuffices BY DEF HeapInit, GrowthSuffices
<1>2. HeapSpec /\ NotAtLimit => []HeapInv
  <2> SUFFICES ASSUME NotAtLimit PROVE HeapSpec => []HeapInv OBVIOUS
  <2>1. HeapInv /\ [HeapNext]_heapVars => HeapInv' BY HeapSteps
  <2>2. QED BY <2>1, HeapStarts, PTL DEF HeapSpec
<1>3. SUFFICES ASSUME NotAtLimit, GrowthRoom PROVE HeapSpec => []GrowthSuffices OBVIOUS
<1>4. HeapInv /\ GrowthSuffices /\ [HeapNext]_heapVars => GrowthSuffices' BY <1>3, GrowthSteps
<1>5. HeapSpec => []HeapInv BY <1>2, <1>3
<1>6. QED BY <1>1, <1>4, <1>5, PTL DEF HeapSpec

-----------------------------------------------------------------------------
(* The increment of the code, 2 MB, is more than enough.                   *)

LargeIncrement ==
  /\ SL_INDEX_COUNT_LOG2 >= 1
  /\ \A size \in Sizes : Pool(size) < block_size_max
  /\ \A alignment \in Alignments : grow_increment >= ALIGN_SIZE * (12 * alignment + 33)

(* A size is rounded up by less than half of it.                           *)
LEMMA RoundedByHalf ==
  ASSUME SL_INDEX_COUNT_LOG2 >= 1, NEW x \in Nat, x >= 2
  PROVE  Rounded(x) \in Nat /\ 2 * Rounded(x) <= 3 * x - 2
<1>1. CASE x < SMALL_BLOCK_SIZE BY <1>1 DEF Rounded
<1>2. CASE ~(x < SMALL_BLOCK_SIZE)
  <2> DEFINE d == Width(x)
             q == x \div d
  <2>1. d \in Nat \ {0} /\ q \in SL_INDEX_COUNT .. 2 * SL_INDEX_COUNT - 1 BY <1>2, NotSmall
  <2>2. SL_INDEX_COUNT \in Nat /\ SL_INDEX_COUNT >= 2
    <3>1. SL_INDEX_COUNT_LOG2 \in Nat /\ SL_INDEX_COUNT = Pow2[SL_INDEX_COUNT_LOG2] BY Indexes
    <3>2. Pow2[0] = 1 /\ Pow2[0 + 1] = 2 * Pow2[0] BY Powers
    <3>3. Pow2[1] = 2 BY <3>2
    <3>4. Pow2[1] <= Pow2[SL_INDEX_COUNT_LOG2] BY <3>1, NotShrinking
    <3>5. Pow2[SL_INDEX_COUNT_LOG2] \in Nat BY <3>1, Power
    <3>6. QED BY <3>1, <3>3, <3>4, <3>5
  <2>3. q \in Nat /\ q * d <= x BY <2>1, Division
  <2>4. Rounded(x) = x + d - 1 BY <1>2 DEF Rounded
  <2> HIDE DEF d, q
  <2>5. 2 * d <= q * d
    <3>1. q >= 2 BY <2>1, <2>2
    <3>2. QED BY <2>1, <2>3, <3>1, Products
  <2>6. q * d \in Nat BY <2>1, <2>3, Products
  <2>7. 2 * d <= x BY <2>1, <2>3, <2>5, <2>6
  <2>8. QED BY <2>1, <2>4, <2>7
<1>3. QED BY <1>1, <1>2

LEMMA AskedFor ==
  ASSUME NEW size \in Nat \ {0}, NEW align \in Nat \ {0}, size + 2 * align + 5 < block_size_max
  PROVE  /\ aligned_request(align, size) \in Nat
         /\ aligned_request(align, size) >= 3
         /\ aligned_request(align, size) <= size + 2 * align + 5
<1> DEFINE adjust == adjust_request_size(size, 1)
           more   == adjust + align + 4
           asked  == AlignUp(more, align)
<1>0. block_size_max \in Nat BY Indexes
<1>1. adjust = IF size >= 3 THEN size ELSE 3
  <2>1. size % 1 = 0 OBVIOUS
  <2>2. AlignUp(size, 1) = size BY <2>1, Alignment
  <2>3. ~(size = 0 \/ size >= block_size_max) BY <1>0
  <2>4. adjust = Max({size, 3}) BY <2>2, <2>3 DEF adjust_request_size, block_size_min
  <2> HIDE DEF adjust
  <2>5. QED BY <2>4, Largest
<1>2. aligned_request(align, size)
      = IF adjust # 0 /\ align > 1 THEN adjust_request_size(more, align) ELSE adjust
  BY DEF aligned_request, header_size
<1> HIDE DEF adjust
<1>3. adjust \in Nat /\ adjust >= 3 /\ adjust <= size + 2 BY <1>1
<1>4. more \in Nat /\ more >= 8 /\ more <= size + align + 6 BY <1>3
<1> HIDE DEF more
<1>5. asked \in Nat /\ more <= asked /\ asked <= more + align - 1 BY <1>4, Alignment
<1>6. adjust_request_size(more, align) = asked
  <2>1. ~(more = 0 \/ asked >= block_size_max) BY <1>0, <1>4, <1>5
  <2>2. adjust_request_size(more, align) = Max({asked, 3})
    BY <2>1 DEF adjust_request_size, block_size_min
  <2> HIDE DEF asked
  <2>3. QED BY <1>4, <1>5, <2>2, Largest
<1> HIDE DEF asked
<1>7. QED BY <1>2, <1>3, <1>4, <1>5, <1>6

(* Twice the bytes of a request are nearly twice its words.                *)
LEMMA PoolHolds ==
  ASSUME LargeIncrement, NEW size \in Sizes \ {0}, NEW align \in Alignments
  PROVE  /\ InWords(size) \in Nat \ {0} /\ Pool(size) \in Nat /\ align \in Nat \ {0}
         /\ Pool(size) >= 12 * align + 32 /\ Pool(size) + 2 >= 2 * InWords(size)
<1> DEFINE words == InWords(size)
           pool  == Pool(size)
<1>1. size \in Nat \ {0} /\ align \in Nat \ {0} /\ grow_increment \in Nat BY HeapAssumption
<1>2. words \in Nat /\ size <= 8 * words /\ 8 * words <= size + 7 BY <1>1, WordsUp
<1>3. pool \in Nat /\ grow_increment <= 8 * pool + 7 /\ size * 2 <= 8 * pool + 7
  BY <1>1, PoolWords
<1>4. grow_increment >= 8 * (12 * align + 33) BY DEF LargeIncrement, ALIGN_SIZE
<1> HIDE DEF words, pool
<1>5. words # 0 BY <1>1, <1>2
<1>6. pool >= 12 * align + 32 BY <1>1, <1>3, <1>4
<1>7. pool + 2 >= 2 * words BY <1>1, <1>2, <1>3
<1>8. QED BY <1>1, <1>2, <1>3, <1>5, <1>6, <1>7 DEF words, pool

LEMMA EnoughRoom == LargeIncrement => NotAtLimit /\ GrowthRoom
<1> SUFFICES ASSUME LargeIncrement PROVE NotAtLimit /\ GrowthRoom OBVIOUS
<1>0. block_size_max \in Nat BY Indexes
<1>1. NotAtLimit
  <2> SUFFICES ASSUME NEW size \in Sizes PROVE Pool(size) # block_size_max BY DEF NotAtLimit
  <2>1. Pool(size) \in Nat BY HeapAssumption, PoolWords
  <2>2. Pool(size) < block_size_max BY DEF LargeIncrement
  <2>3. QED BY <1>0, <2>1, <2>2
<1>2. ASSUME NEW size \in Sizes \ {0}, NEW align \in Alignments PROVE Room(size, align)
  <2> DEFINE words == InWords(size)
             pool  == Pool(size)
             asked == aligned_request(align, words)
  <2>1. /\ words \in Nat \ {0} /\ pool \in Nat /\ align \in Nat \ {0}
        /\ pool >= 12 * align + 32 /\ pool + 2 >= 2 * words
    BY PoolHolds
  <2>2. pool < block_size_max BY DEF LargeIncrement
  <2> HIDE DEF pool, words
  <2>3. pool >= 3 /\ words + 2 * align + 5 < block_size_max BY <1>0, <2>1, <2>2
  <2>4. asked \in Nat /\ asked >= 3 /\ asked <= words + 2 * align + 5 BY <2>1, <2>3, AskedFor
  <2> HIDE DEF asked
  <2>5. Rounded(asked) \in Nat /\ 2 * Rounded(asked) <= 3 * asked - 2
    BY <2>4, RoundedByHalf DEF LargeIncrement
  <2>6. Rounded(asked) <= pool BY <2>1, <2>4, <2>5
  <2>7. NoLater(mapping_search(asked), mapping_insert(pool))
    BY <2>1, <2>4, <2>5, <2>6, InsertOrder, SearchIndex
  <2>8. QED BY <2>2, <2>3, <2>4, <2>7 DEF Room, pool, words, asked
<1>3. QED BY <1>1, <1>2 DEF GrowthRoom

(* With an increment like that of main.c:16, every arena is large enough   *)
(* for the request it is made for, if that is of less than half the        *)
(* allocator's limit (heap.c:52-74, tlsf.c:341, 499-503).                  *)
THEOREM HeapIncrementSuffices == HeapSpec /\ LargeIncrement => [](BlocksSound /\ GrowthSuffices)
<1> SUFFICES ASSUME LargeIncrement PROVE HeapSpec => [](BlocksSound /\ GrowthSuffices) OBVIOUS
<1>1. NotAtLimit /\ GrowthRoom BY EnoughRoom
<1>2. HeapSpec => []BlocksSound BY <1>1, HeapBlocksSound
<1>3. HeapSpec => []GrowthSuffices BY <1>1, HeapGrowthSuffices
<1>4. QED BY <1>2, <1>3, PTL
=============================================================================
