------------------------ MODULE NetReplicationProofs ------------------------
(***************************************************************************)
(* Proofs about NetReplication, for packets lost, delayed, repeated and    *)
(* reordered in any way.                                                   *)
(***************************************************************************)
EXTENDS NetReplication, FiniteSetTheorems, WellFoundedInduction, TLAPS

-----------------------------------------------------------------------------
(* Loops.  A nonempty set of naturals has a smallest element, so what      *)
(* holds of 0 and is passed on by each n below N holds up to N.            *)
LEMMA SmallestIn ==
  ASSUME NEW S \in SUBSET Nat, S # {}
  PROVE  Smallest(S) \in S /\ \A j \in S : Smallest(S) <= j
<1> DEFINE Below == {pair \in Nat \X Nat : pair[1] < pair[2]}
<1>1. Below = OpToRel(<, Nat) BY DEF OpToRel
<1>2. IsWellFoundedOn(Below, Nat) BY <1>1, NatLessThanWellFounded
<1>3. PICK i \in S : \A j \in S : ~ (<<j, i>> \in Below)
  <2> HIDE DEF Below
  <2> QED BY <1>2, WFMin
<1>4. ASSUME NEW j \in S PROVE i <= j
  <2>1. j \in Nat /\ i \in Nat OBVIOUS
  <2>2. <<j, i>> \in Nat \X Nat BY <2>1
  <2>3. ~ (j < i) BY <1>3, <2>2
  <2> QED BY <2>1, <2>3
<1>5. QED BY <1>4 DEF Smallest

LEMMA UpTo ==
  ASSUME NEW N \in Nat, NEW S, 0 \in S,
         \A n \in 0 .. N - 1 : n \in S => n + 1 \in S
  PROVE  \A n \in 0 .. N : n \in S
<1> SUFFICES ASSUME NEW m \in 0 .. N, m \notin S PROVE FALSE OBVIOUS
<1> DEFINE Missing == {n \in 0 .. N : n \notin S}
<1>1. Missing \in SUBSET Nat /\ Missing # {} OBVIOUS
<1>2. PICK k : k \in Missing /\ \A j \in Missing : k <= j BY <1>1, SmallestIn
<1>3. k \in 0 .. N /\ k \notin S /\ k # 0 BY <1>2
<1>4. k - 1 \in 0 .. N - 1 BY <1>3
<1>5. k - 1 \notin S BY <1>3, <1>4
<1>6. k - 1 \in Missing BY <1>4, <1>5
<1>7. QED BY <1>2, <1>3, <1>6

LEMMA PeersPaired ==
  ASSUME NEW p \in Peers
  PROVE  /\ Other(p) \in Peers /\ Other(p) # p /\ Other(Other(p)) = p
         /\ \A q \in Peers : q = p \/ q = Other(p)
<1>1. IsFiniteSet(Peers) /\ Cardinality(Peers) = 2 BY PeersAssumption
<1>2. /\ IsFiniteSet(Peers \ {p}) /\ Cardinality(Peers \ {p}) = 1
  BY <1>1, FS_RemoveElement
<1>3. PICK q : Peers \ {p} = {q}
  <2>1. \E q : Peers \ {p} = {q} BY <1>2, FS_Singleton
  <2>2. QED BY <2>1
<1>4. q \in Peers /\ q # p /\ \A r \in Peers : r = p \/ r = q BY <1>3
<1>5. Other(p) = q BY <1>4 DEF Other
<1>6. Other(q) = p BY <1>4 DEF Other
<1>7. QED BY <1>4, <1>5, <1>6

(* packet_read_entities reads the entities of a packet one after the other. *)
ReadsPacket(Read, s, packet, now) ==
  /\ Read[0] = s
  /\ \A n \in 1 .. Len(packet.entities) :
       Read[n] = ReadEntity(Read[n - 1], packet.entities[n], now)
  /\ Accept(s, packet, now) =
       [Read[Len(packet.entities)] EXCEPT
          !.incoming_sequence = packet.sequence,
          !.ack_sequence = packet.ack_sequence,
          !.accepted = @ \cup {packet.sequence},
          !.batch = @ \cup {packet.sequence},
          !.replicas = RemoveUnseen(@, now)]

LEMMA ReadLoop ==
  ASSUME NEW s, NEW packet, NEW now, Len(packet.entities) \in Nat
  PROVE  \E Read : ReadsPacket(Read, s, packet, now)
<1> DEFINE N == Len(packet.entities)
           Step(r, n) == ReadEntity(r, packet.entities[n], now)
           Is(g, m) == g = [n \in 0 .. m |-> IF n = 0 THEN s ELSE Step(g[n - 1], n)]
           Read == CHOOSE g : Is(g, N)
           Lengths == {m \in 0 .. N : \E g : Is(g, m)}
<1>1. Accept(s, packet, now) =
        [Read[Len(packet.entities)] EXCEPT
           !.incoming_sequence = packet.sequence,
           !.ack_sequence = packet.ack_sequence,
           !.accepted = @ \cup {packet.sequence},
           !.batch = @ \cup {packet.sequence},
           !.replicas = RemoveUnseen(@, now)]
  BY DEF Accept
<1> HIDE DEF Step
<1>2. 0 \in Lengths
  <2> DEFINE h == [n \in 0 .. 0 |-> s]
  <2>1. Is(h, 0) OBVIOUS
  <2> HIDE DEF h, Is
  <2>2. \E g : Is(g, 0) BY <2>1
  <2>3. QED BY <2>2
<1>3. ASSUME NEW m \in 0 .. N - 1, m \in Lengths PROVE m + 1 \in Lengths
  <2>1. PICK g : Is(g, m) BY <1>3
  <2> DEFINE h == [n \in 0 .. m + 1 |-> IF n = m + 1 THEN Step(g[m], m + 1) ELSE g[n]]
  <2>2. \A n \in 0 .. m + 1 : h[n] = IF n = 0 THEN s ELSE Step(h[n - 1], n)
    <3> TAKE n \in 0 .. m + 1
    <3>1. CASE n = 0 BY <2>1, <3>1
    <3>2. CASE n = m + 1 BY <3>2
    <3>3. CASE n \in 1 .. m BY <2>1, <3>3
    <3>4. QED BY <3>1, <3>2, <3>3
  <2>3. h = [n \in 0 .. m + 1 |-> h[n]] OBVIOUS
  <2> HIDE DEF h
  <2>4. h = [n \in 0 .. m + 1 |-> IF n = 0 THEN s ELSE Step(h[n - 1], n)] BY <2>2, <2>3
  <2>5. QED BY <2>4
<1>4. N \in Lengths
  <2> HIDE DEF Lengths
  <2>1. \A n \in 0 .. N : n \in Lengths BY <1>2, <1>3, UpTo
  <2>2. QED BY <2>1
<1>5. Is(Read, N) BY <1>4
<1>6. Read[0] = s /\ \A n \in 1 .. N : Read[n] = Step(Read[n - 1], n)
  <2> HIDE DEF Read
  <2>1. \A n \in 0 .. N : Read[n] = IF n = 0 THEN s ELSE Step(Read[n - 1], n) BY <1>5
  <2>2. \A n \in 1 .. N : n \in 0 .. N /\ n # 0 OBVIOUS
  <2>3. QED BY <2>1, <2>2
<1>7. ReadsPacket(Read, s, packet, now)
  <2> HIDE DEF Read
  <2>1. QED BY <1>1, <1>6 DEF ReadsPacket, Step
<1>8. QED BY <1>7

(* net_update handles the packets of recv_queue one after the other.       *)
Start(p) == [replicas |-> EcsUpdated(replicas[p]), orphans |-> {}, batch |-> {},
             incoming_sequence |-> incoming_sequence[p],
             ack_sequence |-> ack_sequence[p], accepted |-> accepted[p]]

LEMMA ReceiveLoop ==
  ASSUME NEW p \in Peers, NEW recv_queue, Len(recv_queue) \in Nat
  PROVE  \E Loop :
           /\ Loop[0] = Start(p)
           /\ \A n \in 1 .. Len(recv_queue) :
                Loop[n] = RecvPacket(Loop[n - 1], recv_queue[n], sequence[p])
           /\ Received(p, recv_queue) = Loop[Len(recv_queue)]
<1> DEFINE N == Len(recv_queue)
           Step(r, n) == RecvPacket(r, recv_queue[n], sequence[p])
           Is(g, m) == g = [n \in 0 .. m |-> IF n = 0 THEN Start(p) ELSE Step(g[n - 1], n)]
           Loop == CHOOSE g : Is(g, N)
           Lengths == {m \in 0 .. N : \E g : Is(g, m)}
<1>1. Received(p, recv_queue) = Loop[N] BY DEF Received, Start
<1> HIDE DEF Step
<1>2. 0 \in Lengths
  <2> DEFINE h == [n \in 0 .. 0 |-> Start(p)]
  <2>1. Is(h, 0) OBVIOUS
  <2> HIDE DEF h, Is
  <2>2. \E g : Is(g, 0) BY <2>1
  <2>3. QED BY <2>2
<1>3. ASSUME NEW m \in 0 .. N - 1, m \in Lengths PROVE m + 1 \in Lengths
  <2>1. PICK g : Is(g, m) BY <1>3
  <2> DEFINE h == [n \in 0 .. m + 1 |-> IF n = m + 1 THEN Step(g[m], m + 1) ELSE g[n]]
  <2>2. \A n \in 0 .. m + 1 : h[n] = IF n = 0 THEN Start(p) ELSE Step(h[n - 1], n)
    <3> TAKE n \in 0 .. m + 1
    <3>1. CASE n = 0 BY <2>1, <3>1
    <3>2. CASE n = m + 1 BY <3>2
    <3>3. CASE n \in 1 .. m BY <2>1, <3>3
    <3>4. QED BY <3>1, <3>2, <3>3
  <2>3. h = [n \in 0 .. m + 1 |-> h[n]] OBVIOUS
  <2> HIDE DEF h
  <2>4. h = [n \in 0 .. m + 1 |-> IF n = 0 THEN Start(p) ELSE Step(h[n - 1], n)]
    BY <2>2, <2>3
  <2>5. QED BY <2>4
<1>4. N \in Lengths
  <2> HIDE DEF Lengths
  <2>1. \A n \in 0 .. N : n \in Lengths BY <1>2, <1>3, UpTo
  <2>2. QED BY <2>1
<1>5. Is(Loop, N) BY <1>4
<1>6. Loop[0] = Start(p) /\ \A n \in 1 .. N : Loop[n] = Step(Loop[n - 1], n)
  <2> HIDE DEF Loop
  <2>1. \A n \in 0 .. N : Loop[n] = IF n = 0 THEN Start(p) ELSE Step(Loop[n - 1], n) BY <1>5
  <2>2. \A n \in 1 .. N : n \in 0 .. N /\ n # 0 OBVIOUS
  <2>3. QED BY <2>1, <2>2
<1>7. QED BY <1>1, <1>6 DEF Step

(* packet_add_entities walks the acknowledged snapshot beside the current. *)
Same(cur, ack, n, k) == k <= Len(ack) /\ ack[k].id = cur[n].id

Walks(Seen, cur, ack) ==
  /\ Seen[1] = 1
  /\ \A n \in 1 .. Len(cur) :
       Seen[n + 1] = IF Same(cur, ack, n, Seen[n]) THEN Seen[n] + 1 ELSE Seen[n]
  /\ AddEntities(cur, ack) =
       [n \in 1 .. Len(cur) |->
          LET diff == ~(Same(cur, ack, n, Seen[n])
                        /\ ack[Seen[n]].value = cur[n].value)
          IN [id |-> cur[n].id, diff |-> diff,
              value |-> IF diff THEN cur[n].value ELSE Unset]]

LEMMA AddLoop ==
  ASSUME NEW cur, NEW ack, Len(cur) \in Nat
  PROVE  \E Seen : Walks(Seen, cur, ack)
<1> DEFINE N == Len(cur)
           Step(k, n) == IF Same(cur, ack, n, k) THEN k + 1 ELSE k
           Is(g, m) == g = [n \in 1 .. m + 1 |-> IF n = 1 THEN 1 ELSE Step(g[n - 1], n - 1)]
           Seen == CHOOSE g : Is(g, N)
           Lengths == {m \in 0 .. N : \E g : Is(g, m)}
<1>1. AddEntities(cur, ack) =
        [n \in 1 .. Len(cur) |->
           LET diff == ~(Same(cur, ack, n, Seen[n])
                         /\ ack[Seen[n]].value = cur[n].value)
           IN [id |-> cur[n].id, diff |-> diff,
               value |-> IF diff THEN cur[n].value ELSE Unset]]
  BY DEF AddEntities, Same
<1> HIDE DEF Step
<1>2. 0 \in Lengths
  <2> DEFINE h == [n \in 1 .. 0 + 1 |-> 1]
  <2>1. Is(h, 0) OBVIOUS
  <2> HIDE DEF h, Is
  <2>2. \E g : Is(g, 0) BY <2>1
  <2>3. QED BY <2>2
<1>3. ASSUME NEW m \in 0 .. N - 1, m \in Lengths PROVE m + 1 \in Lengths
  <2>1. PICK g : Is(g, m) BY <1>3
  <2> DEFINE h == [n \in 1 .. (m + 1) + 1 |->
                     IF n = m + 2 THEN Step(g[m + 1], m + 1) ELSE g[n]]
  <2>2. \A n \in 1 .. (m + 1) + 1 : h[n] = IF n = 1 THEN 1 ELSE Step(h[n - 1], n - 1)
    <3> TAKE n \in 1 .. (m + 1) + 1
    <3>1. CASE n = 1 BY <2>1, <3>1
    <3>2. CASE n = m + 2 BY <3>2
    <3>3. CASE n \in 2 .. m + 1 BY <2>1, <3>3
    <3>4. QED BY <3>1, <3>2, <3>3
  <2>3. h = [n \in 1 .. (m + 1) + 1 |-> h[n]] OBVIOUS
  <2> HIDE DEF h
  <2>4. h = [n \in 1 .. (m + 1) + 1 |-> IF n = 1 THEN 1 ELSE Step(h[n - 1], n - 1)]
    BY <2>2, <2>3
  <2>5. QED BY <2>4
<1>4. N \in Lengths
  <2> HIDE DEF Lengths
  <2>1. \A n \in 0 .. N : n \in Lengths BY <1>2, <1>3, UpTo
  <2>2. QED BY <2>1
<1>5. Is(Seen, N) BY <1>4
<1>6. Seen[1] = 1 /\ \A n \in 1 .. N : Seen[n + 1] = Step(Seen[n], n)
  <2> HIDE DEF Seen
  <2>1. \A n \in 1 .. N + 1 : Seen[n] = IF n = 1 THEN 1 ELSE Step(Seen[n - 1], n - 1)
    BY <1>5
  <2>2. Seen[1] = 1 BY <2>1
  <2>3. ASSUME NEW n \in 1 .. N PROVE Seen[n + 1] = Step(Seen[n], n)
    <3>1. n + 1 \in 1 .. N + 1 /\ (n + 1) - 1 = n /\ n + 1 # 1 OBVIOUS
    <3>2. Seen[n + 1] = Step(Seen[(n + 1) - 1], (n + 1) - 1) BY <2>1, <3>1
    <3>3. QED BY <3>1, <3>2
  <2>4. QED BY <2>2, <2>3
<1>7. Walks(Seen, cur, ack)
  <2> HIDE DEF Seen
  <2>1. QED BY <1>1, <1>6 DEF Walks, Step
<1>8. QED BY <1>7

-----------------------------------------------------------------------------
(* Types of the state *)

Item    == [id : Ids, value : Nat \cup {Unset}]
Diff    == [id : Ids, diff : BOOLEAN, value : Nat \cup {Unset}]
Packet  == [sequence : Nat, ack_sequence : Nat \cup {-1}, entities : Seq(Diff)]
Replica == [state : {"invalid", "valid", "pending_remove"}, remote_sequence : Ids \cup {0},
            value : Nat \cup {Unset}, last_recved_sequence : Nat]
Reader  == [replicas : [RefSlots -> Replica], orphans : SUBSET Ids, batch : SUBSET Nat,
            incoming_sequence : Nat \cup {-1}, ack_sequence : Nat \cup {-1},
            accepted : SUBSET Nat]

SourceTyped == /\ alive \in [Peers -> SUBSET Ids]
               /\ component \in [Peers -> [Ids -> Nat \cup {Unset}]]
SenderTyped == /\ sequence \in [Peers -> Nat]
               /\ snapshots \in [Peers -> [0 .. Ring - 1 -> [sequence : Nat, data : Seq(Item)]]]
               /\ wire \in [Peers -> SUBSET Packet]
               /\ sent \in [Peers -> Seq(Seq(Item))]
ReaderTyped == /\ replicas \in [Peers -> [RefSlots -> Replica]]
               /\ incoming_sequence \in [Peers -> Nat \cup {-1}]
               /\ ack_sequence \in [Peers -> Nat \cup {-1}]
               /\ accepted \in [Peers -> SUBSET Nat]
               /\ batch \in [Peers -> SUBSET Nat]
               /\ previous \in [Peers -> SUBSET Nat]
               /\ orphans \in [Peers -> SUBSET Ids]
Typed == SourceTyped /\ SenderTyped /\ ReaderTyped

LEMMA SmallestOf ==
  ASSUME NEW N \in Nat, NEW S \in SUBSET (0 .. N - 1), S # {}
  PROVE  /\ Smallest(S) \in S /\ Smallest(S) \in 0 .. N - 1
         /\ \A j \in S : Smallest(S) <= j
<1>1. S \in SUBSET Nat OBVIOUS
<1>2. QED BY <1>1, SmallestIn

LEMMA FreeSlot ==
  ASSUME NEW S \in SUBSET RefSlots, S # {}
  PROVE  Smallest(S) \in S /\ Smallest(S) \in RefSlots /\ \A j \in S : Smallest(S) <= j
BY SmallestOf, SizesAssumption DEF RefSlots

(* What reading one entity does, one case for each way through.            *)
Known(s, id) == {i \in RefSlots : s.replicas[i].remote_sequence = id}
Noted(s, id, now) ==
  IF Known(s, id) = {} THEN s.replicas
  ELSE [s.replicas EXCEPT ![Smallest(Known(s, id))].last_recved_sequence = now]
Free(s, id, now) == {i \in RefSlots : ~RefValid(Noted(s, id, now)[i])}

ReadsAs(s, entity, now, to) ==
  LET id == entity.id
      i  == Smallest(Known(s, id))
      f  == Smallest(Free(s, id, now))
      known == Known(s, id) # {} /\ RefValid(s.replicas[i])
  IN /\ known =>
          to = [s EXCEPT !.replicas = [Noted(s, id, now) EXCEPT
                   ![i].value = IF entity.diff THEN entity.value ELSE @]]
     /\ ~known /\ Free(s, id, now) = {} =>
          to = [s EXCEPT !.replicas = Noted(s, id, now), !.orphans = @ \cup {id}]
     /\ ~known /\ Free(s, id, now) # {} =>
          to = [s EXCEPT !.replicas = [Noted(s, id, now) EXCEPT ![f] =
                   [state |-> "valid", remote_sequence |-> id,
                    value |-> IF entity.diff THEN entity.value ELSE Unset,
                    last_recved_sequence |-> now]]]

LEMMA ReadCases ==
  ASSUME NEW s \in Reader, NEW entity \in Diff, NEW now \in Nat
  PROVE  ReadsAs(s, entity, now, ReadEntity(s, entity, now))
BY DEF ReadsAs, ReadEntity, Known, Noted, Free

LEMMA NotedTyped ==
  ASSUME NEW s \in Reader, NEW id \in Ids, NEW now \in Nat
  PROVE  Noted(s, id, now) \in [RefSlots -> Replica]
<1>1. CASE Known(s, id) = {} BY <1>1 DEF Noted, Reader
<1>2. CASE Known(s, id) # {}
  <2>1. Smallest(Known(s, id)) \in RefSlots BY <1>2, FreeSlot DEF Known
  <2>2. QED BY <1>2, <2>1 DEF Noted, Reader, Replica
<1>3. QED BY <1>1, <1>2

LEMMA ReadTyped ==
  ASSUME NEW s \in Reader, NEW entity \in Diff, NEW now \in Nat
  PROVE  LET to == ReadEntity(s, entity, now)
         IN /\ to \in Reader
            /\ to.incoming_sequence = s.incoming_sequence
            /\ to.ack_sequence = s.ack_sequence /\ to.accepted = s.accepted
            /\ to.batch = s.batch
<1> DEFINE id == entity.id
           i  == Smallest(Known(s, id))
           f  == Smallest(Free(s, id, now))
           to == ReadEntity(s, entity, now)
           noted == Noted(s, id, now)
           fresh == [state |-> "valid", remote_sequence |-> id,
                     value |-> IF entity.diff THEN entity.value ELSE Unset,
                     last_recved_sequence |-> now]
<1>0. ReadsAs(s, entity, now, to) BY ReadCases
<1>1. id \in Ids /\ entity.value \in Nat \cup {Unset} BY DEF Diff
<1>2. noted \in [RefSlots -> Replica] BY <1>1, NotedTyped
<1>3. fresh \in Replica BY <1>1 DEF Replica
<1>4. Known(s, id) # {} => i \in RefSlots BY FreeSlot DEF Known
<1>5. Free(s, id, now) # {} => f \in RefSlots BY FreeSlot DEF Free
<1>6. CASE Known(s, id) # {} /\ RefValid(s.replicas[i])
  <2> DEFINE r == [noted EXCEPT ![i].value = IF entity.diff THEN entity.value ELSE @]
  <2>1. r \in [RefSlots -> Replica]
    <3> HIDE DEF noted, i, id
    <3>1. QED BY <1>1, <1>2 DEF Replica
  <2>2. to = [s EXCEPT !.replicas = r] BY <1>0, <1>6 DEF ReadsAs
  <2>3. QED
    <3> HIDE DEF r
    <3>1. QED BY <2>1, <2>2 DEF Reader
<1>7. CASE ~(Known(s, id) # {} /\ RefValid(s.replicas[i])) /\ Free(s, id, now) = {}
  <2>1. to = [s EXCEPT !.replicas = noted, !.orphans = @ \cup {id}] BY <1>0, <1>7 DEF ReadsAs
  <2>2. QED
    <3> HIDE DEF noted
    <3>1. s.orphans \cup {id} \in SUBSET Ids BY <1>1 DEF Reader
    <3> DEFINE more == s.orphans \cup {id}
    <3>2. to = [s EXCEPT !.replicas = noted, !.orphans = more] BY <2>1
    <3> HIDE DEF more
    <3>3. QED BY <1>2, <3>1, <3>2 DEF Reader, more
<1>8. CASE ~(Known(s, id) # {} /\ RefValid(s.replicas[i])) /\ Free(s, id, now) # {}
  <2> DEFINE r == [noted EXCEPT ![f] = fresh]
  <2>1. r \in [RefSlots -> Replica]
    <3> HIDE DEF noted, f, fresh
    <3>1. QED BY <1>2, <1>3
  <2>2. to = [s EXCEPT !.replicas = r] BY <1>0, <1>8 DEF ReadsAs
  <2>3. QED
    <3> HIDE DEF r
    <3>1. QED BY <2>1, <2>2 DEF Reader
<1>9. QED BY <1>6, <1>7, <1>8

LEMMA AcceptTyped ==
  ASSUME NEW s \in Reader, NEW packet \in Packet, NEW now \in Nat
  PROVE  LET to == Accept(s, packet, now)
         IN /\ to \in Reader
            /\ to.incoming_sequence = packet.sequence
            /\ to.ack_sequence = packet.ack_sequence
            /\ to.accepted = s.accepted \cup {packet.sequence}
            /\ to.batch = s.batch \cup {packet.sequence}
<1> DEFINE N == Len(packet.entities)
           to == Accept(s, packet, now)
<1>1. N \in Nat /\ \A n \in 1 .. N : packet.entities[n] \in Diff BY DEF Packet
<1>2. packet.sequence \in Nat BY DEF Packet
<1>3. PICK Read : ReadsPacket(Read, s, packet, now) BY <1>1, ReadLoop
<1>4. /\ Read[0] = s
      /\ \A n \in 1 .. N : Read[n] = ReadEntity(Read[n - 1], packet.entities[n], now)
      /\ to = [Read[N] EXCEPT
              !.incoming_sequence = packet.sequence,
              !.ack_sequence = packet.ack_sequence,
              !.accepted = @ \cup {packet.sequence},
              !.batch = @ \cup {packet.sequence},
              !.replicas = RemoveUnseen(@, now)]
  BY <1>3 DEF ReadsPacket
<1> DEFINE Good == {n \in 0 .. N : /\ Read[n] \in Reader /\ Read[n].accepted = s.accepted
                                   /\ Read[n].batch = s.batch}
<1>5. 0 \in Good BY <1>1, <1>4
<1>6. ASSUME NEW n \in 0 .. N - 1, n \in Good PROVE n + 1 \in Good
  <2>1. n + 1 \in 1 .. N /\ (n + 1) - 1 = n BY <1>1
  <2>2. Read[n + 1] = ReadEntity(Read[n], packet.entities[n + 1], now) BY <1>4, <2>1
  <2>3. packet.entities[n + 1] \in Diff BY <1>1, <2>1
  <2>4. QED BY <1>6, <2>1, <2>2, <2>3, ReadTyped
<1>7. N \in Good
  <2> HIDE DEF Good
  <2>1. \A n \in 0 .. N : n \in Good BY <1>1, <1>5, <1>6, UpTo
  <2>2. QED BY <1>1, <2>1
<1> DEFINE done == Read[N]
           kept == RemoveUnseen(done.replicas, now)
<1>8. done \in Reader /\ done.accepted = s.accepted /\ done.batch = s.batch BY <1>7
<1>9. kept \in [RefSlots -> Replica]
  <2> HIDE DEF done
  <2>1. done.replicas \in [RefSlots -> Replica] BY <1>8 DEF Reader
  <2>2. QED BY <2>1 DEF RemoveUnseen, Replica
<1>10. packet.ack_sequence \in Nat \cup {-1} BY DEF Packet
<1>11. to = [done EXCEPT !.incoming_sequence = packet.sequence,
                         !.ack_sequence = packet.ack_sequence,
                         !.accepted = @ \cup {packet.sequence},
                         !.batch = @ \cup {packet.sequence},
                         !.replicas = kept]
  BY <1>4
<1> HIDE DEF done, kept, to
<1>12. to = [replicas |-> kept, orphans |-> done.orphans,
             batch |-> done.batch \cup {packet.sequence},
             incoming_sequence |-> packet.sequence,
             ack_sequence |-> packet.ack_sequence,
             accepted |-> done.accepted \cup {packet.sequence}]
  BY <1>8, <1>11 DEF Reader
<1>13. done.orphans \in SUBSET Ids /\ done.accepted \in SUBSET Nat /\ done.batch \in SUBSET Nat
  BY <1>8 DEF Reader
<1>14. /\ done.accepted \cup {packet.sequence} \in SUBSET Nat
       /\ done.batch \cup {packet.sequence} \in SUBSET Nat
  BY <1>2, <1>13
<1>15. to \in Reader BY <1>2, <1>9, <1>10, <1>12, <1>13, <1>14 DEF Reader
<1>16. QED BY <1>8, <1>12, <1>15 DEF to

LEMMA RecvTyped ==
  ASSUME NEW s \in Reader, NEW packet \in Packet, NEW now \in Nat
  PROVE  LET to == RecvPacket(s, packet, now)
         IN \/ packet.sequence <= s.incoming_sequence /\ to = s
            \/ ~(packet.sequence <= s.incoming_sequence) /\ to = Accept(s, packet, now)
BY DEF RecvPacket

LEMMA StartTyped ==
  ASSUME Typed, NEW p \in Peers
  PROVE  Start(p) \in Reader
<1>1. replicas[p] \in [RefSlots -> Replica] BY DEF Typed, ReaderTyped
<1>2. EcsUpdated(replicas[p]) \in [RefSlots -> Replica]
  BY <1>1 DEF EcsUpdated, Replica
<1>3. QED BY <1>2 DEF Start, Reader, Typed, ReaderTyped

LEMMA Arrival ==
  ASSUME NEW p \in Peers, NEW recv_queue \in Arrivals(p)
  PROVE  /\ Len(recv_queue) \in Nat
         /\ \A n \in 1 .. Len(recv_queue) : recv_queue[n] \in wire[p]
<1>1. PICK n \in 0 .. MaxReads[p] : recv_queue \in [1 .. n -> wire[p]] BY DEF Arrivals
<1>2. n \in Nat BY BoundsAssumption
<1>3. recv_queue \in Seq(wire[p]) /\ Len(recv_queue) = n BY <1>1, <1>2
<1>4. QED BY <1>1, <1>2, <1>3

(* What holds before recv_queue is read, and after each packet of it.      *)
LEMMA ReceivedIn ==
  ASSUME NEW p \in Peers, NEW recv_queue \in Arrivals(p), NEW Good,
         Start(p) \in Good,
         \A s \in Good : \A k \in wire[p] : RecvPacket(s, k, sequence[p]) \in Good
  PROVE  Received(p, recv_queue) \in Good
<1> DEFINE N == Len(recv_queue)
<1>1. N \in Nat /\ \A n \in 1 .. N : recv_queue[n] \in wire[p] BY Arrival
<1>2. PICK Loop : /\ Loop[0] = Start(p)
                  /\ \A n \in 1 .. N :
                       Loop[n] = RecvPacket(Loop[n - 1], recv_queue[n], sequence[p])
                  /\ Received(p, recv_queue) = Loop[N]
  BY <1>1, ReceiveLoop
<1> DEFINE Passed == {n \in 0 .. N : Loop[n] \in Good}
<1>3. 0 \in Passed BY <1>1, <1>2
<1>4. ASSUME NEW n \in 0 .. N - 1, n \in Passed PROVE n + 1 \in Passed
  <2>1. n + 1 \in 1 .. N /\ (n + 1) - 1 = n BY <1>1
  <2>2. Loop[n + 1] = RecvPacket(Loop[n], recv_queue[n + 1], sequence[p]) BY <1>2, <2>1
  <2>3. recv_queue[n + 1] \in wire[p] BY <1>1, <2>1
  <2>4. Loop[n] \in Good BY <1>4
  <2>5. Loop[n + 1] \in Good BY <2>2, <2>3, <2>4
  <2>6. QED BY <2>1, <2>5
<1>5. N \in Passed
  <2> HIDE DEF Passed
  <2>1. \A n \in 0 .. N : n \in Passed BY <1>1, <1>3, <1>4, UpTo
  <2>2. QED BY <1>1, <2>1
<1>6. QED BY <1>2, <1>5

-----------------------------------------------------------------------------
(* Acknowledgements *)

(* What a peer knows of its peer's packets: those it accepted were sent,   *)
(* and the newest of them is its incoming_sequence; a packet, or the       *)
(* connection, acknowledges only what the other side accepted.  The later  *)
(* a packet, the more it acknowledges.                                     *)
HeardOf(inc, acc, limit) == /\ inc = -1 \/ inc \in acc
                            /\ \A a \in acc : a <= inc /\ a < limit
Acks(ack, acc) == ack = -1 \/ ack \in acc
Told(packets, inc, ack) == \A k \in packets : k.sequence <= inc => k.ack_sequence <= ack
Grows(packets) ==
  \A k, l \in packets : k.sequence <= l.sequence => k.ack_sequence <= l.ack_sequence
Genuine(packets, limit, acc, inc) ==
  \A k \in packets : /\ k.sequence < limit /\ Acks(k.ack_sequence, acc)
                     /\ k.ack_sequence <= inc

AckOk(p, o) ==
  /\ HeardOf(incoming_sequence[p], accepted[p], sequence[o])
  /\ Acks(ack_sequence[p], accepted[o])
  /\ Genuine(wire[p], sequence[o], accepted[o], incoming_sequence[o])
  /\ Told(wire[p], incoming_sequence[p], ack_sequence[p])
  /\ Grows(wire[p])

AckInv == \A p \in Peers : AckOk(p, Other(p))

LEMMA RecvAcks ==
  ASSUME NEW s \in Reader, NEW packets \in SUBSET Packet, NEW k \in packets, NEW now \in Nat,
         NEW limit \in Nat, NEW acc, NEW inc,
         HeardOf(s.incoming_sequence, s.accepted, limit), Acks(s.ack_sequence, acc),
         Genuine(packets, limit, acc, inc), Grows(packets),
         Told(packets, s.incoming_sequence, s.ack_sequence)
  PROVE  LET to == RecvPacket(s, k, now)
         IN /\ to \in Reader
            /\ HeardOf(to.incoming_sequence, to.accepted, limit) /\ Acks(to.ack_sequence, acc)
            /\ Told(packets, to.incoming_sequence, to.ack_sequence)
            /\ s.accepted \subseteq to.accepted
            /\ s.incoming_sequence <= to.incoming_sequence
<1> DEFINE to == RecvPacket(s, k, now)
<1>1. /\ k \in Packet /\ k.sequence \in Nat /\ s.incoming_sequence \in Int
      /\ s.accepted \subseteq Nat
  BY DEF Packet, Reader
<1>2. CASE to = s BY <1>1, <1>2
<1>3. CASE ~(k.sequence <= s.incoming_sequence) /\ to = Accept(s, k, now)
  <2>1. /\ to \in Reader /\ to.incoming_sequence = k.sequence
        /\ to.ack_sequence = k.ack_sequence /\ to.accepted = s.accepted \cup {k.sequence}
    BY <1>1, <1>3, AcceptTyped
  <2>2. k.sequence < limit /\ Acks(k.ack_sequence, acc) BY DEF Genuine
  <2>3. \A a \in s.accepted : a <= k.sequence /\ a < limit
    BY <1>1, <1>3 DEF HeardOf
  <2>4. HeardOf(to.incoming_sequence, to.accepted, limit)
    BY <1>1, <2>1, <2>2, <2>3 DEF HeardOf
  <2>5. Told(packets, to.incoming_sequence, to.ack_sequence) BY <2>1 DEF Told, Grows
  <2>6. s.incoming_sequence <= to.incoming_sequence BY <1>1, <1>3, <2>1
  <2>7. QED BY <2>1, <2>2, <2>4, <2>5, <2>6
<1>4. QED BY <1>1, <1>2, <1>3, RecvTyped

LEMMA ReceivedTyped ==
  ASSUME Typed, AckInv, NEW p \in Peers, NEW recv_queue \in Arrivals(p)
  PROVE  LET s == Received(p, recv_queue)
         IN /\ s \in Reader
            /\ HeardOf(s.incoming_sequence, s.accepted, sequence[Other(p)])
            /\ Acks(s.ack_sequence, accepted[Other(p)])
            /\ Told(wire[p], s.incoming_sequence, s.ack_sequence)
            /\ accepted[p] \subseteq s.accepted
            /\ incoming_sequence[p] <= s.incoming_sequence
<1> DEFINE o == Other(p)
           Fine(s) == /\ HeardOf(s.incoming_sequence, s.accepted, sequence[o])
                      /\ Acks(s.ack_sequence, accepted[o])
                      /\ Told(wire[p], s.incoming_sequence, s.ack_sequence)
                      /\ accepted[p] \subseteq s.accepted
                      /\ incoming_sequence[p] <= s.incoming_sequence
           Good == {s \in Reader : Fine(s)}
<1>1. /\ sequence[p] \in Nat /\ sequence[o] \in Nat /\ wire[p] \in SUBSET Packet
      /\ incoming_sequence[p] \in Int
  BY PeersPaired DEF Typed, SenderTyped, ReaderTyped
<1>2. AckOk(p, o) BY DEF AckInv
<1>3. Start(p) \in Good BY <1>1, <1>2, StartTyped DEF Start, AckOk
<1>4. ASSUME NEW s \in Good, NEW k \in wire[p]
      PROVE  RecvPacket(s, k, sequence[p]) \in Good
  <2> DEFINE to == RecvPacket(s, k, sequence[p])
  <2>1. s \in Reader /\ Fine(s) OBVIOUS
  <2>2. /\ to \in Reader
        /\ HeardOf(to.incoming_sequence, to.accepted, sequence[o])
        /\ Acks(to.ack_sequence, accepted[o])
        /\ Told(wire[p], to.incoming_sequence, to.ack_sequence)
        /\ s.accepted \subseteq to.accepted
        /\ s.incoming_sequence <= to.incoming_sequence
    <3>1. Genuine(wire[p], sequence[o], accepted[o], incoming_sequence[o]) /\ Grows(wire[p])
      BY <1>2 DEF AckOk
    <3> HIDE DEF o
    <3>2. QED BY <1>1, <2>1, <3>1, RecvAcks
  <2>3. s.incoming_sequence \in Int /\ to.incoming_sequence \in Int BY <2>1, <2>2 DEF Reader
  <2> HIDE DEF to
  <2>4. QED BY <1>1, <2>1, <2>2, <2>3 DEF to
<1>5. Received(p, recv_queue) \in Good
  <2> HIDE DEF Good
  <2>1. QED BY <1>3, <1>4, ReceivedIn
<1>6. QED BY <1>5

-----------------------------------------------------------------------------
(* One frame of a peer *)

LEMMA GameTyped ==
  ASSUME SourceTyped, NEW p \in Peers, NEW gone, NEW changed \in SUBSET Ids,
         NEW to \in [changed -> Values], NEW new \in SUBSET Ids, Game(p, gone, to, new)
  PROVE  SourceTyped'
<1> DEFINE now == (alive[p] \ gone) \cup new
           data == [e \in Ids |-> CASE e \in new       -> Initial
                                    [] e \in DOMAIN to -> to[e]
                                    [] OTHER           -> component[p][e]]
<1>1. alive' = [alive EXCEPT ![p] = now] /\ now \in SUBSET Ids BY DEF Game, SourceTyped
<1>2. component' = [component EXCEPT ![p] = data] BY DEF Game
<1>3. data \in [Ids -> Nat \cup {Unset}]
  <2>1. \A e \in Ids : component[p][e] \in Nat \cup {Unset} BY DEF SourceTyped
  <2>2. Initial \in Nat /\ DOMAIN to = changed /\ \A e \in changed : to[e] \in Nat
    BY SizesAssumption
  <2>3. ASSUME NEW e \in Ids PROVE data[e] \in Nat \cup {Unset}
    <3>1. CASE e \in new BY <2>2, <3>1
    <3>2. CASE e \notin new /\ e \in DOMAIN to BY <2>2, <3>2
    <3>3. CASE e \notin new /\ e \notin DOMAIN to BY <2>1, <3>3
    <3>4. QED BY <3>1, <3>2, <3>3
  <2>4. data = [e \in Ids |-> data[e]] OBVIOUS
  <2> HIDE DEF data
  <2>5. QED BY <2>3, <2>4
<1> HIDE DEF now, data
<1>4. QED BY <1>1, <1>2, <1>3 DEF SourceTyped

(* A snapshot has data of living entities, for each name one value.        *)
OneValueEach(data) ==
  \A i, j \in 1 .. Len(data) : data[i].id = data[j].id => data[i].value = data[j].value

LEMMA SnapshotIs ==
  ASSUME SourceTyped', NEW p \in Peers
  PROVE  SnapshotData(p) \in Seq(Item) /\ OneValueEach(SnapshotData(p))
<1> DEFINE slots == entities'[p]
           invalid == {i \in EntitySlots : slots[i] \notin alive'[p]}
           n == Smallest({Slots, Room} \cup invalid)
           data == [k \in 1 .. n |-> [id |-> slots[k - 1], value |-> component'[p][slots[k - 1]]]]
<1>1. data = SnapshotData(p) BY DEF SnapshotData
<1>2. Slots \in Nat /\ Room \in Nat /\ EntitySlots = 0 .. Slots - 1
  BY SizesAssumption DEF EntitySlots
<1>3. n \in Nat /\ n <= Slots /\ \A j \in invalid : n <= j
  <2> DEFINE S == {Slots, Room} \cup invalid
  <2>1. S \in SUBSET Nat /\ S # {} BY <1>2
  <2>2. Slots \in S /\ \A j \in invalid : j \in S OBVIOUS
  <2> HIDE DEF S
  <2>3. Smallest(S) \in S /\ \A j \in S : Smallest(S) <= j BY <2>1, SmallestIn
  <2>4. QED BY <2>1, <2>2, <2>3 DEF S
<1>4. ASSUME NEW k \in 1 .. n PROVE slots[k - 1] \in Ids
  <2>1. k - 1 \in EntitySlots /\ ~(n <= k - 1)
    <3> HIDE DEF n
    <3>1. QED BY <1>2, <1>3
  <2>2. k - 1 \notin invalid BY <1>3, <2>1
  <2>3. slots[k - 1] \in alive'[p] BY <2>1, <2>2
  <2>4. QED BY <2>3 DEF SourceTyped
<1>5. \A k \in 1 .. n : /\ data[k].id = slots[k - 1]
                        /\ data[k].value = component'[p][slots[k - 1]]
                        /\ data[k] \in Item
  BY <1>4 DEF Item, SourceTyped
<1>6. data \in Seq(Item) /\ Len(data) = n
  <2>1. data = [k \in 1 .. n |-> data[k]] OBVIOUS
  <2> HIDE DEF data, n
  <2>2. data \in [1 .. n -> Item] BY <1>5, <2>1
  <2>3. QED BY <1>3, <2>2
<1> HIDE DEF data, n, slots
<1>7. OneValueEach(data) BY <1>5, <1>6 DEF OneValueEach
<1>8. QED BY <1>1, <1>6, <1>7

(* What a packet says of a snapshot: its entities, with their data unless  *)
(* ack has the same.                                                       *)
Tells(e, cur) ==
  /\ Len(e) = Len(cur)
  /\ \A n \in 1 .. Len(cur) : /\ e[n].id = cur[n].id
                              /\ e[n].diff => e[n].value = cur[n].value
LeavesOut(e, cur, ack) ==
  \A n \in 1 .. Len(cur) : ~e[n].diff => \E k \in 1 .. Len(ack) : ack[k] = cur[n]

LEMMA AddTyped ==
  ASSUME NEW cur \in Seq(Item), NEW ack \in Seq(Item)
  PROVE  LET e == AddEntities(cur, ack)
         IN e \in Seq(Diff) /\ Tells(e, cur) /\ LeavesOut(e, cur, ack)
<1> DEFINE N == Len(cur)
           e == AddEntities(cur, ack)
<1>1. /\ N \in Nat /\ \A n \in 1 .. N : cur[n] \in Item
      /\ Len(ack) \in Nat /\ \A k \in 1 .. Len(ack) : ack[k] \in Item
  OBVIOUS
<1>2. PICK Seen : Walks(Seen, cur, ack) BY <1>1, AddLoop
<1> DEFINE Differs(n) == ~(Same(cur, ack, n, Seen[n]) /\ ack[Seen[n]].value = cur[n].value)
<1>3. e = [n \in 1 .. N |-> [id |-> cur[n].id, diff |-> Differs(n),
                             value |-> IF Differs(n) THEN cur[n].value ELSE Unset]]
  BY <1>2 DEF Walks
<1>4. \A n \in 1 .. N : Differs(n) \in BOOLEAN OBVIOUS
<1>5. \A n \in 0 .. N : Seen[n + 1] \in Nat \ {0}
  <2> DEFINE Good == {n \in 0 .. N : Seen[n + 1] \in Nat \ {0}}
  <2>1. 0 \in Good BY <1>1, <1>2 DEF Walks
  <2>2. ASSUME NEW n \in 0 .. N - 1, n \in Good PROVE n + 1 \in Good
    <3>1. n + 1 \in 1 .. N /\ Seen[n + 1] \in Nat \ {0} BY <1>1, <2>2
    <3>2. \/ Seen[(n + 1) + 1] = Seen[n + 1] + 1
          \/ Seen[(n + 1) + 1] = Seen[n + 1]
      BY <1>2, <3>1 DEF Walks
    <3>3. QED BY <1>1, <3>1, <3>2
  <2> HIDE DEF Good
  <2>3. \A n \in 0 .. N : n \in Good BY <1>1, <2>1, <2>2, UpTo
  <2>4. QED BY <2>3 DEF Good
<1>6. ASSUME NEW n \in 1 .. N, ~Differs(n)
      PROVE  \E k \in 1 .. Len(ack) : ack[k] = cur[n]
  <2> DEFINE k == Seen[n]
  <2>1. n - 1 \in 0 .. N /\ (n - 1) + 1 = n BY <1>1
  <2>2. k \in Nat \ {0} BY <1>5, <2>1
  <2>3. k <= Len(ack) /\ ack[k].id = cur[n].id /\ ack[k].value = cur[n].value
    BY <1>6 DEF Same
  <2> HIDE DEF k
  <2>4. k \in 1 .. Len(ack) BY <1>1, <2>2, <2>3
  <2>5. ack[k] \in Item /\ cur[n] \in Item BY <1>1, <2>4
  <2>6. ack[k] = cur[n] BY <2>3, <2>5 DEF Item
  <2>7. QED BY <2>4, <2>6
<1> HIDE DEF Differs, e
<1>7. \A n \in 1 .. N : /\ e[n] \in Diff /\ e[n].id = cur[n].id
                        /\ e[n].diff => e[n].value = cur[n].value
                        /\ e[n].diff = Differs(n)
  BY <1>1, <1>3, <1>4 DEF Diff, Item
<1>8. e \in Seq(Diff) /\ Len(e) = N
  <2>1. e \in [1 .. N -> Diff] BY <1>3, <1>7
  <2>2. QED BY <1>1, <2>1
<1>9. Tells(e, cur) BY <1>7, <1>8 DEF Tells
<1>10. LeavesOut(e, cur, ack) BY <1>6, <1>7 DEF LeavesOut
<1>11. QED BY <1>8, <1>9, <1>10 DEF e

(* The snapshot acknowledged is one of the ring, with this update's in it. *)
LEMMA RingTyped ==
  ASSUME Typed, SourceTyped', NEW p \in Peers
  PROVE  SnapshotEntities(p) \in [0 .. Ring - 1 -> [sequence : Nat, data : Seq(Item)]]
<1> DEFINE data == SnapshotData(p)
           taken == [sequence |-> sequence[p], data |-> data]
           i == sequence[p] % Ring
<1>1. SnapshotEntities(p) = [snapshots[p] EXCEPT ![i] = taken] BY DEF SnapshotEntities
<1>2. taken \in [sequence : Nat, data : Seq(Item)]
  <2>1. data \in Seq(Item) BY SnapshotIs
  <2> HIDE DEF data
  <2>2. QED BY <2>1 DEF Typed, SenderTyped
<1>3. snapshots[p] \in [0 .. Ring - 1 -> [sequence : Nat, data : Seq(Item)]]
  BY DEF Typed, SenderTyped
<1> HIDE DEF taken, i
<1>4. QED BY <1>1, <1>2, <1>3

LEMMA AckedTyped ==
  ASSUME Typed, SourceTyped', NEW p \in Peers
  PROVE  AckedData(p) \in Seq(Item)
<1> DEFINE ack == ack_sequence[p]
           place == SnapshotEntities(p)[ack % Ring]
<1>1. CASE ack # -1 /\ place.sequence = ack
  <2>1. ack \in Nat BY <1>1 DEF Typed, ReaderTyped
  <2>2. ack % Ring \in 0 .. Ring - 1 BY <2>1, SizesAssumption
  <2>3. place \in [sequence : Nat, data : Seq(Item)] BY <2>2, RingTyped
  <2>4. AckedData(p) = place.data BY <1>1 DEF AckedData
  <2>5. QED BY <2>3, <2>4
<1>2. CASE ~(ack # -1 /\ place.sequence = ack)
  <2>1. AckedData(p) = <<>> BY <1>2 DEF AckedData
  <2>2. QED BY <2>1
<1>3. QED BY <1>1, <1>2

PacketOf(p) == [sequence |-> sequence[p], ack_sequence |-> incoming_sequence[p],
                entities |-> AddEntities(SnapshotData(p), AckedData(p))]

LEMMA PacketTyped ==
  ASSUME Typed, SourceTyped', NEW p \in Peers
  PROVE  PacketOf(p) \in Packet
<1>1. AddEntities(SnapshotData(p), AckedData(p)) \in Seq(Diff)
  BY SnapshotIs, AckedTyped, AddTyped
<1>2. sequence[p] \in Nat /\ incoming_sequence[p] \in Nat \cup {-1}
  BY DEF Typed, SenderTyped, ReaderTyped
<1>3. QED BY <1>1, <1>2 DEF PacketOf, Packet

(* What a frame changes. *)
Moved(p, s) ==
  /\ snapshots' = [snapshots EXCEPT ![p] = SnapshotEntities(p)]
  /\ wire' = [wire EXCEPT ![Other(p)] = @ \cup {PacketOf(p)}]
  /\ sequence' = [sequence EXCEPT ![p] = @ + 1]
  /\ sent' = [sent EXCEPT ![p] = Append(@, SnapshotData(p))]
  /\ replicas' = [replicas EXCEPT ![p] = s.replicas]
  /\ incoming_sequence' = [incoming_sequence EXCEPT ![p] = s.incoming_sequence]
  /\ ack_sequence' = [ack_sequence EXCEPT ![p] = s.ack_sequence]
  /\ accepted' = [accepted EXCEPT ![p] = s.accepted]
  /\ IF s.batch = {} THEN UNCHANGED <<batch, previous, orphans>>
     ELSE /\ batch' = [batch EXCEPT ![p] = s.batch]
          /\ previous' = [previous EXCEPT ![p] = batch[p]]
          /\ orphans' = [orphans EXCEPT ![p] = s.orphans]

LEMMA FrameMoves ==
  ASSUME NEW p \in Peers, NEW recv_queue \in Arrivals(p), Frame(p, recv_queue)
  PROVE  Moved(p, Received(p, recv_queue))
BY DEF Frame, Update, PacketSend, PacketRecv, Moved, PacketOf

LEMMA FrameSource ==
  ASSUME SourceTyped, NEW p \in Peers, NEW recv_queue, Frame(p, recv_queue)
  PROVE  SourceTyped'
<1>1. PICK gone \in SUBSET alive[p], new \in SUBSET (Ids \ alive[p]) :
        \E changed \in SUBSET (alive[p] \ gone) :
          \E to \in [changed -> Values] : Game(p, gone, to, new)
  BY DEF Frame
<1>2. PICK changed \in SUBSET (alive[p] \ gone) :
        \E to \in [changed -> Values] : Game(p, gone, to, new)
  BY <1>1
<1>3. PICK to \in [changed -> Values] : Game(p, gone, to, new) BY <1>2
<1>4. new \in SUBSET Ids /\ changed \in SUBSET Ids BY DEF SourceTyped
<1>5. QED BY <1>3, <1>4, GameTyped

LEMMA FrameTyped ==
  ASSUME Typed, AckInv, NEW p \in Peers, NEW recv_queue \in Arrivals(p),
         Frame(p, recv_queue)
  PROVE  Typed'
<1> DEFINE s == Received(p, recv_queue)
<1>1. SourceTyped' BY FrameSource DEF Typed
<1>2. Moved(p, s) BY FrameMoves
<1>3. s \in Reader BY ReceivedTyped
<1>4. Other(p) \in Peers BY PeersPaired
<1>5. ReaderTyped'
  <2> HIDE DEF s
  <2>1. /\ s.replicas \in [RefSlots -> Replica] /\ s.orphans \in SUBSET Ids
        /\ s.batch \in SUBSET Nat /\ s.incoming_sequence \in Nat \cup {-1}
        /\ s.ack_sequence \in Nat \cup {-1} /\ s.accepted \in SUBSET Nat
    BY <1>3 DEF Reader
  <2>2. /\ replicas' \in [Peers -> [RefSlots -> Replica]]
        /\ incoming_sequence' \in [Peers -> Nat \cup {-1}]
        /\ ack_sequence' \in [Peers -> Nat \cup {-1}]
        /\ accepted' \in [Peers -> SUBSET Nat]
    BY <1>2, <2>1 DEF Moved, Typed, ReaderTyped
  <2>3. CASE s.batch = {} BY <1>2, <2>2, <2>3 DEF Moved, Typed, ReaderTyped
  <2>4. CASE s.batch # {}
    <3>1. /\ batch' = [batch EXCEPT ![p] = s.batch]
          /\ previous' = [previous EXCEPT ![p] = batch[p]]
          /\ orphans' = [orphans EXCEPT ![p] = s.orphans]
      BY <1>2, <2>4 DEF Moved
    <3>2. QED BY <2>1, <2>2, <3>1 DEF Typed, ReaderTyped
  <2>5. QED BY <2>3, <2>4
<1>6. SenderTyped'
  <2>1. sequence' \in [Peers -> Nat] BY <1>2 DEF Moved, Typed, SenderTyped
  <2>2. wire' \in [Peers -> SUBSET Packet]
    BY <1>1, <1>2, <1>4, PacketTyped DEF Moved, Typed, SenderTyped
  <2> DEFINE data == SnapshotData(p)
  <2>3. data \in Seq(Item) BY <1>1, SnapshotIs
  <2>4. sent' \in [Peers -> Seq(Seq(Item))]
    <3>1. sent' = [sent EXCEPT ![p] = Append(@, data)] BY <1>2 DEF Moved
    <3> HIDE DEF data
    <3>2. Append(sent[p], data) \in Seq(Seq(Item)) BY <2>3 DEF Typed, SenderTyped
    <3>3. QED BY <3>1, <3>2 DEF Typed, SenderTyped
  <2>5. snapshots' \in [Peers -> [0 .. Ring - 1 -> [sequence : Nat, data : Seq(Item)]]]
    BY <1>1, <1>2, RingTyped DEF Moved, Typed, SenderTyped
  <2>6. QED BY <2>1, <2>2, <2>4, <2>5 DEF SenderTyped
<1>7. QED BY <1>1, <1>5, <1>6 DEF Typed

(* The values of both peers after a frame of one of them. *)
Between(p, o, s) ==
  /\ incoming_sequence'[p] = s.incoming_sequence
  /\ incoming_sequence'[o] = incoming_sequence[o]
  /\ ack_sequence'[p] = s.ack_sequence /\ ack_sequence'[o] = ack_sequence[o]
  /\ accepted'[p] = s.accepted /\ accepted'[o] = accepted[o]
  /\ sequence'[p] = sequence[p] + 1 /\ sequence'[o] = sequence[o]
  /\ wire'[p] = wire[p] /\ wire'[o] = wire[o] \cup {PacketOf(p)}

LEMMA FrameBoth ==
  ASSUME Typed, NEW p \in Peers, NEW s, Moved(p, s)
  PROVE  Between(p, Other(p), s)
<1> DEFINE o == Other(p)
<1>1. o \in Peers /\ o # p BY PeersPaired
<1>2. /\ incoming_sequence' = [incoming_sequence EXCEPT ![p] = s.incoming_sequence]
      /\ ack_sequence' = [ack_sequence EXCEPT ![p] = s.ack_sequence]
      /\ accepted' = [accepted EXCEPT ![p] = s.accepted]
      /\ sequence' = [sequence EXCEPT ![p] = @ + 1]
      /\ wire' = [wire EXCEPT ![o] = @ \cup {PacketOf(p)}]
  BY DEF Moved
<1> HIDE DEF o
<1>3. QED BY <1>1, <1>2 DEF Between, Typed, SenderTyped, ReaderTyped, o

LEMMA FrameAcks ==
  ASSUME Typed, AckInv, NEW p \in Peers, NEW recv_queue \in Arrivals(p),
         Frame(p, recv_queue)
  PROVE  AckInv'
<1> DEFINE o == Other(p)
           s == Received(p, recv_queue)
           k == PacketOf(p)
<1>1. Between(p, o, s) BY FrameMoves, FrameBoth
<1>2. /\ HeardOf(s.incoming_sequence, s.accepted, sequence[o])
      /\ Acks(s.ack_sequence, accepted[o])
      /\ Told(wire[p], s.incoming_sequence, s.ack_sequence)
      /\ accepted[p] \subseteq s.accepted /\ s \in Reader
      /\ incoming_sequence[p] <= s.incoming_sequence
  BY ReceivedTyped
<1>3. /\ o \in Peers /\ o # p /\ Other(o) = p /\ Other(p) = o
      /\ \A q \in Peers : q = p \/ q = o
  BY PeersPaired
<1>4. AckOk(p, o) /\ AckOk(o, p) BY <1>3 DEF AckInv
<1> HIDE DEF o, s
<1>5. /\ sequence[p] \in Nat /\ \A l \in wire[o] : l \in Packet
      /\ incoming_sequence[p] \in Int /\ s.incoming_sequence \in Int
      /\ incoming_sequence[o] \in Int /\ accepted[o] \subseteq Nat
  BY <1>2, <1>3 DEF Typed, SenderTyped, ReaderTyped, Reader
<1>6. k.sequence = sequence[p] /\ k.ack_sequence = incoming_sequence[p]
  BY DEF PacketOf
<1>7. \A l \in wire[o] : l.sequence \in Nat /\ l.ack_sequence \in Int BY <1>5 DEF Packet
<1>8. AckOk(p, o)'
  <2>1. Genuine(wire[p], sequence[o], accepted[o], incoming_sequence[o]) BY <1>4 DEF AckOk
  <2>2. QED BY <1>1, <1>2, <1>4, <2>1 DEF Between, AckOk
<1>9. AckOk(o, p)'
  <2>1. /\ HeardOf(incoming_sequence[o], accepted[o], sequence[p])
        /\ Acks(ack_sequence[o], accepted[p])
        /\ Genuine(wire[o], sequence[p], accepted[p], incoming_sequence[p])
        /\ Told(wire[o], incoming_sequence[o], ack_sequence[o])
        /\ Grows(wire[o])
    BY <1>4 DEF AckOk
  <2>2. HeardOf(incoming_sequence[o], accepted[o], sequence[p] + 1)
    BY <1>5, <2>1 DEF HeardOf
  <2>3. Acks(ack_sequence[o], s.accepted) BY <1>2, <2>1 DEF Acks
  <2>4. Acks(incoming_sequence[p], accepted[p]) BY <1>4 DEF AckOk, HeardOf, Acks
  <2>5. Genuine(wire[o] \cup {k}, sequence[p] + 1, s.accepted, s.incoming_sequence)
    <3> SUFFICES ASSUME NEW l \in wire[o] \cup {k}
                 PROVE  /\ l.sequence < sequence[p] + 1 /\ Acks(l.ack_sequence, s.accepted)
                        /\ l.ack_sequence <= s.incoming_sequence
      BY DEF Genuine
    <3>1. CASE l \in wire[o] BY <1>2, <1>5, <1>7, <2>1, <3>1 DEF Genuine, Acks
    <3>2. CASE l = k BY <1>2, <1>5, <1>6, <2>4, <3>2 DEF Acks
    <3>3. QED BY <3>1, <3>2
  <2>6. Told(wire[o] \cup {k}, incoming_sequence[o], ack_sequence[o])
    <3>1. incoming_sequence[o] < sequence[p] BY <1>5, <2>1 DEF HeardOf
    <3>2. ~(k.sequence <= incoming_sequence[o]) BY <1>5, <1>6, <3>1
    <3>3. QED BY <2>1, <3>2 DEF Told
  <2>7. Grows(wire[o] \cup {k})
    <3>1. \A l \in wire[o] : /\ ~(k.sequence <= l.sequence)
                             /\ l.ack_sequence <= k.ack_sequence
      BY <1>5, <1>6, <1>7, <2>1 DEF Genuine
    <3>2. k.ack_sequence <= k.ack_sequence BY <1>5, <1>6
    <3>3. QED BY <2>1, <3>1, <3>2 DEF Grows
  <2>8. QED BY <1>1, <2>2, <2>3, <2>5, <2>6, <2>7 DEF Between, AckOk
<1>10. QED BY <1>3, <1>8, <1>9 DEF AckInv

LEMMA InitAcks == Init => Typed /\ AckInv
<1> SUFFICES ASSUME Init PROVE Typed /\ AckInv OBVIOUS
<1>1. SourceTyped BY DEF Init, SourceTyped
<1>2. SenderTyped BY DEF Init, SenderTyped
<1>3. FreeReplica \in Replica BY DEF FreeReplica, Replica
<1>4. ReaderTyped BY <1>3 DEF Init, ReaderTyped
<1>5. \A p \in Peers : Other(p) \in Peers BY PeersPaired
<1>6. AckInv
  BY <1>5 DEF Init, AckInv, AckOk, HeardOf, Acks, Told, Genuine, Grows
<1>7. QED BY <1>1, <1>2, <1>4, <1>6 DEF Typed

LEMMA NextAcks == Typed /\ AckInv /\ [Next]_vars => (Typed /\ AckInv)'
<1> SUFFICES ASSUME Typed, AckInv, [Next]_vars PROVE (Typed /\ AckInv)' OBVIOUS
<1>1. CASE Next BY <1>1, FrameTyped, FrameAcks DEF Next
<1>2. CASE UNCHANGED vars
  BY <1>2 DEF vars, source, headers, history, Typed, SourceTyped, SenderTyped, ReaderTyped,
              AckInv, AckOk
<1>3. QED BY <1>1, <1>2

LEMMA AcksHold == Spec => [](Typed /\ AckInv)
BY InitAcks, NextAcks, PTL DEF Spec

(* Whatever the network loses, repeats, delays or reorders, and for tables *)
(* and queues of any size: a connection takes for acknowledged only what   *)
(* the other peer accepted, and no packet it accepted says less than it    *)
(* has been told.  (net.c:611-618)                                         *)
THEOREM AcksAreTrue == Spec => []AckedWasAccepted
<1>1. Typed /\ AckInv => AckedWasAccepted
  <2> SUFFICES ASSUME Typed, AckInv, NEW p \in Peers
               PROVE  /\ ack_sequence[p] # -1 => ack_sequence[p] \in accepted[Other(p)]
                      /\ \A packet \in wire[p] : packet.sequence \in accepted[p] =>
                           packet.ack_sequence <= ack_sequence[p]
    BY DEF AckedWasAccepted
  <2>1. AckOk(p, Other(p)) BY DEF AckInv
  <2>2. QED BY <2>1 DEF AckOk, Acks, HeardOf, Told
<1>2. QED BY <1>1, AcksHold, PTL

-----------------------------------------------------------------------------
(* What a peer has sent.  S is the sequence of its snapshots; the one with *)
(* sequence number b is S[b + 1].                                          *)

Carries(S, b, id, value) ==
  \E k \in DOMAIN S[b + 1] : S[b + 1][k] = [id |-> id, value |-> value]
Names(S, b, id) == \E k \in DOMAIN S[b + 1] : S[b + 1][k].id = id
Named(S, B, id) == \E b \in B : Names(S, b, id)

(* A snapshot found in the ring under its own number is the one sent.      *)
SentOk(p) ==
  /\ Len(sent[p]) = sequence[p]
  /\ \A b \in 1 .. sequence[p] : OneValueEach(sent[p][b])
  /\ \A a \in Nat : a < sequence[p] /\ snapshots[p][a % Ring].sequence = a =>
       snapshots[p][a % Ring].data = sent[p][a + 1]

(* A packet leaves out only what a snapshot accepted has carried.          *)
Backed(e, S, b, acc) ==
  \A n \in 1 .. Len(e) : ~e[n].diff =>
    \E a \in acc : Carries(S, a, S[b + 1][n].id, S[b + 1][n].value)
WireOk(p, S) ==
  \A k \in wire[p] : /\ Tells(k.entities, S[k.sequence + 1])
                     /\ Backed(k.entities, S, k.sequence, accepted[p])

SentInv == \A p \in Peers : SentOk(p) /\ WireOk(p, sent[Other(p)])

(* One more snapshot leaves those before it as they were. *)
Extends(S, T) == /\ Len(T) >= Len(S)
                 /\ \A b \in Nat : b < Len(S) => T[b + 1] = S[b + 1]

LEMMA Appended ==
  ASSUME NEW S \in Seq(Seq(Item)), NEW data \in Seq(Item)
  PROVE  /\ Append(S, data) \in Seq(Seq(Item)) /\ Len(Append(S, data)) = Len(S) + 1
         /\ Append(S, data)[Len(S) + 1] = data
         /\ Extends(S, Append(S, data))
<1> DEFINE T == Append(S, data)
<1>1. T \in Seq(Seq(Item)) /\ Len(T) = Len(S) + 1 /\ T[Len(S) + 1] = data
      /\ \A i \in 1 .. Len(S) : T[i] = S[i]
  OBVIOUS
<1>2. Len(S) \in Nat OBVIOUS
<1>3. ASSUME NEW b \in Nat, b < Len(S) PROVE b + 1 \in 1 .. Len(S)
  <2> DEFINE l == Len(S)
  <2>1. l \in Nat /\ b < l BY <1>2, <1>3
  <2> HIDE DEF l
  <2>2. b + 1 \in 1 .. l BY <2>1
  <2>3. QED BY <2>2 DEF l
<1> HIDE DEF T
<1>4. Extends(S, T) BY <1>1, <1>2, <1>3 DEF Extends
<1>5. QED BY <1>1, <1>4 DEF T

LEMMA SentStays ==
  ASSUME NEW S \in Seq(Seq(Item)), NEW T \in Seq(Seq(Item)), Extends(S, T),
         NEW b \in Nat, b < Len(S)
  PROVE  /\ T[b + 1] = S[b + 1]
         /\ \A id, value : Carries(T, b, id, value) <=> Carries(S, b, id, value)
         /\ \A id : Names(T, b, id) <=> Names(S, b, id)
<1>1. T[b + 1] = S[b + 1] BY DEF Extends
<1>2. QED BY <1>1 DEF Carries, Names

(* A frame's snapshot and packet. *)
LEMMA FrameSends ==
  ASSUME Typed, AckInv, SentInv, SourceTyped', NEW p \in Peers, NEW s, Moved(p, s)
  PROVE  /\ SentOk(p)'
         /\ sent'[p] \in Seq(Seq(Item)) /\ Extends(sent[p], sent'[p])
         /\ Tells(PacketOf(p).entities, sent'[p][sequence[p] + 1])
         /\ Backed(PacketOf(p).entities, sent'[p], sequence[p], accepted[Other(p)])
<1> DEFINE S == sent[p]
           T == sent'[p]
           data == SnapshotData(p)
           now == sequence[p]
           o == Other(p)
           ring == SnapshotEntities(p)
           taken == [sequence |-> now, data |-> data]
<1>1. /\ now \in Nat /\ S \in Seq(Seq(Item)) /\ data \in Seq(Item) /\ OneValueEach(data)
      /\ snapshots[p] \in [0 .. Ring - 1 -> [sequence : Nat, data : Seq(Item)]]
  BY SnapshotIs DEF Typed, SenderTyped
<1>2. /\ Len(S) = now /\ \A b \in 1 .. now : OneValueEach(S[b])
      /\ \A a \in Nat : a < now /\ snapshots[p][a % Ring].sequence = a =>
           snapshots[p][a % Ring].data = S[a + 1]
  BY DEF SentInv, SentOk
<1>3. T = Append(S, data) /\ sequence'[p] = now + 1 /\ snapshots'[p] = ring
  BY DEF Moved, Typed, SenderTyped
<1>4. ring = [snapshots[p] EXCEPT ![now % Ring] = taken] BY DEF SnapshotEntities
<1> HIDE DEF S, T, data, ring, taken
<1>5. /\ T \in Seq(Seq(Item)) /\ Len(T) = now + 1 /\ T[now + 1] = data /\ Extends(S, T)
      /\ \A a \in Nat : a < now => T[a + 1] = S[a + 1]
  BY <1>1, <1>2, <1>3, Appended DEF Extends
<1>6. ASSUME NEW a \in Nat, a < now + 1, ring[a % Ring].sequence = a
      PROVE  ring[a % Ring].data = T[a + 1]
  <2>1. Ring \in Nat \ {0} BY SizesAssumption
  <2>2. a % Ring \in 0 .. Ring - 1 /\ now % Ring \in 0 .. Ring - 1 BY <1>1, <2>1
  <2> DEFINE i == a % Ring
             j == now % Ring
  <2>3. i \in 0 .. Ring - 1 /\ j \in 0 .. Ring - 1 /\ (a = now => i = j) BY <2>2
  <2>4. ring[i] = IF i = j THEN taken ELSE snapshots[p][i]
    <3>1. ring = [snapshots[p] EXCEPT ![j] = taken] BY <1>4
    <3> HIDE DEF i, j
    <3>2. QED BY <1>1, <2>3, <3>1
  <2>5. CASE i = j
    <3>1. ring[i] = taken BY <2>4, <2>5
    <3>2. a = now BY <1>6, <3>1 DEF taken
    <3>3. QED BY <1>5, <3>1, <3>2 DEF taken
  <2>6. CASE i # j
    <3>1. ring[i] = snapshots[p][i] BY <2>4, <2>6
    <3>2. a # now BY <2>6
    <3> HIDE DEF i, j
    <3>3. a < now BY <1>1, <1>6, <3>2
    <3> USE DEF i, j
    <3>4. snapshots[p][a % Ring].sequence = a BY <1>6, <3>1
    <3>5. snapshots[p][a % Ring].data = S[a + 1] BY <1>2, <3>3, <3>4
    <3>6. T[a + 1] = S[a + 1] BY <1>5, <3>3
    <3>7. QED BY <3>1, <3>5, <3>6
  <2>7. QED BY <2>5, <2>6
<1>7. \A b \in 1 .. now + 1 : OneValueEach(T[b])
  <2> TAKE b \in 1 .. now + 1
  <2>1. CASE b = now + 1 BY <1>1, <1>5, <2>1
  <2>2. CASE b \in 1 .. now
    <3>1. b - 1 \in Nat /\ b - 1 < now /\ (b - 1) + 1 = b BY <1>1, <2>2
    <3>2. T[b] = S[b] BY <1>5, <3>1
    <3>3. QED BY <1>2, <2>2, <3>2
  <2>3. QED BY <1>1, <2>1, <2>2
<1>8. SentOk(p)'
  <2>1. \A a \in Nat : a < now + 1 /\ ring[a % Ring].sequence = a =>
          ring[a % Ring].data = T[a + 1]
    BY <1>6
  <2>2. QED BY <1>3, <1>5, <1>7, <2>1 DEF SentOk, T
<1> DEFINE ack == AckedData(p)
           e == AddEntities(data, ack)
<1>9. PacketOf(p).entities = e BY DEF PacketOf, data
<1>10. ack \in Seq(Item) BY AckedTyped
<1>11. Tells(e, data) /\ LeavesOut(e, data, ack) /\ e \in Seq(Diff) BY <1>1, <1>10, AddTyped
<1>12. Len(ack) # 0 => ack_sequence[p] \in accepted[o] /\ ack = S[ack_sequence[p] + 1]
                      /\ ack_sequence[p] \in Nat /\ ack_sequence[p] < now
  <2> SUFFICES ASSUME Len(ack) # 0
               PROVE  /\ ack_sequence[p] \in accepted[o] /\ ack = S[ack_sequence[p] + 1]
                      /\ ack_sequence[p] \in Nat /\ ack_sequence[p] < now
    OBVIOUS
  <2> DEFINE a == ack_sequence[p]
  <2>1. a # -1 /\ ring[a % Ring].sequence = a /\ ack = ring[a % Ring].data
    BY DEF AckedData, ring
  <2>2. AckOk(p, o) /\ AckOk(o, p) BY PeersPaired DEF AckInv
  <2>3. a \in accepted[o] BY <2>1, <2>2 DEF AckOk, Acks
  <2>4. a < now BY <2>2, <2>3 DEF AckOk, HeardOf
  <2>5. a \in Nat BY <2>3, PeersPaired DEF Typed, ReaderTyped
  <2>6. a < now + 1
    <3> HIDE DEF a
    <3>1. QED BY <1>1, <2>4, <2>5
  <2>7. ack = T[a + 1] BY <1>6, <2>1, <2>5, <2>6
  <2>8. QED BY <1>5, <2>3, <2>4, <2>5, <2>7
<1>13. ASSUME NEW n \in 1 .. Len(e), ~e[n].diff
       PROVE  \E a \in accepted[o] : Carries(T, a, data[n].id, data[n].value)
  <2>1. n \in 1 .. Len(data) BY <1>11 DEF Tells
  <2>2. PICK k \in 1 .. Len(ack) : ack[k] = data[n] BY <1>11, <1>13, <2>1 DEF LeavesOut
  <2> DEFINE a == ack_sequence[p]
  <2>3. a \in accepted[o] /\ a \in Nat /\ a < now /\ ack = S[a + 1]
    <3>1. Len(ack) \in Nat BY <1>10
    <3>2. Len(ack) # 0 BY <2>2, <3>1
    <3>3. QED BY <1>12, <3>2
  <2>4. T[a + 1] = ack BY <1>5, <2>3
  <2>5. DOMAIN ack = 1 .. Len(ack) BY <1>10
  <2>6. data[n] = [id |-> data[n].id, value |-> data[n].value]
    <3>1. data[n] \in Item BY <1>1, <2>1
    <3>2. QED BY <3>1 DEF Item
  <2>7. Carries(T, a, data[n].id, data[n].value)
    <3> HIDE DEF a, ack
    <3>1. k \in DOMAIN T[a + 1] /\ T[a + 1][k] = data[n] BY <2>2, <2>4, <2>5
    <3>2. QED BY <2>6, <3>1 DEF Carries
  <2>8. QED BY <2>3, <2>7
<1>14. Backed(e, T, now, accepted[o])
  <2> HIDE DEF e, ack
  <2>1. QED BY <1>5, <1>13 DEF Backed
<1>15. QED BY <1>5, <1>8, <1>9, <1>11, <1>14 DEF T, S


LEMMA FrameSent ==
  ASSUME Typed, AckInv, SentInv, NEW p \in Peers, NEW recv_queue \in Arrivals(p),
         Frame(p, recv_queue)
  PROVE  /\ SentInv'
         /\ sent'[p] \in Seq(Seq(Item)) /\ Extends(sent[p], sent'[p])
         /\ sent'[Other(p)] = sent[Other(p)]
<1> DEFINE o == Other(p)
           s == Received(p, recv_queue)
           k == PacketOf(p)
<1>1. SourceTyped' BY FrameSource DEF Typed
<1>2. Moved(p, s) BY FrameMoves
<1>3. Between(p, o, s) BY <1>2, FrameBoth
<1>4. /\ o \in Peers /\ o # p /\ Other(o) = p /\ Other(p) = o
      /\ \A q \in Peers : q = p \/ q = o
  BY PeersPaired
<1>5. accepted[p] \subseteq s.accepted BY ReceivedTyped
<1>6. /\ SentOk(p)'
      /\ sent'[p] \in Seq(Seq(Item)) /\ Extends(sent[p], sent'[p])
      /\ Tells(k.entities, sent'[p][k.sequence + 1])
      /\ Backed(k.entities, sent'[p], k.sequence, accepted[o])
  <2>1. k.sequence = sequence[p] BY DEF PacketOf
  <2>2. QED BY <1>1, <1>2, <2>1, FrameSends
<1>7. sent'[o] = sent[o] /\ snapshots'[o] = snapshots[o] /\ sequence'[o] = sequence[o]
  BY <1>2, <1>3, <1>4 DEF Moved, Between, Typed, SenderTyped
<1>8. SentOk(o) /\ WireOk(p, sent[o]) /\ WireOk(o, sent[p])
  BY <1>4 DEF SentInv
<1>9. SentOk(o)' BY <1>7, <1>8 DEF SentOk
<1>10. WireOk(p, sent[o])'
  <2>1. wire'[p] = wire[p] /\ accepted'[p] = s.accepted BY <1>3 DEF Between
  <2>2. QED BY <1>5, <1>7, <1>8, <2>1 DEF WireOk, Backed
<1>11. WireOk(o, sent[p])'
  <2> DEFINE S == sent[p]
             T == sent'[p]
  <2>1. wire'[o] = wire[o] \cup {k} /\ accepted'[o] = accepted[o] BY <1>3 DEF Between
  <2>2. S \in Seq(Seq(Item)) /\ Len(S) = sequence[p] /\ accepted[o] \subseteq Nat
    BY <1>4 DEF Typed, SenderTyped, ReaderTyped, SentInv, SentOk
  <2>3. AckOk(o, p) BY <1>4 DEF AckInv
  <2> HIDE DEF S, T
  <2>4. ASSUME NEW l \in wire[o]
        PROVE  Tells(l.entities, T[l.sequence + 1]) /\ Backed(l.entities, T, l.sequence, accepted[o])
    <3>1. l \in Packet BY <1>4 DEF Typed, SenderTyped
    <3>2. l.sequence \in Nat /\ l.sequence < Len(S)
      BY <2>2, <2>3, <3>1 DEF AckOk, Genuine, Packet
    <3>3. T[l.sequence + 1] = S[l.sequence + 1] BY <1>6, <3>2 DEF Extends, S, T
    <3>4. Tells(l.entities, S[l.sequence + 1]) /\ Backed(l.entities, S, l.sequence, accepted[o])
      BY <1>8 DEF WireOk, S
    <3>5. \A a \in accepted[o] : a \in Nat /\ a < Len(S)
      BY <2>2, <2>3 DEF AckOk, HeardOf
    <3>6. \A a \in accepted[o] : \A id, value : Carries(S, a, id, value) => Carries(T, a, id, value)
      <4> SUFFICES ASSUME NEW a \in accepted[o], NEW id, NEW value, Carries(S, a, id, value)
                   PROVE  Carries(T, a, id, value)
        OBVIOUS
      <4>1. T[a + 1] = S[a + 1] BY <1>6, <3>5 DEF Extends, S, T
      <4>2. QED BY <4>1 DEF Carries
    <3>7. QED BY <3>3, <3>4, <3>6 DEF Backed
  <2>5. QED BY <1>6, <2>1, <2>4 DEF WireOk, T
<1>12. QED BY <1>4, <1>6, <1>7, <1>9, <1>10, <1>11 DEF SentInv

LEMMA InitSent == Init => SentInv
BY PeersPaired DEF Init, SentInv, SentOk, WireOk, Tells, Backed

LEMMA NextSent == Typed /\ AckInv /\ SentInv /\ [Next]_vars => SentInv'
<1> SUFFICES ASSUME Typed, AckInv, SentInv, [Next]_vars PROVE SentInv' OBVIOUS
<1>1. CASE Next BY <1>1, FrameSent DEF Next
<1>2. CASE UNCHANGED vars
  BY <1>2 DEF vars, source, headers, history, SentInv, SentOk, WireOk, Backed
<1>3. QED BY <1>1, <1>2

-----------------------------------------------------------------------------
(* Reading one entity *)

(* A slot of a valid replica is the first with its name.                   *)
Singles(r) ==
  \A i, j \in RefSlots :
    RefValid(r[i]) /\ r[j].remote_sequence = r[i].remote_sequence => i <= j

(* But for the slot t, r2 differs from r only in slots that are not valid. *)
Aside(r, r2, t) ==
  \A j \in RefSlots \ {t} :
    /\ r2[j].state = r[j].state /\ r2[j].remote_sequence = r[j].remote_sequence
    /\ RefValid(r[j]) => r2[j] = r[j]

Nameless(r, id) == \A j \in RefSlots : RefValid(r[j]) => r[j].remote_sequence # id

(* The replica is known; it is new and there is a slot; or there is none.  *)
Updates(r, r2, t, entity, now) ==
  /\ t \in RefSlots /\ RefValid(r[t]) /\ r[t].remote_sequence = entity.id
  /\ r2[t].state = r[t].state /\ r2[t].remote_sequence = entity.id
  /\ r2[t].last_recved_sequence = now
  /\ r2[t].value = IF entity.diff THEN entity.value ELSE r[t].value
  /\ Aside(r, r2, t)
Creates(r, r2, t, entity, now) ==
  /\ t \in RefSlots /\ ~RefValid(r[t]) /\ Nameless(r, entity.id)
  /\ \A j \in RefSlots : r[j].remote_sequence = entity.id => t <= j
  /\ r2[t].state = "valid" /\ r2[t].remote_sequence = entity.id
  /\ r2[t].last_recved_sequence = now
  /\ r2[t].value = IF entity.diff THEN entity.value ELSE Unset
  /\ Aside(r, r2, t)
Loses(r, r2, entity) ==
  /\ Nameless(r, entity.id) /\ \A j \in RefSlots : RefValid(r[j])
  /\ r2 = r

LEMMA ReadEffect ==
  ASSUME NEW s \in Reader, NEW entity \in Diff, NEW now \in Nat, Singles(s.replicas)
  PROVE  LET to == ReadEntity(s, entity, now)
             r  == s.replicas
         IN \/ /\ to.orphans = s.orphans
               /\ \E t \in RefSlots : Updates(r, to.replicas, t, entity, now)
            \/ /\ to.orphans = s.orphans
               /\ \E t \in RefSlots : Creates(r, to.replicas, t, entity, now)
            \/ /\ to.orphans = s.orphans \cup {entity.id}
               /\ Loses(r, to.replicas, entity)
<1> DEFINE r  == s.replicas
           id == entity.id
           K  == Known(s, id)
           i  == Smallest(K)
           F  == Free(s, id, now)
           f  == Smallest(F)
           N  == Noted(s, id, now)
           to == ReadEntity(s, entity, now)
<1>0. ReadsAs(s, entity, now, to) BY ReadCases
<1>1. /\ r \in [RefSlots -> Replica] /\ id \in Ids /\ N \in [RefSlots -> Replica]
      /\ entity.value \in Nat \cup {Unset}
  BY NotedTyped DEF Reader, Diff
<1>2. K # {} => i \in K /\ i \in RefSlots /\ r[i].remote_sequence = id
                /\ \A j \in K : i <= j
  BY FreeSlot DEF Known
<1>3. \A j \in RefSlots : j \in Int BY SizesAssumption DEF RefSlots
<1>4. \A j \in RefSlots : /\ N[j].state = r[j].state
                          /\ N[j].remote_sequence = r[j].remote_sequence
                          /\ N[j].value = r[j].value
                          /\ ~(K # {} /\ j = i) => N[j] = r[j]
                          /\ K # {} /\ j = i => N[j].last_recved_sequence = now
  <2>1. CASE K = {} BY <2>1 DEF Noted
  <2>2. CASE K # {}
    <3>1. N = [r EXCEPT ![i].last_recved_sequence = now] BY <2>2 DEF Noted
    <3> HIDE DEF N, i, r
    <3>2. QED BY <1>1, <2>2, <3>1 DEF Replica
  <2>3. QED BY <2>1, <2>2
<1>5. ASSUME NEW j \in RefSlots, RefValid(r[j]), r[j].remote_sequence = id
      PROVE  K # {} /\ i = j
  <2>1. j \in K BY <1>5 DEF Known
  <2>2. i \in RefSlots /\ r[i].remote_sequence = id /\ i <= j BY <1>2, <2>1
  <2>3. j <= i BY <1>5, <2>2 DEF Singles
  <2>4. i = j BY <1>3, <2>2, <2>3
  <2>5. QED BY <2>1, <2>4
<1>6. CASE K # {} /\ RefValid(r[i])
  <2> DEFINE v == IF entity.diff THEN entity.value ELSE N[i].value
             r2 == [N EXCEPT ![i].value = IF entity.diff THEN entity.value ELSE @]
  <2>1. to = [s EXCEPT !.replicas = r2] BY <1>0, <1>6 DEF ReadsAs
  <2>2. to.replicas = r2 /\ to.orphans = s.orphans
    <3> HIDE DEF r2
    <3>1. QED BY <2>1 DEF Reader
  <2>3. i \in RefSlots BY <1>2, <1>6
  <2>4. r2 = [N EXCEPT ![i].value = v] OBVIOUS
  <2>5. v = IF entity.diff THEN entity.value ELSE r[i].value BY <1>4, <2>3
  <2> HIDE DEF r2, v
  <2>6. /\ r2[i].value = v /\ r2[i].state = N[i].state
        /\ r2[i].remote_sequence = N[i].remote_sequence
        /\ r2[i].last_recved_sequence = N[i].last_recved_sequence
        /\ \A j \in RefSlots \ {i} : r2[j] = N[j]
    <3> HIDE DEF N, i
    <3>1. QED BY <1>1, <2>3, <2>4 DEF Replica
  <2>7. Aside(r, r2, i) BY <1>4, <2>6 DEF Aside
  <2>8. Updates(r, r2, i, entity, now) BY <1>2, <1>4, <1>6, <2>3, <2>5, <2>6, <2>7 DEF Updates
  <2>9. QED BY <2>2, <2>3, <2>8
<1>7. CASE ~(K # {} /\ RefValid(r[i])) /\ F # {}
  <2>1. Nameless(r, id) BY <1>5, <1>7 DEF Nameless
  <2>2. \A j \in RefSlots : j \in F <=> ~RefValid(r[j])
    BY <1>4 DEF Free, RefValid
  <2>3. f \in F /\ f \in RefSlots /\ \A j \in F : f <= j
    <3>1. F \subseteq RefSlots BY DEF Free
    <3> HIDE DEF F
    <3>2. QED BY <1>7, <3>1, FreeSlot
  <2> DEFINE fresh == [state |-> "valid", remote_sequence |-> id,
                       value |-> IF entity.diff THEN entity.value ELSE Unset,
                       last_recved_sequence |-> now]
             r2 == [N EXCEPT ![f] = fresh]
  <2>4. to = [s EXCEPT !.replicas = r2] BY <1>0, <1>7 DEF ReadsAs
  <2>5. to.replicas = r2 /\ to.orphans = s.orphans
    <3> HIDE DEF r2
    <3>1. QED BY <2>4 DEF Reader
  <2>6. r2[f] = fresh /\ \A j \in RefSlots \ {f} : r2[j] = N[j]
    <3> HIDE DEF N, f, fresh
    <3>1. QED BY <1>1, <2>3
  <2> HIDE DEF r2
  <2>7. ~RefValid(r[f]) BY <2>2, <2>3
  <2>8. Aside(r, r2, f)
    <3> SUFFICES ASSUME NEW j \in RefSlots \ {f}
                 PROVE  /\ r2[j].state = r[j].state
                        /\ r2[j].remote_sequence = r[j].remote_sequence
                        /\ RefValid(r[j]) => r2[j] = r[j]
      BY DEF Aside
    <3>1. RefValid(r[j]) => N[j] = r[j] BY <1>4, <1>7
    <3>2. QED BY <1>4, <2>6, <3>1
  <2>9. ASSUME NEW j \in RefSlots, r[j].remote_sequence = id PROVE f <= j
    <3>1. j \in K BY <2>9 DEF Known
    <3>2. i \in RefSlots /\ i <= j /\ ~RefValid(r[i]) BY <1>2, <1>7, <3>1
    <3>3. f <= i BY <2>2, <2>3, <3>2
    <3>4. QED BY <1>3, <2>3, <3>2, <3>3
  <2>10. Creates(r, r2, f, entity, now)
    BY <2>1, <2>3, <2>6, <2>7, <2>8, <2>9 DEF Creates
  <2>11. QED BY <2>3, <2>5, <2>10
<1>8. CASE ~(K # {} /\ RefValid(r[i])) /\ F = {}
  <2>1. Nameless(r, id) BY <1>5, <1>8 DEF Nameless
  <2>2. \A j \in RefSlots : RefValid(r[j]) BY <1>4, <1>8 DEF Free, RefValid
  <2>3. K = {} BY <1>2, <1>8, <2>2
  <2>4. N = r BY <2>3 DEF Noted
  <2>5. to = [s EXCEPT !.replicas = N, !.orphans = @ \cup {id}] BY <1>0, <1>8 DEF ReadsAs
  <2>6. to.replicas = N /\ to.orphans = s.orphans \cup {id}
    <3> HIDE DEF N
    <3>1. QED BY <2>5 DEF Reader
  <2>7. Loses(r, to.replicas, entity) BY <2>1, <2>2, <2>4, <2>6 DEF Loses
  <2>8. QED BY <2>6, <2>7
<1>9. QED BY <1>6, <1>7, <1>8

LEMMA SinglesStay ==
  ASSUME NEW r, NEW r2, NEW t, NEW entity, NEW now, Singles(r),
         Updates(r, r2, t, entity, now) \/ Creates(r, r2, t, entity, now)
  PROVE  Singles(r2)
<1>1. \A j \in RefSlots : j \in Int BY SizesAssumption DEF RefSlots
<1>2. /\ t \in RefSlots /\ r2[t].remote_sequence = entity.id /\ Aside(r, r2, t)
      /\ \A j \in RefSlots : r[j].remote_sequence = entity.id => t <= j
      /\ \A j \in RefSlots : RefValid(r[j]) /\ j # t => r[j].remote_sequence # entity.id
  <2>1. CASE Updates(r, r2, t, entity, now)
    <3>1. ASSUME NEW j \in RefSlots, RefValid(r[j]), j # t, r[j].remote_sequence = entity.id
          PROVE  FALSE
      <4>1. t <= j /\ j <= t BY <2>1, <3>1 DEF Updates, Singles
      <4>2. QED BY <1>1, <2>1, <3>1, <4>1 DEF Updates
    <3>2. QED BY <2>1, <3>1 DEF Updates, Singles
  <2>2. CASE Creates(r, r2, t, entity, now) BY <2>2 DEF Creates, Nameless
  <2>3. QED BY <2>1, <2>2
<1>3. ASSUME NEW i \in RefSlots, NEW j \in RefSlots, RefValid(r2[i]),
             r2[j].remote_sequence = r2[i].remote_sequence
      PROVE  i <= j
  <2>1. CASE i = t /\ j = t BY <1>1, <2>1
  <2>2. CASE i = t /\ j # t
    <3>1. r[j].remote_sequence = entity.id BY <1>2, <1>3, <2>2 DEF Aside
    <3>2. QED BY <1>2, <2>2, <3>1
  <2>3. CASE i # t
    <3>1. RefValid(r[i]) /\ r2[i].remote_sequence = r[i].remote_sequence
      BY <1>2, <1>3, <2>3 DEF Aside, RefValid
    <3>2. j # t BY <1>2, <1>3, <2>3, <3>1
    <3>3. r[j].remote_sequence = r[i].remote_sequence BY <1>2, <1>3, <3>1, <3>2 DEF Aside
    <3>4. QED BY <3>1, <3>3 DEF Singles
  <2>4. QED BY <2>1, <2>2, <2>3
<1>4. QED BY <1>3 DEF Singles


-----------------------------------------------------------------------------
(* Reading a packet.  S are the snapshots of the sender, s is the reader   *)
(* before the packet k, old are the packets it accepted the update before. *)

(* A value v is that of the snapshot inc, or packets rightly left it out.  *)
Excused(S, acc, inc, id, u, v) ==
  \E b \in acc : /\ b < inc /\ Carries(S, b, id, u)
                 /\ v = Unset \/ \E l \in acc : b < l /\ l < inc /\ ~Carries(S, l, id, u)
Fits(S, acc, inc, id, v) ==
  \A u : Carries(S, inc, id, u) => v = u \/ Excused(S, acc, inc, id, u, v)

Crowded(S, C) == Cardinality({id \in Ids : Named(S, C, id)}) > ReplicaSlots

ShownIn(cur, n, id) == \E m \in 1 .. n : cur[m].id = id

(* A valid replica x, and everything, after n entities of the packet.      *)
ReplicaRead(x, n, s, k, S, old, now) ==
  /\ x.remote_sequence \in Ids /\ x.last_recved_sequence <= now
  /\ x.last_recved_sequence = now => Named(S, s.batch \cup {k}, x.remote_sequence)
  /\ Named(S, old \cup (s.batch \cup {k}), x.remote_sequence)
  /\ x.state = "pending_remove" => \E b \in s.batch : ~Names(S, b, x.remote_sequence)
  /\ \/ Fits(S, s.accepted \cup {k}, k, x.remote_sequence, x.value)
     \/ s.incoming_sequence # -1
        /\ Fits(S, s.accepted, s.incoming_sequence, x.remote_sequence, x.value)
  /\ ShownIn(S[k + 1], n, x.remote_sequence) =>
       /\ Fits(S, s.accepted \cup {k}, k, x.remote_sequence, x.value)
       /\ x.last_recved_sequence = now

Reading(t, n, s, k, S, old, now) ==
  /\ Singles(t.replicas)
  /\ \A i \in RefSlots : RefValid(t.replicas[i]) =>
       ReplicaRead(t.replicas[i], n, s, k, S, old, now)
  /\ \A m \in 1 .. n : \/ S[k + 1][m].id \in t.orphans
                       \/ \E i \in RefSlots :
                            /\ RefValid(t.replicas[i])
                            /\ t.replicas[i].remote_sequence = S[k + 1][m].id
  /\ t.orphans # {} => Crowded(S, old \cup (s.batch \cup {k}))

Reads(s, k, S, old, now) ==
  /\ s \in Reader /\ S \in Seq(Seq(Item)) /\ old \in SUBSET Nat /\ now \in Nat
  /\ k \in Nat /\ k < Len(S) /\ OneValueEach(S[k + 1])
  /\ HeardOf(s.incoming_sequence, s.accepted, Len(S)) /\ s.incoming_sequence < k

Entry(entity, m, k, S, acc) ==
  /\ entity \in Diff /\ m \in 1 .. Len(S[k + 1]) /\ entity.id = S[k + 1][m].id
  /\ entity.diff => entity.value = S[k + 1][m].value
  /\ ~entity.diff => \E a \in acc : Carries(S, a, S[k + 1][m].id, S[k + 1][m].value)

LEMMA ItemsOf ==
  ASSUME NEW S \in Seq(Seq(Item)), NEW k \in Nat, k < Len(S)
  PROVE  /\ S[k + 1] \in Seq(Item) /\ Len(S[k + 1]) \in Nat
         /\ DOMAIN S[k + 1] = 1 .. Len(S[k + 1])
         /\ \A m \in 1 .. Len(S[k + 1]) :
              S[k + 1][m] \in Item /\ S[k + 1][m].id \in Ids
              /\ S[k + 1][m] = [id |-> S[k + 1][m].id, value |-> S[k + 1][m].value]
<1>1. k + 1 \in 1 .. Len(S)
  <2> DEFINE l == Len(S)
  <2>1. l \in Nat /\ k < l OBVIOUS
  <2> HIDE DEF l
  <2>2. k + 1 \in 1 .. l BY <2>1
  <2>3. QED BY <2>2 DEF l
<1>2. S[k + 1] \in Seq(Item) BY <1>1
<1> DEFINE cur == S[k + 1]
<1>3. cur \in Seq(Item) BY <1>2
<1> HIDE DEF cur
<1>4. Len(cur) \in Nat /\ DOMAIN cur = 1 .. Len(cur) /\ \A m \in 1 .. Len(cur) : cur[m] \in Item
  BY <1>3
<1>5. \A m \in 1 .. Len(cur) : cur[m].id \in Ids /\ cur[m] = [id |-> cur[m].id, value |-> cur[m].value]
  BY <1>4 DEF Item
<1>6. QED BY <1>3, <1>4, <1>5 DEF cur

(* The value a replica has after its entity was read. *)
LEMMA ValueRead ==
  ASSUME NEW s, NEW k, NEW S, NEW old, NEW now, Reads(s, k, S, old, now),
         NEW entity, NEW m, Entry(entity, m, k, S, s.accepted), NEW v, NEW w,
         w = IF entity.diff THEN entity.value ELSE v,
         \/ v = Unset
         \/ Fits(S, s.accepted \cup {k}, k, entity.id, v)
         \/ s.incoming_sequence # -1
            /\ Fits(S, s.accepted, s.incoming_sequence, entity.id, v)
  PROVE  Fits(S, s.accepted \cup {k}, k, entity.id, w)
<1> DEFINE acc == s.accepted
           inc == s.incoming_sequence
           id == entity.id
           u == S[k + 1][m].value
<1>1. /\ acc \subseteq Nat /\ inc \in Int /\ k \in Nat /\ inc < k
      /\ \A a \in acc : a <= inc /\ a < k
      /\ inc = -1 \/ inc \in acc
  BY DEF Reads, Reader, HeardOf
<1>2. /\ DOMAIN S[k + 1] = 1 .. Len(S[k + 1]) /\ m \in 1 .. Len(S[k + 1])
      /\ S[k + 1][m].id = id /\ OneValueEach(S[k + 1])
  BY ItemsOf DEF Reads, Entry
<1>3. ASSUME NEW x, Carries(S, k, id, x) PROVE x = u
  <2>1. PICK j \in DOMAIN S[k + 1] : S[k + 1][j] = [id |-> id, value |-> x]
    BY <1>3 DEF Carries
  <2>2. S[k + 1][j].id = id /\ S[k + 1][j].value = x BY <2>1
  <2>3. QED BY <1>2, <2>1, <2>2 DEF OneValueEach
<1> SUFFICES w = u \/ Excused(S, acc \cup {k}, k, id, u, w) BY <1>3 DEF Fits
<1>4. CASE entity.diff BY <1>4 DEF Entry
<1>5. CASE ~entity.diff
  <2>1. w = v BY <1>5
  <2>2. PICK a \in acc : Carries(S, a, id, u) BY <1>2, <1>5 DEF Entry
  <2>3. CASE v = Unset BY <1>1, <2>1, <2>2, <2>3 DEF Excused
  <2>4. CASE Fits(S, acc \cup {k}, k, id, v)
    <3>1. Carries(S, k, id, u)
      <4>1. S[k + 1][m] = [id |-> id, value |-> u] BY <1>2, ItemsOf DEF Reads
      <4>2. QED BY <1>2, <4>1 DEF Carries
    <3>2. QED BY <2>1, <2>4, <3>1 DEF Fits
  <2>5. CASE inc # -1 /\ Fits(S, acc, inc, id, v)
    <3>1. inc \in acc BY <1>1, <2>5
    <3>2. CASE Carries(S, inc, id, u)
      <4>1. v = u \/ Excused(S, acc, inc, id, u, v) BY <2>5, <3>2 DEF Fits
      <4>2. ASSUME Excused(S, acc, inc, id, u, v)
            PROVE  Excused(S, acc \cup {k}, k, id, u, v)
        <5>1. PICK b \in acc :
                /\ b < inc /\ Carries(S, b, id, u)
                /\ v = Unset \/ \E l \in acc : b < l /\ l < inc /\ ~Carries(S, l, id, u)
          BY <4>2 DEF Excused
        <5>2. b < k BY <1>1
        <5>3. QED BY <1>1, <5>1, <5>2 DEF Excused
      <4>3. QED BY <2>1, <4>1, <4>2
    <3>3. CASE ~Carries(S, inc, id, u)
      <4>1. a < inc
        <5>1. a # inc BY <2>2, <3>3
        <5>2. a <= inc /\ a \in Nat /\ inc \in Int BY <1>1
        <5> HIDE DEF acc, inc
        <5>3. QED BY <5>1, <5>2
      <4>2. a < k /\ inc < k BY <1>1
      <4>3. QED BY <2>2, <3>1, <3>3, <4>1, <4>2 DEF Excused
    <3>4. QED BY <3>2, <3>3
  <2>6. QED BY <2>3, <2>4, <2>5
<1>6. QED BY <1>4, <1>5

LEMMA CrowdedGrows ==
  ASSUME NEW S, NEW C, NEW D, C \subseteq D, Crowded(S, C)
  PROVE  Crowded(S, D)
<1> DEFINE c == {id \in Ids : Named(S, C, id)}
           d == {id \in Ids : Named(S, D, id)}
<1>1. c \subseteq d BY DEF Named
<1>2. IsFiniteSet(d) BY SizesAssumption, FS_Subset
<1>3. /\ Cardinality(c) \in Nat /\ Cardinality(d) \in Nat /\ Cardinality(c) <= Cardinality(d)
  <2> HIDE DEF c, d
  <2>1. IsFiniteSet(c) /\ Cardinality(c) <= Cardinality(d) BY <1>1, <1>2, FS_Subset
  <2>2. QED BY <1>2, <2>1, FS_CardinalityType
<1>4. Cardinality(c) > ReplicaSlots BY DEF Crowded
<1> HIDE DEF c, d
<1>5. Cardinality(d) > ReplicaSlots BY <1>3, <1>4, SizesAssumption
<1>6. QED BY <1>5 DEF Crowded, d

(* Every slot has a replica of another entity than the one being read.     *)
LEMMA IsCrowded ==
  ASSUME NEW r, NEW S, NEW C, NEW id \in Ids, Singles(r), Nameless(r, id), Named(S, C, id),
         \A i \in RefSlots : /\ RefValid(r[i]) /\ r[i].remote_sequence \in Ids
                             /\ Named(S, C, r[i].remote_sequence)
  PROVE  Crowded(S, C)
<1> DEFINE M == {x \in Ids : Named(S, C, x)}
           place == [i \in RefSlots |-> r[i].remote_sequence]
<1>1. IsFiniteSet(M) BY SizesAssumption, FS_Subset
<1>2. id \in M OBVIOUS
<1>3. place \in [RefSlots -> M \ {id}] BY DEF Nameless
<1>4. \A i, j \in RefSlots : place[i] = place[j] => i = j
  <2> SUFFICES ASSUME NEW i \in RefSlots, NEW j \in RefSlots, place[i] = place[j]
               PROVE  i = j
    OBVIOUS
  <2>1. i <= j /\ j <= i BY DEF Singles
  <2>2. i \in Int /\ j \in Int BY SizesAssumption DEF RefSlots
  <2>3. QED BY <2>1, <2>2
<1>5. place \in Injection(RefSlots, M \ {id})
  <2> HIDE DEF place, M
  <2>1. QED BY <1>3, <1>4 DEF Injection, IsInjective
<1> HIDE DEF place, M
<1>6. /\ IsFiniteSet(M \ {id}) /\ Cardinality(M \ {id}) = Cardinality(M) - 1
      /\ Cardinality(M) \in Nat
  BY <1>1, <1>2, FS_RemoveElement, FS_CardinalityType
<1>7. IsFiniteSet(RefSlots) /\ Cardinality(RefSlots) = ReplicaSlots
  <2>1. 0 \in Int /\ ReplicaSlots - 1 \in Int /\ 0 <= ReplicaSlots - 1 BY SizesAssumption
  <2>2. IsFiniteSet(0 .. ReplicaSlots - 1)
        /\ Cardinality(0 .. ReplicaSlots - 1) =
             IF 0 > ReplicaSlots - 1 THEN 0 ELSE (ReplicaSlots - 1) - 0 + 1
    BY <2>1, FS_Interval
  <2>3. QED BY <2>1, <2>2, SizesAssumption DEF RefSlots
<1>8. Cardinality(RefSlots) <= Cardinality(M \ {id}) BY <1>5, <1>6, <1>7, FS_Injection
<1>9. Cardinality(M) > ReplicaSlots BY <1>6, <1>7, <1>8, SizesAssumption
<1>10. QED BY <1>9 DEF Crowded, M


LEMMA ReadingGoesOn ==
  ASSUME NEW s, NEW k, NEW S, NEW old, NEW now, Reads(s, k, S, old, now),
         NEW t \in Reader, NEW n \in Nat, NEW entity,
         Entry(entity, n + 1, k, S, s.accepted), Reading(t, n, s, k, S, old, now)
  PROVE  Reading(ReadEntity(t, entity, now), n + 1, s, k, S, old, now)
<1> DEFINE r   == t.replicas
           to  == ReadEntity(t, entity, now)
           r2  == to.replicas
           id  == entity.id
           cur == S[k + 1]
           C   == s.batch \cup {k}
<1>1. /\ now \in Nat /\ s \in Reader /\ entity \in Diff /\ r \in [RefSlots -> Replica]
      /\ k \in Nat /\ k < Len(S) /\ S \in Seq(Seq(Item))
  BY DEF Reads, Entry, Reader
<1>2. n + 1 \in 1 .. Len(cur) /\ cur[n + 1].id = id /\ id \in Ids
      /\ DOMAIN cur = 1 .. Len(cur)
  BY <1>1, ItemsOf DEF Entry
<1>3. Named(S, C, id) /\ Named(S, old \cup C, id) BY <1>2 DEF Named, Names
<1>4. /\ Singles(r)
      /\ \A i \in RefSlots : RefValid(r[i]) => ReplicaRead(r[i], n, s, k, S, old, now)
      /\ \A m \in 1 .. n : \/ cur[m].id \in t.orphans
                           \/ \E i \in RefSlots : RefValid(r[i])
                                                  /\ r[i].remote_sequence = cur[m].id
      /\ t.orphans # {} => Crowded(S, old \cup C)
  BY DEF Reading
<1>5. \A i \in 1 .. n + 1 : i = n + 1 \/ i \in 1 .. n OBVIOUS
<1>6. \A x : ShownIn(cur, n + 1, x) => x = id \/ ShownIn(cur, n, x)
  BY <1>2, <1>5 DEF ShownIn
<1>7. ASSUME NEW x, ReplicaRead(x, n, s, k, S, old, now), x.remote_sequence # id
      PROVE  ReplicaRead(x, n + 1, s, k, S, old, now)
  BY <1>6, <1>7 DEF ReplicaRead
<1>8. ASSUME to.orphans = t.orphans, NEW z \in RefSlots,
             Updates(r, r2, z, entity, now) \/ Creates(r, r2, z, entity, now)
      PROVE  Reading(to, n + 1, s, k, S, old, now)
  <2>1. Singles(r2) BY <1>4, <1>8, SinglesStay
  <2>2. /\ r2[z].remote_sequence = id /\ r2[z].last_recved_sequence = now
        /\ Aside(r, r2, z) /\ RefValid(r2[z])
    BY <1>8 DEF Updates, Creates, RefValid
  <2>3. ASSUME NEW i \in RefSlots, i # z, RefValid(r[i]) PROVE r[i].remote_sequence # id
    <3>1. CASE Updates(r, r2, z, entity, now)
      <4> SUFFICES ASSUME r[i].remote_sequence = id PROVE FALSE OBVIOUS
      <4>1. i <= z /\ z <= i BY <1>4, <2>3, <3>1 DEF Updates, Singles
      <4>2. i \in Int /\ z \in Int BY SizesAssumption DEF RefSlots
      <4>3. QED BY <2>3, <4>1, <4>2
    <3>2. CASE Creates(r, r2, z, entity, now) BY <2>3, <3>2 DEF Creates, Nameless
    <3>3. QED BY <1>8, <3>1, <3>2
  <2>4. Fits(S, s.accepted \cup {k}, k, id, r2[z].value)
    <3>1. CASE Updates(r, r2, z, entity, now)
      <4>1. /\ RefValid(r[z]) /\ r[z].remote_sequence = id
            /\ r2[z].value = IF entity.diff THEN entity.value ELSE r[z].value
        BY <3>1 DEF Updates
      <4>2. ReplicaRead(r[z], n, s, k, S, old, now) BY <1>4, <4>1
      <4>3. \/ Fits(S, s.accepted \cup {k}, k, id, r[z].value)
            \/ s.incoming_sequence # -1
               /\ Fits(S, s.accepted, s.incoming_sequence, id, r[z].value)
        BY <4>1, <4>2 DEF ReplicaRead
      <4>4. QED BY <4>1, <4>3, ValueRead
    <3>2. CASE Creates(r, r2, z, entity, now)
      <4>1. r2[z].value = IF entity.diff THEN entity.value ELSE Unset BY <3>2 DEF Creates
      <4>2. QED BY <4>1, ValueRead
    <3>3. QED BY <1>8, <3>1, <3>2
  <2>5. r2[z].state = "pending_remove" => \E b \in s.batch : ~Names(S, b, id)
    <3>1. CASE Updates(r, r2, z, entity, now)
      <4>1. RefValid(r[z]) /\ r[z].remote_sequence = id /\ r2[z].state = r[z].state
        BY <3>1 DEF Updates
      <4>2. QED BY <1>4, <4>1 DEF ReplicaRead
    <3>2. CASE Creates(r, r2, z, entity, now) BY <3>2 DEF Creates
    <3>3. QED BY <1>8, <3>1, <3>2
  <2>6. ReplicaRead(r2[z], n + 1, s, k, S, old, now)
    BY <1>1, <1>2, <1>3, <2>2, <2>4, <2>5 DEF ReplicaRead
  <2>7. ASSUME NEW i \in RefSlots, RefValid(r2[i])
        PROVE  ReplicaRead(r2[i], n + 1, s, k, S, old, now)
    <3>1. CASE i = z BY <2>6, <3>1
    <3>2. CASE i # z
      <4>1. RefValid(r[i]) /\ r2[i] = r[i] BY <2>2, <2>7, <3>2 DEF Aside, RefValid
      <4>2. QED BY <1>4, <1>7, <2>3, <3>2, <4>1
    <3>3. QED BY <3>1, <3>2
  <2>8. ASSUME NEW m \in 1 .. n + 1
        PROVE  \/ cur[m].id \in to.orphans
               \/ \E i \in RefSlots : RefValid(r2[i]) /\ r2[i].remote_sequence = cur[m].id
    <3>1. CASE m = n + 1 BY <1>2, <2>2, <3>1
    <3>2. CASE m \in 1 .. n
      <4>1. CASE cur[m].id \in t.orphans BY <1>8, <4>1
      <4>2. CASE \E i \in RefSlots : RefValid(r[i]) /\ r[i].remote_sequence = cur[m].id
        <5>1. PICK i \in RefSlots : RefValid(r[i]) /\ r[i].remote_sequence = cur[m].id
          BY <4>2
        <5>2. CASE i = z
          <6>1. r[z].remote_sequence = id
            <7>1. Updates(r, r2, z, entity, now) BY <1>8, <5>1, <5>2 DEF Creates
            <7>2. QED BY <7>1 DEF Updates
          <6>2. QED BY <2>2, <5>1, <5>2, <6>1
        <5>3. CASE i # z
          <6>1. r2[i] = r[i] BY <2>2, <5>1, <5>3 DEF Aside
          <6>2. QED BY <5>1, <6>1
        <5>4. QED BY <5>2, <5>3
      <4>3. QED BY <1>4, <3>2, <4>1, <4>2
    <3>3. QED BY <1>5, <3>1, <3>2
  <2>9. QED BY <1>4, <1>8, <2>1, <2>7, <2>8 DEF Reading
<1>9. ASSUME to.orphans = t.orphans \cup {id}, Loses(r, r2, entity)
      PROVE  Reading(to, n + 1, s, k, S, old, now)
  <2>1. r2 = r /\ Nameless(r, id) /\ \A i \in RefSlots : RefValid(r[i])
    BY <1>9 DEF Loses
  <2>2. \A i \in RefSlots : r[i].remote_sequence # id /\ ReplicaRead(r[i], n, s, k, S, old, now)
    BY <1>4, <2>1 DEF Nameless
  <2>3. \A i \in RefSlots : ReplicaRead(r2[i], n + 1, s, k, S, old, now)
    BY <1>7, <2>1, <2>2
  <2>4. Crowded(S, old \cup C)
    <3>1. \A i \in RefSlots : /\ r[i].remote_sequence \in Ids
                              /\ Named(S, old \cup C, r[i].remote_sequence)
      BY <2>2 DEF ReplicaRead
    <3> HIDE DEF C, r
    <3>2. QED BY <1>2, <1>3, <1>4, <2>1, <3>1, IsCrowded
  <2>5. ASSUME NEW m \in 1 .. n + 1
        PROVE  \/ cur[m].id \in to.orphans
               \/ \E i \in RefSlots : RefValid(r2[i]) /\ r2[i].remote_sequence = cur[m].id
    BY <1>2, <1>4, <1>5, <1>9, <2>1
  <2>6. QED BY <1>4, <2>1, <2>3, <2>4, <2>5 DEF Reading
<1>10. QED BY <1>1, <1>4, <1>8, <1>9, ReadEffect

(* Between packets *)

Present(r, lost, B, S, id) ==
  \/ \E i \in RefSlots : r[i].state = "valid" /\ r[i].remote_sequence = id
  \/ id \in lost
  \/ \E b \in B : ~Names(S, b, id)

ReplicaKept(x, s, S, old, now) ==
  /\ x.remote_sequence \in Ids /\ x.last_recved_sequence <= now
  /\ x.last_recved_sequence = now => Named(S, s.batch, x.remote_sequence)
  /\ Named(S, old \cup s.batch, x.remote_sequence)
  /\ x.state = "pending_remove" => \E b \in s.batch : ~Names(S, b, x.remote_sequence)
  /\ s.incoming_sequence # -1
  /\ Fits(S, s.accepted, s.incoming_sequence, x.remote_sequence, x.value)
  /\ x.state = "valid" /\ s.batch # {} => Named(S, s.batch, x.remote_sequence)

Kept(s, S, old, now) ==
  /\ Singles(s.replicas)
  /\ \A i \in RefSlots : RefValid(s.replicas[i]) => ReplicaKept(s.replicas[i], s, S, old, now)
  /\ s.orphans # {} => Crowded(S, old \cup s.batch)
  /\ s.batch # {} =>
       /\ s.incoming_sequence # -1
       /\ \A m \in 1 .. Len(S[s.incoming_sequence + 1]) :
            Present(s.replicas, s.orphans, s.batch, S, S[s.incoming_sequence + 1][m].id)

Delivered(packet, S, acc) ==
  /\ packet \in Packet
  /\ Tells(packet.entities, S[packet.sequence + 1])
  /\ Backed(packet.entities, S, packet.sequence, acc)

ReadUp(t, s, packet, S, old, now) ==
  /\ Reading(t, Len(S[packet.sequence + 1]), s, packet.sequence, S, old, now)
  /\ t.accepted = s.accepted /\ t.batch = s.batch
  /\ Accept(s, packet, now) =
       [t EXCEPT !.incoming_sequence = packet.sequence,
                 !.ack_sequence = packet.ack_sequence,
                 !.accepted = @ \cup {packet.sequence},
                 !.batch = @ \cup {packet.sequence},
                 !.replicas = RemoveUnseen(@, now)]

LEMMA AllRead ==
  ASSUME NEW s, NEW packet, NEW S, NEW old, NEW now, Reads(s, packet.sequence, S, old, now),
         Delivered(packet, S, s.accepted), Kept(s, S, old, now)
  PROVE  \E t \in Reader : ReadUp(t, s, packet, S, old, now)
<1> DEFINE k == packet.sequence
           e == packet.entities
           cur == S[k + 1]
           N == Len(e)
<1>1. /\ now \in Nat /\ s \in Reader /\ k \in Nat /\ k < Len(S) /\ S \in Seq(Seq(Item))
      /\ packet \in Packet
  BY DEF Reads, Delivered
<1>2. /\ N \in Nat /\ \A n \in 1 .. N : e[n] \in Diff
      /\ Len(cur) = N
      /\ \A n \in 1 .. N : /\ e[n].id = cur[n].id
                           /\ e[n].diff => e[n].value = cur[n].value
  <2>1. e \in Seq(Diff) BY <1>1 DEF Packet
  <2>2. Len(e) = Len(cur) BY DEF Delivered, Tells
  <2>3. QED BY <2>1, <2>2 DEF Delivered, Tells
<1>3. \A n \in 1 .. N : Entry(e[n], n, k, S, s.accepted)
  BY <1>2 DEF Entry, Delivered, Backed
<1>4. PICK Read : ReadsPacket(Read, s, packet, now) BY <1>2, ReadLoop
<1>5. /\ Read[0] = s
      /\ \A n \in 1 .. N : Read[n] = ReadEntity(Read[n - 1], e[n], now)
      /\ Accept(s, packet, now) =
           [Read[N] EXCEPT !.incoming_sequence = k,
                           !.ack_sequence = packet.ack_sequence,
                           !.accepted = @ \cup {k},
                           !.batch = @ \cup {k},
                           !.replicas = RemoveUnseen(@, now)]
  BY <1>4 DEF ReadsPacket
<1> DEFINE Good == {n \in 0 .. N : /\ Read[n] \in Reader
                                   /\ Reading(Read[n], n, s, k, S, old, now)
                                   /\ Read[n].accepted = s.accepted
                                   /\ Read[n].batch = s.batch}
<1>6. Reading(s, 0, s, k, S, old, now)
  <2>1. ASSUME NEW x, ReplicaKept(x, s, S, old, now)
        PROVE  ReplicaRead(x, 0, s, k, S, old, now)
    <3>1. ~ShownIn(S[k + 1], 0, x.remote_sequence) BY DEF ShownIn
    <3>2. \A id : /\ Named(S, s.batch, id) => Named(S, s.batch \cup {k}, id)
                  /\ Named(S, old \cup s.batch, id) => Named(S, old \cup (s.batch \cup {k}), id)
      BY DEF Named
    <3>3. QED BY <2>1, <3>1, <3>2 DEF ReplicaKept, ReplicaRead
  <2>2. s.orphans # {} => Crowded(S, old \cup (s.batch \cup {k}))
    <3>1. old \cup s.batch \subseteq old \cup (s.batch \cup {k}) OBVIOUS
    <3>2. QED BY <3>1, CrowdedGrows DEF Kept
  <2>3. QED BY <2>1, <2>2 DEF Kept, Reading
<1>7. 0 \in Good BY <1>1, <1>2, <1>5, <1>6
<1>8. ASSUME NEW n \in 0 .. N - 1, n \in Good PROVE n + 1 \in Good
  <2>1. n + 1 \in 1 .. N /\ (n + 1) - 1 = n /\ n \in Nat BY <1>2
  <2>2. Read[n + 1] = ReadEntity(Read[n], e[n + 1], now) BY <1>5, <2>1
  <2>3. /\ Read[n] \in Reader /\ Reading(Read[n], n, s, k, S, old, now)
        /\ Read[n].accepted = s.accepted /\ Read[n].batch = s.batch
    BY <1>8
  <2>4. Entry(e[n + 1], n + 1, k, S, s.accepted) /\ e[n + 1] \in Diff BY <1>2, <1>3, <2>1
  <2>5. Reading(Read[n + 1], n + 1, s, k, S, old, now)
    <3> HIDE DEF k, e
    <3>1. Reads(s, k, S, old, now) BY DEF k
    <3>2. QED BY <2>1, <2>2, <2>3, <2>4, <3>1, ReadingGoesOn
  <2>6. /\ Read[n + 1] \in Reader /\ Read[n + 1].accepted = s.accepted
        /\ Read[n + 1].batch = s.batch
    <3> DEFINE t == Read[n]
               x == e[n + 1]
    <3>1. t \in Reader /\ x \in Diff /\ now \in Nat BY <1>1, <2>3, <2>4
    <3>2. Read[n + 1] = ReadEntity(t, x, now) BY <2>2
    <3>3. t.accepted = s.accepted /\ t.batch = s.batch BY <2>3
    <3> HIDE DEF t, x
    <3>4. /\ ReadEntity(t, x, now) \in Reader
          /\ ReadEntity(t, x, now).accepted = t.accepted
          /\ ReadEntity(t, x, now).batch = t.batch
      BY <3>1, ReadTyped
    <3>5. QED BY <3>2, <3>3, <3>4
  <2>7. QED BY <2>1, <2>5, <2>6
<1>9. N \in Good
  <2> HIDE DEF Good
  <2>1. \A n \in 0 .. N : n \in Good BY <1>2, <1>7, <1>8, UpTo
  <2>2. QED BY <1>2, <2>1
<1>10. ReadUp(Read[N], s, packet, S, old, now) BY <1>2, <1>5, <1>9 DEF ReadUp
<1>11. QED BY <1>9, <1>10


LEMMA AcceptKeeps ==
  ASSUME NEW s, NEW packet, NEW S, NEW old, NEW now, Reads(s, packet.sequence, S, old, now),
         Delivered(packet, S, s.accepted), Kept(s, S, old, now)
  PROVE  /\ Kept(Accept(s, packet, now), S, old, now)
         /\ Accept(s, packet, now).batch # {}
<1> DEFINE k == packet.sequence
           cur == S[k + 1]
           N == Len(cur)
           to == Accept(s, packet, now)
           C == s.batch \cup {k}
           acc == s.accepted \cup {k}
<1>0. PICK t \in Reader : ReadUp(t, s, packet, S, old, now) BY AllRead
<1>1. /\ Reading(t, N, s, k, S, old, now) /\ t.accepted = s.accepted /\ t.batch = s.batch
      /\ to = [t EXCEPT !.incoming_sequence = k, !.ack_sequence = packet.ack_sequence,
                        !.accepted = @ \cup {k}, !.batch = @ \cup {k},
                        !.replicas = RemoveUnseen(@, now)]
  BY <1>0 DEF ReadUp
<1> DEFINE r == t.replicas
           r2 == RemoveUnseen(r, now)
<1>2. /\ k \in Nat /\ k < Len(S) /\ S \in Seq(Seq(Item)) /\ now \in Nat
      /\ N \in Nat /\ DOMAIN cur = 1 .. N
  BY ItemsOf DEF Reads
<1>3. /\ to.incoming_sequence = k /\ to.accepted = acc /\ to.batch = C
      /\ to.replicas = r2 /\ to.orphans = t.orphans
  <2> HIDE DEF r2
  <2>1. to = [t EXCEPT !.incoming_sequence = k, !.ack_sequence = packet.ack_sequence,
                       !.accepted = @ \cup {k}, !.batch = @ \cup {k}, !.replicas = r2]
    BY <1>1 DEF r2
  <2> HIDE DEF to
  <2>2. QED BY <1>1, <2>1 DEF Reader
<1>4. /\ Singles(r)
      /\ \A i \in RefSlots : RefValid(r[i]) => ReplicaRead(r[i], N, s, k, S, old, now)
      /\ \A m \in 1 .. N : \/ cur[m].id \in t.orphans
                           \/ \E i \in RefSlots : RefValid(r[i])
                                                  /\ r[i].remote_sequence = cur[m].id
      /\ t.orphans # {} => Crowded(S, old \cup C)
  BY <1>1 DEF Reading
<1>5. r \in [RefSlots -> Replica] BY DEF Reader
<1>6. ASSUME NEW i \in RefSlots
      PROVE  /\ r2[i].remote_sequence = r[i].remote_sequence
             /\ r2[i].value = r[i].value
             /\ r2[i].last_recved_sequence = r[i].last_recved_sequence
             /\ RefValid(r2[i]) <=> RefValid(r[i])
             /\ r2[i].state = IF RefValid(r[i]) /\ r[i].last_recved_sequence # now
                              THEN "pending_remove" ELSE r[i].state
  <2>1. r[i] \in Replica BY <1>5
  <2>2. r2[i] = IF RefValid(r[i]) /\ r[i].last_recved_sequence # now
                THEN [r[i] EXCEPT !.state = "pending_remove"] ELSE r[i]
    BY DEF RemoveUnseen
  <2> HIDE DEF r, r2
  <2>3. QED BY <2>1, <2>2 DEF Replica, RefValid
<1> HIDE DEF r2, to
<1>7. \A id : ShownIn(cur, N, id) <=> Names(S, k, id)
  BY <1>2 DEF ShownIn, Names
<1>8. Singles(r2) BY <1>4, <1>6 DEF Singles
<1>9. ASSUME NEW i \in RefSlots, RefValid(r2[i])
      PROVE  ReplicaKept(r2[i], to, S, old, now)
  <2> DEFINE x == r[i]
             y == r2[i]
             id == x.remote_sequence
  <2>1. ReplicaRead(x, N, s, k, S, old, now) /\ RefValid(x) BY <1>4, <1>6, <1>9
  <2>2. /\ y.remote_sequence = id /\ y.value = x.value
        /\ y.last_recved_sequence = x.last_recved_sequence
        /\ y.state = IF x.last_recved_sequence # now THEN "pending_remove" ELSE x.state
    BY <1>6, <2>1
  <2> HIDE DEF x, y
  <2>3. y.state = "pending_remove" => \E b \in C : ~Names(S, b, id)
    <3> SUFFICES ASSUME y.state = "pending_remove" PROVE \E b \in C : ~Names(S, b, id)
      OBVIOUS
    <3>1. CASE x.last_recved_sequence # now
      <4>1. ~ShownIn(cur, N, id) BY <2>1, <3>1 DEF ReplicaRead
      <4>2. ~Names(S, k, id) /\ k \in C BY <1>7, <4>1
      <4>3. QED BY <4>2
    <3>2. CASE x.last_recved_sequence = now
      <4>1. x.state = "pending_remove" BY <2>2, <3>2
      <4>2. QED BY <2>1, <4>1 DEF ReplicaRead
    <3>3. QED BY <3>1, <3>2
  <2>4. Fits(S, acc, k, id, y.value)
    <3>1. CASE Names(S, k, id) BY <1>7, <2>1, <2>2, <3>1 DEF ReplicaRead
    <3>2. CASE ~Names(S, k, id)
      <4>1. \A u : ~Carries(S, k, id, u)
        <5> SUFFICES ASSUME NEW u, Carries(S, k, id, u) PROVE FALSE OBVIOUS
        <5>1. PICK j \in DOMAIN S[k + 1] : S[k + 1][j] = [id |-> id, value |-> u]
          BY DEF Carries
        <5>2. S[k + 1][j].id = id BY <5>1
        <5>3. QED BY <3>2, <5>1, <5>2 DEF Names
      <4>2. QED BY <4>1 DEF Fits
    <3>3. QED BY <3>1, <3>2
  <2>5. y.state = "valid" => x.last_recved_sequence = now BY <2>2
  <2>6. /\ id \in Ids /\ x.last_recved_sequence <= now
        /\ x.last_recved_sequence = now => Named(S, C, id)
        /\ Named(S, old \cup C, id)
    BY <2>1 DEF ReplicaRead
  <2>7. k # -1 BY <1>2
  <2>8. ReplicaKept(y, to, S, old, now)
    BY <1>3, <2>2, <2>3, <2>4, <2>5, <2>6, <2>7 DEF ReplicaKept
  <2>9. QED BY <2>8 DEF y
<1>10. ASSUME NEW m \in 1 .. N
       PROVE  Present(r2, t.orphans, C, S, cur[m].id)
  <2> DEFINE id == cur[m].id
  <2>1. CASE id \in t.orphans BY <2>1 DEF Present
  <2>2. CASE \E i \in RefSlots : RefValid(r[i]) /\ r[i].remote_sequence = id
    <3>1. PICK i \in RefSlots : RefValid(r[i]) /\ r[i].remote_sequence = id BY <2>2
    <3>2. ShownIn(cur, N, id) BY DEF ShownIn
    <3>3. ReplicaRead(r[i], N, s, k, S, old, now) BY <1>4, <3>1
    <3>4. r[i].last_recved_sequence = now BY <3>1, <3>2, <3>3 DEF ReplicaRead
    <3>5. r2[i].state = r[i].state /\ r2[i].remote_sequence = id BY <1>6, <3>1, <3>4
    <3>6. CASE r[i].state = "valid" BY <3>5, <3>6 DEF Present
    <3>7. CASE r[i].state # "valid"
      <4>1. r[i].state = "pending_remove" BY <1>5, <3>1, <3>7 DEF RefValid, Replica
      <4>2. \E b \in s.batch : ~Names(S, b, id) BY <3>1, <3>3, <4>1 DEF ReplicaRead
      <4>3. QED BY <4>2 DEF Present
    <3>8. QED BY <3>6, <3>7
  <2>3. QED BY <1>4, <2>1, <2>2
<1>11. Kept(to, S, old, now)
  <2>1. k # -1 BY <1>2
  <2>2. QED BY <1>3, <1>4, <1>8, <1>9, <1>10, <2>1 DEF Kept
<1>12. QED BY <1>3, <1>11 DEF to

-----------------------------------------------------------------------------
(* The replicas of peer p.  S are the snapshots of the other peer.         *)

ReplicaHeld(p, S, x) ==
  /\ x.remote_sequence \in Ids /\ x.last_recved_sequence < sequence[p]
  /\ Named(S, batch[p], x.remote_sequence)
  /\ incoming_sequence[p] # -1
  /\ Fits(S, accepted[p], incoming_sequence[p], x.remote_sequence, x.value)

Held(p, S) ==
  /\ Singles(replicas[p])
  /\ \A i \in RefSlots : replicas[p][i].state = "valid" => ReplicaHeld(p, S, replicas[p][i])
  /\ orphans[p] # {} => Crowded(S, batch[p] \cup previous[p])
  /\ batch[p] \subseteq accepted[p] /\ previous[p] \subseteq accepted[p]
  /\ incoming_sequence[p] # -1 =>
       \A m \in 1 .. Len(S[incoming_sequence[p] + 1]) :
         Present(replicas[p], orphans[p], batch[p], S, S[incoming_sequence[p] + 1][m].id)

ReplicaInv == \A p \in Peers : Held(p, sent[Other(p)])

(* What an update finds when it begins, and has after each packet. *)
Found(p, s, S) ==
  /\ HeardOf(s.incoming_sequence, s.accepted, Len(S))
  /\ accepted[p] \subseteq s.accepted /\ s.batch \subseteq s.accepted
  /\ Kept(s, S, batch[p], sequence[p])
  /\ s.batch = {} => s = Start(p)

LEMMA UpdatedIs ==
  ASSUME Typed, NEW p \in Peers, NEW i \in RefSlots
  PROVE  LET x == replicas[p][i]
             y == EcsUpdated(replicas[p])[i]
         IN /\ y.remote_sequence = x.remote_sequence /\ y.value = x.value
            /\ y.last_recved_sequence = x.last_recved_sequence
            /\ RefValid(y) => y.state = "valid"
            /\ y.state = "valid" <=> x.state = "valid"
<1> DEFINE r == replicas[p]
<1>1. r[i] \in Replica BY DEF Typed, ReaderTyped
<1>2. EcsUpdated(r)[i] = IF r[i].state = "pending_remove"
                         THEN [r[i] EXCEPT !.state = "invalid"] ELSE r[i]
  BY DEF EcsUpdated
<1> HIDE DEF r
<1>3. QED BY <1>1, <1>2 DEF Replica, RefValid, r

LEMMA StartFound ==
  ASSUME Typed, AckInv, SentInv, NEW p \in Peers, Held(p, sent[Other(p)])
  PROVE  Found(p, Start(p), sent[Other(p)])
<1> DEFINE S == sent[Other(p)]
           s == Start(p)
           r == replicas[p]
           r2 == EcsUpdated(r)
<1>1. /\ s.replicas = r2 /\ s.orphans = {} /\ s.batch = {} /\ s.accepted = accepted[p]
      /\ s.incoming_sequence = incoming_sequence[p]
  BY DEF Start
<1>2. HeardOf(s.incoming_sequence, s.accepted, Len(S))
  BY <1>1, PeersPaired DEF AckInv, AckOk, SentInv, SentOk
<1>3. ASSUME NEW i \in RefSlots, RefValid(r2[i]) PROVE r[i].state = "valid" /\ r2[i].state = "valid"
  BY <1>3, UpdatedIs
<1>4. Singles(r2)
  <2> SUFFICES ASSUME NEW i \in RefSlots, NEW j \in RefSlots, RefValid(r2[i]),
                      r2[j].remote_sequence = r2[i].remote_sequence
               PROVE  i <= j
    BY DEF Singles
  <2>1. r2[i].remote_sequence = r[i].remote_sequence
        /\ r2[j].remote_sequence = r[j].remote_sequence
    BY UpdatedIs
  <2>2. RefValid(r[i])
    <3>1. r[i].state = "valid" BY <1>3
    <3>2. QED BY <3>1 DEF RefValid
  <2>3. QED BY <2>1, <2>2 DEF Held, Singles
<1>5. ASSUME NEW i \in RefSlots, RefValid(r2[i])
      PROVE  ReplicaKept(r2[i], s, S, batch[p], sequence[p])
  <2>1. ReplicaHeld(p, S, r[i]) BY <1>3, <1>5 DEF Held
  <2>2. /\ r2[i].remote_sequence = r[i].remote_sequence /\ r2[i].value = r[i].value
        /\ r2[i].last_recved_sequence = r[i].last_recved_sequence
        /\ r2[i].state = "valid"
    BY <1>3, <1>5, UpdatedIs
  <2>3. r[i].last_recved_sequence \in Nat /\ sequence[p] \in Nat
    BY DEF Typed, ReaderTyped, SenderTyped, Replica
  <2>4. r[i].last_recved_sequence <= sequence[p] /\ r[i].last_recved_sequence # sequence[p]
    BY <2>1, <2>3 DEF ReplicaHeld
  <2>5. batch[p] \cup s.batch = batch[p] BY <1>1
  <2> HIDE DEF r, r2, s
  <2>6. QED BY <1>1, <2>1, <2>2, <2>4, <2>5 DEF ReplicaHeld, ReplicaKept
<1> HIDE DEF s
<1>6. Kept(s, S, batch[p], sequence[p]) BY <1>1, <1>4, <1>5 DEF Kept
<1>7. QED BY <1>1, <1>2, <1>6 DEF Found, s

LEMMA PacketFound ==
  ASSUME Typed, AckInv, SentInv, NEW p \in Peers, NEW s \in Reader,
         Found(p, s, sent[Other(p)]), NEW k \in wire[p]
  PROVE  Found(p, RecvPacket(s, k, sequence[p]), sent[Other(p)])
<1> DEFINE o == Other(p)
           S == sent[o]
           now == sequence[p]
           to == RecvPacket(s, k, now)
<1>1. o \in Peers BY PeersPaired
<1>2. /\ k \in Packet /\ k.sequence \in Nat /\ now \in Nat /\ S \in Seq(Seq(Item))
      /\ Len(S) = sequence[o] /\ s.incoming_sequence \in Int /\ s.accepted \subseteq Nat
      /\ batch[p] \in SUBSET Nat
  BY <1>1 DEF Typed, SenderTyped, ReaderTyped, SentInv, SentOk, Packet, Reader
<1>3. CASE to = s BY <1>3
<1>4. CASE ~(k.sequence <= s.incoming_sequence) /\ to = Accept(s, k, now)
  <2>1. k.sequence < Len(S) /\ s.incoming_sequence < k.sequence
    BY <1>2, <1>4 DEF AckInv, AckOk, Genuine
  <2>2. OneValueEach(S[k.sequence + 1])
    <3>1. k.sequence + 1 \in 1 .. sequence[o]
      <4> DEFINE l == sequence[o]
                 j == k.sequence
      <4>1. l \in Nat /\ j \in Nat /\ j < l BY <1>1, <1>2, <2>1 DEF Typed, SenderTyped
      <4> HIDE DEF l, j
      <4>2. j + 1 \in 1 .. l BY <4>1
      <4>3. QED BY <4>2 DEF l, j
    <3>2. QED BY <1>1, <3>1 DEF SentInv, SentOk
  <2>3. Reads(s, k.sequence, S, batch[p], now) BY <1>2, <2>1, <2>2 DEF Reads, Found
  <2>4. Delivered(k, S, s.accepted) BY <1>2 DEF Delivered, SentInv, WireOk, Backed, Found
  <2>5. Kept(to, S, batch[p], now) /\ to.batch # {} BY <1>4, <2>3, <2>4, AcceptKeeps DEF Found
  <2>6. /\ to.incoming_sequence = k.sequence /\ to.accepted = s.accepted \cup {k.sequence}
        /\ to.batch = s.batch \cup {k.sequence}
    BY <1>2, <1>4, AcceptTyped
  <2>7. HeardOf(to.incoming_sequence, to.accepted, Len(S))
    <3>1. \A a \in s.accepted : a <= k.sequence /\ a < Len(S)
      BY <1>2, <2>1 DEF Found, HeardOf
    <3>2. QED BY <1>2, <2>1, <2>6, <3>1 DEF HeardOf
  <2>8. accepted[p] \subseteq to.accepted /\ to.batch \subseteq to.accepted
    BY <2>6 DEF Found
  <2>9. QED BY <2>5, <2>7, <2>8 DEF Found
<1>5. QED BY <1>2, <1>3, <1>4, RecvTyped

LEMMA ReceivedFound ==
  ASSUME Typed, AckInv, SentInv, ReplicaInv, NEW p \in Peers, NEW recv_queue \in Arrivals(p)
  PROVE  Found(p, Received(p, recv_queue), sent[Other(p)]) /\ Received(p, recv_queue) \in Reader
<1> DEFINE S == sent[Other(p)]
           Good == {s \in Reader : Found(p, s, S)}
<1>1. Start(p) \in Good BY StartTyped, StartFound DEF ReplicaInv
<1>2. ASSUME NEW s \in Good, NEW k \in wire[p]
      PROVE  RecvPacket(s, k, sequence[p]) \in Good
  <2>1. Found(p, RecvPacket(s, k, sequence[p]), S) BY PacketFound
  <2>2. k \in Packet /\ sequence[p] \in Nat BY DEF Typed, SenderTyped
  <2>3. RecvPacket(s, k, sequence[p]) \in Reader BY <2>2, RecvTyped, AcceptTyped
  <2>4. QED BY <2>1, <2>3
<1>3. Received(p, recv_queue) \in Good
  <2> HIDE DEF Good
  <2>1. QED BY <1>1, <1>2, ReceivedIn
<1>4. QED BY <1>3


(* The sender's next snapshot changes nothing for what has arrived. *)
LEMMA HeldExtends ==
  ASSUME NEW p \in Peers, NEW S \in Seq(Seq(Item)), NEW T \in Seq(Seq(Item)), Extends(S, T),
         accepted[p] \subseteq Nat, HeardOf(incoming_sequence[p], accepted[p], Len(S)),
         Held(p, S)
  PROVE  Held(p, T)
<1> DEFINE acc == accepted[p]
           inc == incoming_sequence[p]
<1>1. \A a \in acc : a \in Nat /\ a < Len(S) BY DEF HeardOf
<1>2. \A a \in acc : \A id : Names(T, a, id) <=> Names(S, a, id) BY <1>1, SentStays
<1>3. \A a \in acc : \A id, v : Carries(T, a, id, v) <=> Carries(S, a, id, v) BY <1>1, SentStays
<1>4. inc # -1 => inc \in acc BY DEF HeardOf
<1>5. batch[p] \subseteq acc /\ previous[p] \subseteq acc BY DEF Held
<1>6. \A id : Named(T, batch[p], id) <=> Named(S, batch[p], id) BY <1>2, <1>5 DEF Named
<1>7. \A id : Named(T, batch[p] \cup previous[p], id) <=> Named(S, batch[p] \cup previous[p], id)
  BY <1>2, <1>5 DEF Named
<1>8. Crowded(S, batch[p] \cup previous[p]) => Crowded(T, batch[p] \cup previous[p])
  <2>1. {id \in Ids : Named(S, batch[p] \cup previous[p], id)}
          = {id \in Ids : Named(T, batch[p] \cup previous[p], id)}
    BY <1>7
  <2>2. QED BY <2>1 DEF Crowded
<1>9. ASSUME NEW x, ReplicaHeld(p, S, x) PROVE ReplicaHeld(p, T, x)
  <2>1. inc \in acc /\ Fits(S, acc, inc, x.remote_sequence, x.value)
    BY <1>4, <1>9 DEF ReplicaHeld
  <2>2. ASSUME NEW u, Carries(T, inc, x.remote_sequence, u)
        PROVE  x.value = u \/ Excused(T, acc, inc, x.remote_sequence, u, x.value)
    <3>1. Carries(S, inc, x.remote_sequence, u) BY <1>3, <2>1, <2>2
    <3>2. x.value = u \/ Excused(S, acc, inc, x.remote_sequence, u, x.value)
      BY <2>1, <3>1 DEF Fits
    <3>3. QED BY <1>3, <3>2 DEF Excused
  <2>3. Fits(T, acc, inc, x.remote_sequence, x.value) BY <2>2 DEF Fits
  <2>4. QED BY <1>6, <1>9, <2>3 DEF ReplicaHeld
<1>10. ASSUME inc # -1
       PROVE  \A m \in 1 .. Len(T[inc + 1]) :
                Present(replicas[p], orphans[p], batch[p], T, T[inc + 1][m].id)
  <2>1. inc \in acc BY <1>4, <1>10
  <2>2. T[inc + 1] = S[inc + 1] BY <1>1, <2>1 DEF Extends
  <2>3. \A m \in 1 .. Len(S[inc + 1]) :
          Present(replicas[p], orphans[p], batch[p], S, S[inc + 1][m].id)
    BY <1>10 DEF Held
  <2>4. \A id : Present(replicas[p], orphans[p], batch[p], S, id)
                  => Present(replicas[p], orphans[p], batch[p], T, id)
    BY <1>2, <1>5 DEF Present
  <2>5. QED BY <2>2, <2>3, <2>4
<1>11. QED BY <1>8, <1>9, <1>10 DEF Held

LEMMA FrameHeld ==
  ASSUME Typed, AckInv, SentInv, ReplicaInv, NEW p \in Peers, NEW recv_queue \in Arrivals(p),
         Frame(p, recv_queue)
  PROVE  ReplicaInv'
<1> DEFINE o == Other(p)
           s == Received(p, recv_queue)
           S == sent[o]
           now == sequence[p]
<1>1. Moved(p, s) BY FrameMoves
<1>2. /\ o \in Peers /\ o # p /\ Other(o) = p /\ Other(p) = o
      /\ \A q \in Peers : q = p \/ q = o
  BY PeersPaired
<1>3. Found(p, s, S) /\ s \in Reader BY ReceivedFound
<1>4. Held(p, S) /\ Held(o, sent[p]) BY <1>2 DEF ReplicaInv
<1>5. /\ sent'[p] \in Seq(Seq(Item)) /\ Extends(sent[p], sent'[p]) /\ sent'[o] = S
  BY FrameSent
<1>6. Between(p, o, s) BY <1>1, FrameBoth
<1> HIDE DEF s
<1>7. /\ replicas'[p] = s.replicas /\ replicas'[o] = replicas[o]
      /\ batch'[o] = batch[o] /\ previous'[o] = previous[o] /\ orphans'[o] = orphans[o]
      /\ s.batch = {} => /\ batch'[p] = batch[p] /\ previous'[p] = previous[p]
                         /\ orphans'[p] = orphans[p]
      /\ s.batch # {} => /\ batch'[p] = s.batch /\ previous'[p] = batch[p]
                         /\ orphans'[p] = s.orphans
  <2> HIDE DEF o
  <2>1. replicas'[p] = s.replicas /\ replicas'[o] = replicas[o]
    BY <1>1, <1>2 DEF Moved, Typed, ReaderTyped
  <2>2. CASE s.batch = {} BY <1>1, <2>1, <2>2 DEF Moved
  <2>3. CASE s.batch # {} BY <1>1, <1>2, <2>1, <2>3 DEF Moved, Typed, ReaderTyped
  <2>4. QED BY <2>2, <2>3
<1>8. Held(o, sent[p])'
  <2>1. /\ accepted[o] \subseteq Nat /\ sent[p] \in Seq(Seq(Item))
        /\ HeardOf(incoming_sequence[o], accepted[o], Len(sent[p]))
    BY <1>2 DEF Typed, ReaderTyped, SenderTyped, AckInv, AckOk, SentInv, SentOk
  <2> DEFINE T == sent'[p]
  <2>2. Held(o, T)
    <3> HIDE DEF o, T
    <3>1. T \in Seq(Seq(Item)) /\ Extends(sent[p], T) BY <1>5 DEF T
    <3>2. QED BY <1>2, <1>4, <2>1, <3>1, HeldExtends
  <2>3. sequence'[o] = sequence[o] /\ accepted'[o] = accepted[o]
        /\ incoming_sequence'[o] = incoming_sequence[o]
    BY <1>6 DEF Between
  <2>4. QED BY <1>7, <2>2, <2>3 DEF Held, ReplicaHeld
<1>9. Held(p, S)'
  <2>1. /\ sequence'[p] = now + 1 /\ accepted'[p] = s.accepted
        /\ incoming_sequence'[p] = s.incoming_sequence /\ now \in Nat
    BY <1>6 DEF Between, Typed, SenderTyped
  <2>2. Kept(s, S, batch[p], now) /\ s.replicas \in [RefSlots -> Replica]
    BY <1>3 DEF Found, Reader
  <2>3. Singles(s.replicas) BY <2>2 DEF Kept
  <2>4. CASE s.batch = {}
    <3>1. /\ s.replicas = EcsUpdated(replicas[p]) /\ s.accepted = accepted[p]
          /\ s.incoming_sequence = incoming_sequence[p]
      BY <1>3, <2>4 DEF Found, Start
    <3>2. ASSUME NEW i \in RefSlots, s.replicas[i].state = "valid"
          PROVE  /\ s.replicas[i].remote_sequence \in Ids
                 /\ s.replicas[i].last_recved_sequence < now + 1
                 /\ Named(S, batch[p], s.replicas[i].remote_sequence)
                 /\ s.incoming_sequence # -1
                 /\ Fits(S, s.accepted, s.incoming_sequence, s.replicas[i].remote_sequence,
                         s.replicas[i].value)
      <4>1. /\ replicas[p][i].state = "valid"
            /\ s.replicas[i].remote_sequence = replicas[p][i].remote_sequence
            /\ s.replicas[i].value = replicas[p][i].value
            /\ s.replicas[i].last_recved_sequence = replicas[p][i].last_recved_sequence
        BY <3>1, <3>2, UpdatedIs
      <4>2. ReplicaHeld(p, S, replicas[p][i]) BY <1>4, <4>1 DEF Held
      <4>3. replicas[p][i].last_recved_sequence \in Nat
        BY DEF Typed, ReaderTyped, Replica
      <4>4. replicas[p][i].last_recved_sequence < now + 1
        BY <2>1, <4>2, <4>3 DEF ReplicaHeld
      <4>5. QED BY <3>1, <4>1, <4>2, <4>4 DEF ReplicaHeld
    <3>3. \A id : Present(replicas[p], orphans[p], batch[p], S, id)
                    => Present(s.replicas, orphans[p], batch[p], S, id)
      <4>1. \A i \in RefSlots : replicas[p][i].state = "valid" =>
              /\ s.replicas[i].state = "valid"
              /\ s.replicas[i].remote_sequence = replicas[p][i].remote_sequence
        BY <3>1, UpdatedIs
      <4>2. QED BY <4>1 DEF Present
    <3>4. QED BY <1>4, <1>5, <1>7, <2>1, <2>3, <2>4, <3>1, <3>2, <3>3 DEF Held, ReplicaHeld
  <2>5. CASE s.batch # {}
    <3>1. /\ s.batch \subseteq s.accepted /\ batch[p] \subseteq s.accepted
      BY <1>3, <1>4 DEF Found, Held
    <3>2. s.orphans # {} => Crowded(S, s.batch \cup batch[p])
      <4>1. s.batch \cup batch[p] = batch[p] \cup s.batch OBVIOUS
      <4>2. QED BY <2>2, <4>1 DEF Kept
    <3>3. ASSUME NEW i \in RefSlots, s.replicas[i].state = "valid"
          PROVE  /\ s.replicas[i].remote_sequence \in Ids
                 /\ s.replicas[i].last_recved_sequence < now + 1
                 /\ Named(S, s.batch, s.replicas[i].remote_sequence)
                 /\ s.incoming_sequence # -1
                 /\ Fits(S, s.accepted, s.incoming_sequence, s.replicas[i].remote_sequence,
                         s.replicas[i].value)
      <4>1. ReplicaKept(s.replicas[i], s, S, batch[p], now) BY <2>2, <3>3 DEF Kept, RefValid
      <4>2. s.replicas[i].last_recved_sequence \in Nat BY <2>2 DEF Replica
      <4>3. s.replicas[i].last_recved_sequence < now + 1
        BY <2>1, <4>1, <4>2 DEF ReplicaKept
      <4>4. QED BY <2>5, <3>3, <4>1, <4>3 DEF ReplicaKept
    <3>4. \A m \in 1 .. Len(S[s.incoming_sequence + 1]) :
            Present(s.replicas, s.orphans, s.batch, S, S[s.incoming_sequence + 1][m].id)
      BY <2>2, <2>5 DEF Kept
    <3>5. QED BY <1>5, <1>7, <2>1, <2>3, <2>5, <3>1, <3>2, <3>3, <3>4 DEF Held, ReplicaHeld
  <2>6. QED BY <2>4, <2>5
<1>10. QED BY <1>2, <1>5, <1>8, <1>9 DEF ReplicaInv

LEMMA InitHeld == Init => ReplicaInv
<1> SUFFICES ASSUME Init, NEW p \in Peers PROVE Held(p, sent[Other(p)]) BY DEF ReplicaInv
<1>1. \A i \in RefSlots : replicas[p][i].state = "invalid"
  BY DEF Init, FreeReplica
<1>2. QED BY <1>1 DEF Init, Held, Singles, RefValid

LEMMA NextHeld ==
  Typed /\ AckInv /\ SentInv /\ ReplicaInv /\ [Next]_vars => ReplicaInv'
<1> SUFFICES ASSUME Typed, AckInv, SentInv, ReplicaInv, [Next]_vars PROVE ReplicaInv'
  OBVIOUS
<1>1. CASE Next BY <1>1, FrameHeld DEF Next
<1>2. CASE UNCHANGED vars
  BY <1>2 DEF vars, headers, history, ReplicaInv, Held, ReplicaHeld
<1>3. QED BY <1>1, <1>2

LEMMA ReplicasHold == Spec => [](Typed /\ AckInv /\ SentInv /\ ReplicaInv)
BY InitAcks, NextAcks, InitSent, NextSent, InitHeld, NextHeld, PTL DEF Spec

-----------------------------------------------------------------------------
LEMMA PropertyTerms ==
  ASSUME NEW p \in Peers
  PROVE  /\ \A b, id : InSnapshot(p, b, id) <=> Names(sent[Other(p)], b, id)
         /\ \A b, id, v : Has(p, b, id, v) <=> Carries(sent[Other(p)], b, id, v)
BY DEF InSnapshot, Has, Names, Carries

(* For tables, queues, rings and snapshots of any size, and whatever the   *)
(* network does: a replica has the value of the last snapshot accepted,    *)
(* but for entities back at an earlier value of theirs.                    *)
(* (net.c:459-465, 490, 567)                                               *)
THEOREM ReplicasMatch == Spec => []ReplicaMatchesSnapshot
<1>1. Typed /\ AckInv /\ SentInv /\ ReplicaInv => ReplicaMatchesSnapshot
  <2> SUFFICES ASSUME Typed, AckInv, SentInv, ReplicaInv, NEW p \in Peers,
                      incoming_sequence[p] # -1, NEW k \in DOMAIN Latest(p),
                      NEW i \in ReplicasOf(p, Latest(p)[k].id)
               PROVE  \/ replicas[p][i].value = Latest(p)[k].value
                      \/ LeftOut(p, i, Latest(p)[k].id, Latest(p)[k].value)
    BY DEF ReplicaMatchesSnapshot
  <2> DEFINE S == sent[Other(p)]
             inc == incoming_sequence[p]
             id == Latest(p)[k].id
             u == Latest(p)[k].value
  <2>1. i \in RefSlots /\ replicas[p][i].state = "valid" /\ replicas[p][i].remote_sequence = id
    BY DEF ReplicasOf
  <2>2. Held(p, S) /\ AckOk(p, Other(p)) /\ Other(p) \in Peers
    BY PeersPaired DEF ReplicaInv, AckInv
  <2>3. Fits(S, accepted[p], inc, id, replicas[p][i].value) BY <2>1, <2>2 DEF Held, ReplicaHeld
  <2>4. inc \in Nat /\ inc < Len(S) /\ S \in Seq(Seq(Item))
    <3>1. inc \in accepted[p] /\ inc < sequence[Other(p)] BY <2>2 DEF AckOk, HeardOf
    <3>2. QED BY <2>2, <3>1 DEF Typed, ReaderTyped, SenderTyped, SentInv, SentOk
  <2>5. Carries(S, inc, id, u)
    <3>1. Latest(p) = S[inc + 1] BY DEF Latest
    <3>2. /\ DOMAIN S[inc + 1] = 1 .. Len(S[inc + 1])
          /\ \A m \in 1 .. Len(S[inc + 1]) :
               S[inc + 1][m] = [id |-> S[inc + 1][m].id, value |-> S[inc + 1][m].value]
      BY <2>4, ItemsOf
    <3>3. k \in DOMAIN S[inc + 1] BY <3>1
    <3>4. QED BY <3>1, <3>2, <3>3 DEF Carries
  <2>6. replicas[p][i].value = u \/ Excused(S, accepted[p], inc, id, u, replicas[p][i].value)
    BY <2>3, <2>5 DEF Fits
  <2>7. QED BY <2>6, PropertyTerms DEF Excused, LeftOut
<1>2. QED BY <1>1, ReplicasHold, PTL

(* Under the same conditions no entity has two replicas, and one without   *)
(* a replica was missing from a packet of the same update, or had no slot, *)
(* which takes more entities than there are slots.  (net.c:536-564)        *)
THEOREM ReplicasAreSingle == Spec => []OneReplicaEach
<1>1. Typed /\ AckInv /\ SentInv /\ ReplicaInv => OneReplicaEach
  <2> SUFFICES ASSUME Typed, AckInv, SentInv, ReplicaInv, NEW p \in Peers
               PROVE  /\ \A id \in Ids : Cardinality(ReplicasOf(p, id)) <= 1
                      /\ incoming_sequence[p] # -1 =>
                           \A k \in DOMAIN Latest(p) :
                             \/ ReplicasOf(p, Latest(p)[k].id) # {}
                             \/ Latest(p)[k].id \in orphans[p]
                             \/ \E b \in batch[p] : ~InSnapshot(p, b, Latest(p)[k].id)
                      /\ orphans[p] # {} => Cardinality(Met(p)) > ReplicaSlots
    BY DEF OneReplicaEach
  <2> DEFINE S == sent[Other(p)]
             inc == incoming_sequence[p]
  <2>1. Held(p, S) /\ AckOk(p, Other(p)) /\ Other(p) \in Peers
    BY PeersPaired DEF ReplicaInv, AckInv
  <2>2. ASSUME NEW id \in Ids PROVE Cardinality(ReplicasOf(p, id)) <= 1
    <3> DEFINE R == ReplicasOf(p, id)
    <3>1. \A i, j \in R : i = j
      <4> SUFFICES ASSUME NEW i \in R, NEW j \in R PROVE i = j OBVIOUS
      <4>1. i <= j /\ j <= i BY <2>1 DEF ReplicasOf, Held, Singles, RefValid
      <4>2. i \in Int /\ j \in Int BY SizesAssumption DEF ReplicasOf, RefSlots
      <4>3. QED BY <4>1, <4>2
    <3> HIDE DEF R
    <3>2. CASE R = {}
      <4>1. Cardinality(R) = 0 BY <3>2, FS_EmptySet
      <4>2. QED BY <4>1 DEF R
    <3>3. CASE R # {}
      <4>1. PICK i : R = {i} BY <3>1, <3>3
      <4>2. Cardinality(R) = 1 BY <4>1, FS_Singleton
      <4>3. QED BY <4>2 DEF R
    <3>4. QED BY <3>2, <3>3
  <2>3. ASSUME inc # -1, NEW k \in DOMAIN Latest(p)
        PROVE  \/ ReplicasOf(p, Latest(p)[k].id) # {}
               \/ Latest(p)[k].id \in orphans[p]
               \/ \E b \in batch[p] : ~InSnapshot(p, b, Latest(p)[k].id)
    <3>1. inc \in Nat /\ inc < Len(S) /\ S \in Seq(Seq(Item))
      <4>1. inc \in accepted[p] /\ inc < sequence[Other(p)]
        BY <2>1, <2>3 DEF AckOk, HeardOf
      <4>2. QED BY <2>1, <4>1 DEF Typed, ReaderTyped, SenderTyped, SentInv, SentOk
    <3>2. Latest(p) = S[inc + 1] BY DEF Latest
    <3>3. k \in 1 .. Len(S[inc + 1]) BY <3>1, <3>2, ItemsOf
    <3>4. Present(replicas[p], orphans[p], batch[p], S, Latest(p)[k].id)
      BY <2>1, <2>3, <3>2, <3>3 DEF Held
    <3>5. QED BY <3>4, PropertyTerms DEF Present, ReplicasOf
  <2>4. ASSUME orphans[p] # {} PROVE Cardinality(Met(p)) > ReplicaSlots
    <3>1. Met(p) = {id \in Ids : Named(S, batch[p] \cup previous[p], id)}
      BY PropertyTerms DEF Met, Named
    <3>2. QED BY <2>1, <2>4, <3>1 DEF Held, Crowded
  <2>5. QED BY <2>2, <2>3, <2>4
<1>2. QED BY <1>1, ReplicasHold, PTL

(* Under the same conditions a replica stays only of an entity that one of *)
(* the packets accepted together named.  (net.c:584-594)                   *)
THEOREM ReplicasAreOfNamed == Spec => []ReplicasWereNamed
<1>1. ReplicaInv => ReplicasWereNamed
  <2> SUFFICES ASSUME ReplicaInv, NEW p \in Peers, NEW id \in Ids, ReplicasOf(p, id) # {}
               PROVE  \E b \in batch[p] : InSnapshot(p, b, id)
    BY DEF ReplicasWereNamed
  <2>1. Held(p, sent[Other(p)]) BY DEF ReplicaInv
  <2>2. PICK i \in RefSlots : replicas[p][i].state = "valid"
                              /\ replicas[p][i].remote_sequence = id
    BY DEF ReplicasOf
  <2>3. Named(sent[Other(p)], batch[p], id) BY <2>1, <2>2 DEF Held, ReplicaHeld
  <2>4. QED BY <2>3, PropertyTerms DEF Named
<1>2. QED BY <1>1, ReplicasHold, PTL

=============================================================================
