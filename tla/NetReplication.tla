--------------------------- MODULE NetReplication ---------------------------
(***************************************************************************)
(* The replication half of net.c: two connected peers exchange one packet  *)
(* per net_update.  A packet carries a snapshot of the sender's registered *)
(* entities, each with its data only if that differs from the snapshot the *)
(* other peer acknowledged, and the sequence number of the last packet     *)
(* accepted.  UDP may lose, delay, reorder and duplicate packets.          *)
(*                                                                         *)
(* net_update is one step of a peer's main thread.  The receive thread     *)
(* only pushes into recv_queue, which nothing but net_update looks at, and *)
(* goes on pushing while net_update empties it: the step chooses what is   *)
(* read.  All entities are of one type.                                    *)
(***************************************************************************)
EXTENDS Integers, Sequences, FiniteSets

CONSTANTS Peers,          \* the two peers
          Owners,         \* those that register entities
          Ids,            \* sequence numbers of the entities registered
          Slots,          \* k_max_entities of net_t (32 in the code)
          ReplicaSlots,   \* k_max_entities of connection_t (32 in the code)
          Room,           \* entities that fit into the bytes of a snapshot
          Ring,           \* k_max_snapshots (256 in the code)
          MaxReads,       \* bound: packets each peer reads in one update
          Values,         \* of the replicated data
          Initial,        \* the one each entity has at first: as values of different
                          \* entities are never compared, which one it is is free
          MaxUpdates,     \* bound: updates of each peer
          MaxEvents       \* bound: events in one frame: an entity goes, one
                          \* changes, some are registered

ASSUME PeersAssumption == /\ IsFiniteSet(Peers) /\ Cardinality(Peers) = 2
                          /\ Owners \subseteq Peers
ASSUME SizesAssumption == /\ Ids \subseteq Nat \ {0} /\ IsFiniteSet(Ids)
                          /\ Slots \in Nat \ {0} /\ ReplicaSlots \in Nat \ {0}
                          /\ Room \in Nat /\ Ring \in Nat \ {0}
                          /\ Values \subseteq Nat /\ Initial \in Values
ASSUME BoundsAssumption == /\ MaxReads \in [Peers -> Nat] /\ MaxEvents \in Nat
                           /\ MaxUpdates \in [Peers -> Nat]

VARIABLES entities,      \* net_t.entities: the entity in each slot, 0 if none
          alive,         \* the ECS: entities that exist
          component,     \* and their replicated data
          sequence,      \* net_t.sequence
          snapshots,     \* net_t.snapshots, the ring
          incoming_sequence, ack_sequence,   \* of the connection
          replicas,      \* connection_t.entities
          wire,          \* every packet sent to each peer
          sent,          \* history: every snapshot taken
          accepted,      \* history: sequence numbers of the packets accepted
          batch,         \* history: those accepted in the last update that accepted any
          previous,      \* history: those accepted in the one before
          orphans        \* history: entities the last one created and lost track of

source  == <<entities, alive, component>>
headers == <<sequence, incoming_sequence, ack_sequence>>
history == <<sent, accepted, batch, previous, orphans>>
vars == <<source, headers, snapshots, replicas, wire, history>>

Other(p) == CHOOSE q \in Peers : q # p
EntitySlots == 0 .. Slots - 1
RefSlots    == 0 .. ReplicaSlots - 1
Smallest(S) == CHOOSE i \in S : \A j \in S : i <= j
Unset == -1

FreeReplica == [state |-> "invalid", remote_sequence |-> 0, value |-> Unset,
                last_recved_sequence |-> 0]

Init == /\ entities = [p \in Peers |-> [i \in EntitySlots |-> 0]]
        /\ alive = [p \in Peers |-> {}]
        /\ component = [p \in Peers |-> [e \in Ids |-> Unset]]
        /\ sequence = [p \in Peers |-> 0]
        /\ snapshots = [p \in Peers |->
             [i \in 0 .. Ring - 1 |-> [sequence |-> 0, data |-> <<>>]]]
        /\ incoming_sequence = [p \in Peers |-> -1]
        /\ ack_sequence = [p \in Peers |-> -1]
        /\ replicas = [p \in Peers |-> [i \in RefSlots |-> FreeReplica]]
        /\ wire = [p \in Peers |-> {}]
        /\ sent = [p \in Peers |-> <<>>]
        /\ accepted = [p \in Peers |-> {}]
        /\ batch = [p \in Peers |-> {}]
        /\ previous = [p \in Peers |-> {}]
        /\ orphans = [p \in Peers |-> {}]

-----------------------------------------------------------------------------
(* The game's side of a frame: entities go, others (the domain of to) get  *)
(* new data, and new ones are registered, each in the first slot whose     *)
(* entity is not valid.  New ones have the next numbers.                   *)

Rank(S, n) == Cardinality({m \in S : m <= n})

Game(p, gone, to, new) ==
  LET stay == alive[p] \ gone
      free == {i \in EntitySlots : entities[p][i] \notin stay}
      For(i) == {e \in new : i \in free /\ Rank(free, i) = Rank(new, e)}
  IN /\ Cardinality(gone \cup DOMAIN to) + (IF new = {} THEN 0 ELSE 1) <= MaxEvents
     /\ \A e \in DOMAIN to : to[e] # component[p][e]
     /\ new # {} => p \in Owners /\ Cardinality(new) <= Cardinality(free)
     /\ alive' = [alive EXCEPT ![p] = stay \cup new]
     /\ entities' = [entities EXCEPT ![p] =
          [i \in EntitySlots |-> IF For(i) = {} THEN @[i] ELSE Smallest(For(i))]]
     /\ component' = [component EXCEPT ![p] =
          [e \in Ids |-> CASE e \in new       -> Initial
                          [] e \in DOMAIN to -> to[e]
                          [] OTHER           -> @[e]]]
     /\ \A e \in new, d \in Ids : /\ d >= e => component[p][d] = Unset
                                  /\ d < e => component'[p][d] # Unset

-----------------------------------------------------------------------------
(* snapshot_entities, after the game's side of the frame: the entities     *)
(* before the first slot that is not valid, as many as there is room for.  *)

SnapshotData(p) ==
  LET slots == entities'[p]
      invalid == {i \in EntitySlots : slots[i] \notin alive'[p]}
      n == Smallest({Slots, Room} \cup invalid)
  IN [k \in 1 .. n |-> [id |-> slots[k - 1], value |-> component'[p][slots[k - 1]]]]

SnapshotEntities(p) ==
  [snapshots[p] EXCEPT ![sequence[p] % Ring] =
     [sequence |-> sequence[p], data |-> SnapshotData(p)]]

(* FAULT: what is in the place of the acknowledged snapshot is taken for it. *)
AckedDataUnchecked(p) ==
  IF ack_sequence[p] # -1 THEN SnapshotEntities(p)[ack_sequence[p] % Ring].data ELSE <<>>

(* The snapshot acknowledged, unless its place in the ring has been taken, *)
(* by the current one at the latest.  With ack_sequence still -1 the code  *)
(* looks at the last place (size_t), and no snapshot has the sequence -1.  *)
AckedData(p) ==
  LET ack == ack_sequence[p]
      snapshot == SnapshotEntities(p)[ack % Ring]
  IN IF ack # -1 /\ snapshot.sequence = ack THEN snapshot.data ELSE <<>>

(* packet_add_entities.  Seen[n]: how far the acknowledged snapshot has    *)
(* been walked before the n-th entity of the current one.                  *)
AddEntities(cur, ack) ==
  LET Same(n, k) == k <= Len(ack) /\ ack[k].id = cur[n].id
      Seen[n \in 1 .. Len(cur) + 1] ==
        IF n = 1 THEN 1
        ELSE IF Same(n - 1, Seen[n - 1]) THEN Seen[n - 1] + 1 ELSE Seen[n - 1]
  IN [n \in 1 .. Len(cur) |->
        LET diff == ~(Same(n, Seen[n]) /\ ack[Seen[n]].value = cur[n].value)
        IN [id |-> cur[n].id, diff |-> diff,
            value |-> IF diff THEN cur[n].value ELSE Unset]]

-----------------------------------------------------------------------------
(* packet_read_entities, one entity of the packet.  now is the receiver's  *)
(* own sequence number; a new replica for which there is no slot stays in  *)
(* the ECS unknown to the connection.                                      *)

RefValid(replica) == replica.state # "invalid"

(* FAULT: a new replica is not noted under the name its peer uses. *)
ReadEntityUnnamed(s, entity, now) ==
  LET free == {i \in RefSlots : ~RefValid(s.replicas[i])}
  IN IF free = {} THEN [s EXCEPT !.orphans = @ \cup {entity.id}]
     ELSE [s EXCEPT !.replicas[Smallest(free)] =
             [state |-> "valid", remote_sequence |-> 0, value |-> entity.value,
              last_recved_sequence |-> now]]

ReadEntity(s, entity, now) ==
  LET r == s.replicas
      id == entity.id
      known == {i \in RefSlots : r[i].remote_sequence = id}
      seen  == IF known = {} THEN r
               ELSE [r EXCEPT ![Smallest(known)].last_recved_sequence = now]
      free  == {i \in RefSlots : ~RefValid(seen[i])}
      data(old) == IF entity.diff THEN entity.value ELSE old
  IN IF known # {} /\ RefValid(r[Smallest(known)])
     THEN [s EXCEPT !.replicas = [seen EXCEPT ![Smallest(known)].value = data(@)]]
     ELSE IF free = {}
     THEN [s EXCEPT !.replicas = seen, !.orphans = @ \cup {id}]
     ELSE [s EXCEPT !.replicas = [seen EXCEPT ![Smallest(free)] =
             [state |-> "valid", remote_sequence |-> id, value |-> data(Unset),
              last_recved_sequence |-> now]]]

(* FAULT: the loop starts at the second slot. *)
RemoveUnseenButFirst(r, now) ==
  [i \in RefSlots |-> IF i > 0 /\ RefValid(r[i]) /\ r[i].last_recved_sequence # now
                      THEN [r[i] EXCEPT !.state = "pending_remove"] ELSE r[i]]

RemoveUnseen(r, now) ==
  [i \in RefSlots |-> IF RefValid(r[i]) /\ r[i].last_recved_sequence # now
                      THEN [r[i] EXCEPT !.state = "pending_remove"] ELSE r[i]]

Accept(s, packet, now) ==
  LET Read[n \in 0 .. Len(packet.entities)] ==
        IF n = 0 THEN s ELSE ReadEntity(Read[n - 1], packet.entities[n], now)
      done == Read[Len(packet.entities)]
  IN [done EXCEPT !.incoming_sequence = packet.sequence,
                  !.ack_sequence = packet.ack_sequence,
                  !.accepted = @ \cup {packet.sequence},
                  !.batch = @ \cup {packet.sequence},
                  !.replicas = RemoveUnseen(@, now)]

(* FAULT: every packet is taken, however old.                              *)
RecvPacketAnyAge(s, packet, now) == Accept(s, packet, now)

(* packet_recv, one packet: one that is not newer is skipped.              *)
RecvPacket(s, packet, now) ==
  IF packet.sequence <= s.incoming_sequence THEN s ELSE Accept(s, packet, now)

(* ecs_update, which comes before net_update in a frame.                   *)
EcsUpdated(r) == [i \in RefSlots |-> IF r[i].state = "pending_remove"
                                     THEN [r[i] EXCEPT !.state = "invalid"] ELSE r[i]]

Received(p, recv_queue) ==
  LET start == [replicas |-> EcsUpdated(replicas[p]), orphans |-> {}, batch |-> {},
                incoming_sequence |-> incoming_sequence[p],
                ack_sequence |-> ack_sequence[p], accepted |-> accepted[p]]
      Loop[n \in 0 .. Len(recv_queue)] ==
        IF n = 0 THEN start ELSE RecvPacket(Loop[n - 1], recv_queue[n], sequence[p])
  IN Loop[Len(recv_queue)]

(* What net_update can find in recv_queue: a packet sent may arrive at any *)
(* time, several times, or never; one that finds the queue full is dropped. *)
Arrivals(p) == UNION {[1 .. n -> wire[p]] : n \in 0 .. MaxReads[p]}

PacketSend(p) ==
  wire' = [wire EXCEPT ![Other(p)] = @ \cup
            {[sequence |-> sequence[p], ack_sequence |-> incoming_sequence[p],
              entities |-> AddEntities(SnapshotData(p), AckedData(p))]}]

PacketRecv(p, recv_queue) ==
  LET s == Received(p, recv_queue)
  IN /\ replicas' = [replicas EXCEPT ![p] = s.replicas]
     /\ incoming_sequence' = [incoming_sequence EXCEPT ![p] = s.incoming_sequence]
     /\ ack_sequence' = [ack_sequence EXCEPT ![p] = s.ack_sequence]
     /\ accepted' = [accepted EXCEPT ![p] = s.accepted]
     /\ IF s.batch = {} THEN UNCHANGED <<batch, previous, orphans>>
        ELSE /\ batch' = [batch EXCEPT ![p] = s.batch]
             /\ previous' = [previous EXCEPT ![p] = batch[p]]
             /\ orphans' = [orphans EXCEPT ![p] = s.orphans]

Update(p, recv_queue) ==
  /\ sequence[p] < MaxUpdates[p]
  /\ snapshots' = [snapshots EXCEPT ![p] = SnapshotEntities(p)]
  /\ PacketSend(p)
  /\ PacketRecv(p, recv_queue)
  /\ sequence' = [sequence EXCEPT ![p] = @ + 1]
  /\ sent' = [sent EXCEPT ![p] = Append(@, SnapshotData(p))]

-----------------------------------------------------------------------------
Frame(p, recv_queue) ==
  /\ \E gone \in SUBSET alive[p], new \in SUBSET (Ids \ alive[p]) :
       \E changed \in SUBSET (alive[p] \ gone) :
         \E to \in [changed -> Values] : Game(p, gone, to, new)
  /\ Update(p, recv_queue)

Next == \E p \in Peers : \E recv_queue \in Arrivals(p) : Frame(p, recv_queue)

Spec == Init /\ [][Next]_vars

-----------------------------------------------------------------------------
(* Only what the other peer accepted is taken for acknowledged, and an     *)
(* acknowledgement is never taken back by a packet that comes late, twice  *)
(* or out of order.  (net.c:611-618)                                       *)
AckedWasAccepted ==
  \A p \in Peers :
    /\ ack_sequence[p] # -1 => ack_sequence[p] \in accepted[Other(p)]
    /\ \A packet \in wire[p] :
         packet.sequence \in accepted[p] => packet.ack_sequence <= ack_sequence[p]

(* The snapshots the other peer sent peer p, and the last one accepted.    *)
Has(p, b, id, value) ==
  \E k \in DOMAIN sent[Other(p)][b + 1] :
    sent[Other(p)][b + 1][k] = [id |-> id, value |-> value]
InSnapshot(p, b, id) ==
  \E k \in DOMAIN sent[Other(p)][b + 1] : sent[Other(p)][b + 1][k].id = id
Latest(p) == sent[Other(p)][incoming_sequence[p] + 1]
ReplicasOf(p, id) == {i \in RefSlots : replicas[p][i].state = "valid"
                                       /\ replicas[p][i].remote_sequence = id}

(* A replica has the value of the last snapshot accepted, whatever packets *)
(* leave out and the ring no longer holds, with one exception: an entity   *)
(* that is back at the value of an earlier snapshot accepted, and for      *)
(* which that was enough to leave its data out.  The replica, if it is not *)
(* new, has then been shown another state in between.                      *)
(* (net.c:459-465, 490, 567)                                               *)
LeftOut(p, i, id, value) ==
  \E b \in accepted[p] :
    /\ b < incoming_sequence[p] /\ Has(p, b, id, value)
    /\ \/ replicas[p][i].value = Unset
       \/ \E l \in accepted[p] : b < l /\ l < incoming_sequence[p] /\ ~Has(p, l, id, value)

ReplicaMatchesSnapshot ==
  \A p \in Peers : incoming_sequence[p] # -1 =>
    \A k \in DOMAIN Latest(p) :
      LET id == Latest(p)[k].id
          value == Latest(p)[k].value
      IN \A i \in ReplicasOf(p, id) : replicas[p][i].value = value \/ LeftOut(p, i, id, value)

(* No entity has two replicas; every entity of the last snapshot has one,  *)
(* unless it was missing from a packet read in the same update, or there   *)
(* was no slot; and there is a slot unless two updates that accept packets *)
(* meet more entities than there are slots.  (net.c:536-564)               *)
Met(p) == {id \in Ids : \E b \in batch[p] \cup previous[p] : InSnapshot(p, b, id)}

OneReplicaEach ==
  \A p \in Peers :
    /\ \A id \in Ids : Cardinality(ReplicasOf(p, id)) <= 1
    /\ incoming_sequence[p] # -1 =>
         \A k \in DOMAIN Latest(p) :
           LET id == Latest(p)[k].id
           IN \/ ReplicasOf(p, id) # {}
              \/ id \in orphans[p]
              \/ \E b \in batch[p] : ~InSnapshot(p, b, id)
    /\ orphans[p] # {} => Cardinality(Met(p)) > ReplicaSlots

(* A replica stays only if one of the packets accepted together named its  *)
(* entity.  (net.c:584-594)                                                *)
ReplicasWereNamed ==
  \A p \in Peers, id \in Ids :
    ReplicasOf(p, id) # {} => \E b \in batch[p] : InSnapshot(p, b, id)

(* "Remove entities that we didn't see in the snapshot!" (net.c:584)       *)
UnseenRemoved ==
  \A p \in Peers, id \in Ids :
    ReplicasOf(p, id) # {} => InSnapshot(p, incoming_sequence[p], id)
=============================================================================
