----------------------------- MODULE EcsProofs -----------------------------
(***************************************************************************)
(* Proofs about Ecs for every size of the tables and any number of         *)
(* entities, with games saved and loaded at any time: sequence numbers     *)
(* stay unique, references keep their meaning, queries meet the frame,     *)
(* arrays are freed, and the table implements EntityLife.                  *)
(***************************************************************************)
EXTENDS Ecs, FiniteSetTheorems, WellFoundedInduction, TLAPS

-----------------------------------------------------------------------------
(* The scans of ecs.c over its slots and types stop at the first that      *)
(* fits: a nonempty set of naturals has a smallest element.                *)
LEMMA SmallestIn ==
  ASSUME NEW S \in SUBSET Nat, S # {}
  PROVE  Smallest(S) \in S /\ \A j \in S : Smallest(S) <= j
<1> DEFINE Below == {pair \in Nat \X Nat : pair[1] < pair[2]}
<1>1. Below = OpToRel(<, Nat) BY DEF OpToRel
<1>2. IsWellFoundedOn(Below, Nat) BY <1>1, NatLessThanWellFounded
<1>3. PICK i \in S : \A j \in S : ~ (<<j, i>> \in Below)
  <2> HIDE DEF Below
  <2> QED BY <1>2, WFMin
<1>4. ASSUME NEW j \in S PROVE i <= j
  <2>1. j \in Nat /\ i \in Nat OBVIOUS
  <2>2. <<j, i>> \in Nat \X Nat BY <2>1
  <2>3. ~ (j < i) BY <1>3, <2>2
  <2> QED BY <2>1, <2>3
<1>5. QED BY <1>4 DEF Smallest

LEMMA SmallestSlot ==
  ASSUME NEW S \in SUBSET Slots, S # {}
  PROVE  Smallest(S) \in S /\ \A j \in S : Smallest(S) <= j
BY SmallestIn, EntitiesAssumption DEF Slots

-----------------------------------------------------------------------------
(* Sequence numbers.  A table, live or saved, is sound if its counter is   *)
(* above every sequence number, those in use differ, and the counter has   *)
(* not outrun the entities added.  The saved table has to be sound as well *)
(* as the live one, because a load makes it live.                          *)
Table == [global_sequence : 1 .. MaxAdds + 1, sequences : [Slots -> 0 .. MaxAdds],
          entity_states : [Slots -> States], component_masks : [Slots -> Masks],
          identity : [Slots -> 0 .. MaxAdds], spawned : 0 .. MaxAdds]

Sound(t) ==
  /\ t \in Table
  /\ t.global_sequence <= t.spawned + 1
  /\ \A i \in Slots : t.sequences[i] < t.global_sequence
  /\ \A i \in Slots : t.entity_states[i] # "unused" => t.sequences[i] # 0
  /\ \A i, j \in Slots :
       /\ t.entity_states[i] # "unused" /\ t.entity_states[j] # "unused"
       /\ t.sequences[i] = t.sequences[j]
       => i = j

TableInv ==
  /\ Sound(Snapshot)
  /\ savegame # <<>> => Sound(savegame[1]) /\ savegame[1].spawned <= spawned

(* The first conjuncts of Sound, for the table that is live. *)
LEMMA LiveTyped ==
  ASSUME TableInv
  PROVE  /\ global_sequence \in 1 .. MaxAdds + 1 /\ sequences \in [Slots -> 0 .. MaxAdds]
         /\ entity_states \in [Slots -> States] /\ component_masks \in [Slots -> Masks]
         /\ identity \in [Slots -> 0 .. MaxAdds] /\ spawned \in 0 .. MaxAdds
BY DEF TableInv, Sound, Table, Snapshot

LEMMA LiveSound ==
  ASSUME TableInv
  PROVE  /\ global_sequence <= spawned + 1
         /\ \A i \in Slots : sequences[i] < global_sequence
         /\ \A i \in Slots : InUse(i) => sequences[i] # 0
         /\ \A i, j \in Slots : InUse(i) /\ InUse(j) /\ sequences[i] = sequences[j] => i = j
BY DEF TableInv, Sound, Snapshot, InUse

LEMMA InitTableInv == Init => TableInv
BY EntitiesAssumption DEF Init, TableInv, Sound, Table, Snapshot, Slots, States, Masks

(* ecs_entity_add fills a slot that was free. *)
LEMMA AddFills ==
  ASSUME TableInv, NEW mask \in Masks, EntityAdd(mask)
  PROVE  \E i \in Slots :
           /\ ~InUse(i) /\ spawned < MaxAdds
           /\ entity_states' = [entity_states EXCEPT ![i] = "pending_add"]
           /\ sequences' = [sequences EXCEPT ![i] = global_sequence]
           /\ global_sequence' = global_sequence + 1
           /\ component_masks' = [component_masks EXCEPT ![i] = mask]
           /\ identity' = [identity EXCEPT ![i] = spawned + 1]
           /\ spawned' = spawned + 1
           /\ refs' = refs \cup {[entity |-> i, sequence |-> global_sequence,
                                  id |-> spawned + 1]}
<1> DEFINE unused == {k \in Slots : entity_states[k] = "unused"}
<1>1. unused # {} BY DEF EntityAdd
<1>2. Smallest(unused) \in unused BY <1>1, SmallestSlot
<1>3. QED BY <1>2 DEF EntityAdd, InUse

(* ... and the numbers it hands out are in range. *)
LEMMA AddCounts ==
  ASSUME TableInv, NEW mask \in Masks, EntityAdd(mask)
  PROVE  global_sequence \in 0 .. MaxAdds /\ spawned + 1 \in 0 .. MaxAdds
<1>1. spawned < MaxAdds BY DEF EntityAdd
<1>2. QED BY <1>1, LiveTyped, LiveSound, EntitiesAssumption

LEMMA AddSound ==
  ASSUME TableInv, NEW mask \in Masks, EntityAdd(mask)
  PROVE  Sound(Snapshot)'
<1>1. PICK i \in Slots :
        /\ ~InUse(i) /\ spawned < MaxAdds
        /\ entity_states' = [entity_states EXCEPT ![i] = "pending_add"]
        /\ sequences' = [sequences EXCEPT ![i] = global_sequence]
        /\ global_sequence' = global_sequence + 1
        /\ component_masks' = [component_masks EXCEPT ![i] = mask]
        /\ identity' = [identity EXCEPT ![i] = spawned + 1]
        /\ spawned' = spawned + 1
  BY AddFills
<1>2. spawned + 1 \in 0 .. MaxAdds /\ global_sequence \in 0 .. MaxAdds
      /\ global_sequence + 1 \in 1 .. MaxAdds + 1
  BY AddCounts, EntitiesAssumption
<1>3. "pending_add" \in States BY DEF States
<1>4. /\ sequences' \in [Slots -> 0 .. MaxAdds] /\ identity' \in [Slots -> 0 .. MaxAdds]
      /\ entity_states' \in [Slots -> States] /\ component_masks' \in [Slots -> Masks]
  BY <1>1, <1>2, <1>3, LiveTyped
<1>5. Snapshot' \in Table BY <1>1, <1>2, <1>4 DEF Snapshot, Table
<1>6. \A k \in Slots : sequences'[k] = IF k = i THEN global_sequence ELSE sequences[k]
  BY <1>1, LiveTyped
<1>7. \A k \in Slots : k # i => entity_states'[k] = entity_states[k]
  BY <1>1, LiveTyped
<1>8. \A k \in Slots : sequences'[k] < global_sequence'
  BY <1>1, <1>6, LiveTyped, LiveSound
<1>9. ASSUME NEW k \in Slots, entity_states'[k] # "unused" PROVE sequences'[k] # 0
  BY <1>6, <1>7, <1>9, LiveTyped, LiveSound DEF InUse
<1>10. ASSUME NEW j \in Slots, NEW k \in Slots, sequences'[j] = sequences'[k],
              entity_states'[j] # "unused", entity_states'[k] # "unused"
       PROVE  j = k
  BY <1>6, <1>7, <1>10, LiveTyped, LiveSound DEF InUse
<1>11. global_sequence' <= spawned' + 1 BY <1>1, LiveTyped, LiveSound
<1>12. QED BY <1>5, <1>8, <1>9, <1>10, <1>11 DEF Sound, Snapshot

LEMMA NextTableInv == TableInv /\ [Next]_vars => TableInv'
<1> SUFFICES ASSUME TableInv, [Next]_vars PROVE TableInv'
  OBVIOUS
<1>1. CASE UNCHANGED <<table, spawned, savegame>>
  BY <1>1 DEF table, TableInv, Snapshot
<1>2. CASE Setup \/ OutOfEntities \/ Queries \/ Finished \/ UNCHANGED vars
  <2>1. UNCHANGED <<table, spawned, savegame>>
    BY <1>2 DEF Setup, RegisterComponentType, Destroy, OutOfEntities, Queries, QueryCreate,
                QueryNext, QueryGetEntity, Finished, vars
  <2>2. QED BY <1>1, <2>1
<1>3. ASSUME NEW mask \in Masks, EntityAdd(mask) PROVE TableInv'
  <2>1. Sound(Snapshot)' BY <1>3, AddSound
  <2>2. savegame' = savegame /\ spawned' = spawned + 1 BY <1>3 DEF EntityAdd
  <2>3. savegame # <<>> => savegame[1].spawned \in 0 .. MaxAdds
    BY DEF TableInv, Sound, Table
  <2>4. QED BY <2>1, <2>2, <2>3, LiveTyped DEF TableInv
<1>4. ASSUME NEW r \in refs, NEW allow \in BOOLEAN, EntityRemove(r, allow)
      PROVE  TableInv'
  <2>1. /\ entity_states[r.entity] # "unused"
        /\ entity_states' = [entity_states EXCEPT ![r.entity] = "pending_remove"]
        /\ UNCHANGED <<global_sequence, sequences, component_masks, identity, spawned, savegame>>
    BY <1>4 DEF EntityRemove, IsEntityRefValid
  <2>2. entity_states' \in [Slots -> States] BY <2>1, LiveTyped DEF States
  <2>3. \A k \in Slots : entity_states'[k] # "unused" => entity_states[k] # "unused"
    BY <2>1, LiveTyped
  <2>4. Sound(Snapshot)'
    BY <2>1, <2>2, <2>3, LiveTyped, LiveSound DEF Sound, Snapshot, Table, InUse
  <2>5. QED BY <2>1, <2>4 DEF TableInv
<1>5. CASE Update
  <2>1. UNCHANGED <<global_sequence, sequences, component_masks, identity, spawned, savegame>>
    BY <1>5 DEF Update
  <2>2. entity_states' \in [Slots -> States] BY <1>5, LiveTyped DEF Update, States
  <2>3. \A k \in Slots : entity_states'[k] # "unused" => entity_states[k] # "unused"
    BY <1>5 DEF Update
  <2>4. Sound(Snapshot)'
    BY <2>1, <2>2, <2>3, LiveTyped, LiveSound DEF Sound, Snapshot, Table, InUse
  <2>5. QED BY <2>1, <2>4 DEF TableInv
<1>6. CASE SaveGame
  <2>1. savegame' = <<Snapshot>> /\ Snapshot' = Snapshot /\ spawned' = spawned
    BY <1>6 DEF SaveGame, table, Snapshot
  <2>2. Snapshot.spawned <= spawned BY LiveTyped DEF Snapshot
  <2>3. QED BY <2>1, <2>2 DEF TableInv
<1>7. CASE LoadGame
  <2> DEFINE t == savegame[1]
  <2>1. Sound(t) /\ t.spawned <= spawned BY <1>7 DEF LoadGame, TableInv
  <2>2. /\ global_sequence' = t.global_sequence /\ sequences' = t.sequences
        /\ entity_states' = t.entity_states /\ component_masks' = t.component_masks
        /\ identity' = t.identity /\ spawned' = spawned /\ savegame' = savegame
    BY <1>7 DEF LoadGame, Restore
  <2>3. t.global_sequence <= spawned + 1 BY <2>1, LiveTyped DEF Sound, Table
  <2>4. Sound(Snapshot)' BY <2>1, <2>2, <2>3, LiveTyped DEF Sound, Table, Snapshot
  <2>5. QED BY <2>1, <2>2, <2>4 DEF TableInv
<1>8. CASE SaveFails \/ LoadFails
  <2>1. UNCHANGED <<Snapshot, spawned>> /\ savegame' \in {savegame, <<>>}
    BY <1>8 DEF SaveFails, LoadFails, vars, table, Snapshot
  <2>2. QED BY <2>1 DEF TableInv
<1>9. QED
  BY <1>2, <1>3, <1>4, <1>5, <1>6, <1>7, <1>8 DEF Next, Entities, Persistence

(* ecs_entity_add never hands out a sequence number that a live entity     *)
(* has, also after ecs_load_game has set the counter back (ecs.c:132).     *)
THEOREM SequencesUnique == Spec => []UniqueSequences
<1>1. Spec => []TableInv BY InitTableInv, NextTableInv, PTL DEF Spec
<1>2. TableInv => UniqueSequences BY LiveSound DEF UniqueSequences
<1>3. QED BY <1>1, <1>2, PTL

-----------------------------------------------------------------------------
(* Types, for tables of every size.  While a query is open its cursor is   *)
(* at a slot.                                                              *)
OpenAtSlot == query.at = "open" => query.entity \in Slots

TypeInv == TypeOK /\ OpenAtSlot

LEMMA InitTypeInv == Init => TypeInv
BY EntitiesAssumption
DEF Init, TypeInv, TypeOK, OpenAtSlot, Slots, Masks, States, NoQuery

LEMMA AdvanceTyped ==
  ASSUME NEW mask \in Masks, NEW i \in Slots \cup {-1}, Advance(mask, i)
  PROVE  /\ query' \in [at : {"none", "open", "ended"}, component_mask : Masks,
                        entity : Slots \cup {-1}]
         /\ OpenAtSlot'
<1> DEFINE next == {j \in Slots : j > i /\ Matches(j, mask)}
<1>1. CASE next = {} BY <1>1 DEF Advance, OpenAtSlot
<1>2. CASE next # {}
  <2>1. Smallest(next) \in Slots BY <1>2, SmallestSlot
  <2>2. query' = [at |-> "open", component_mask |-> mask, entity |-> Smallest(next)]
    BY <1>2 DEF Advance
  <2>3. QED BY <2>1, <2>2 DEF OpenAtSlot
<1>3. QED BY <1>1, <1>2

LEMMA NextTypeInv == TypeInv /\ TableInv /\ TableInv' /\ [Next]_vars => TypeInv'
<1> SUFFICES ASSUME TypeInv, TableInv, TableInv', [Next]_vars PROVE TypeInv'
  OBVIOUS
<1> DEFINE Rest == /\ refs \subseteq Refs \cup {NoEntity}
                   /\ query \in [at : {"none", "open", "ended"}, component_mask : Masks,
                                 entity : Slots \cup {-1}]
                   /\ loaded \in {"never", "before", "this frame"}
                   /\ OpenAtSlot
<1>1. TableInv => /\ global_sequence \in 1 .. MaxAdds + 1
                  /\ sequences \in [Slots -> 0 .. MaxAdds]
                  /\ entity_states \in [Slots -> States]
                  /\ component_masks \in [Slots -> Masks]
                  /\ identity \in [Slots -> 0 .. MaxAdds] /\ spawned \in 0 .. MaxAdds
  BY LiveTyped
<1>2. Rest' => TypeInv'
  <2>1. TableInv' => /\ global_sequence' \in 1 .. MaxAdds + 1
                     /\ sequences' \in [Slots -> 0 .. MaxAdds]
                     /\ entity_states' \in [Slots -> States]
                     /\ component_masks' \in [Slots -> Masks]
                     /\ identity' \in [Slots -> 0 .. MaxAdds] /\ spawned' \in 0 .. MaxAdds
    BY DEF TableInv, Sound, Table, Snapshot
  <2>2. QED BY <2>1 DEF TypeInv, TypeOK
<1> USE DEF TypeInv, TypeOK, OpenAtSlot
<1>3. CASE \/ Setup \/ Finished \/ SaveGame \/ SaveFails \/ LoadFails
        \/ UNCHANGED vars
  <2>1. UNCHANGED <<refs, query, loaded>>
    BY <1>3 DEF Setup, RegisterComponentType, Destroy, Finished, SaveGame, SaveFails,
                LoadFails, vars, cursor, loads
  <2>2. QED BY <1>2, <2>1
<1>4. ASSUME NEW mask \in Masks, EntityAdd(mask) PROVE TypeInv'
  <2>1. PICK i \in Slots :
          /\ spawned < MaxAdds
          /\ refs' = refs \cup {[entity |-> i, sequence |-> global_sequence,
                                 id |-> spawned + 1]}
    BY <1>4, AddFills
  <2>2. UNCHANGED <<query, loaded>> BY <1>4 DEF EntityAdd, cursor, loads
  <2>3. global_sequence \in 0 .. MaxAdds /\ spawned + 1 \in 0 .. MaxAdds
    BY <1>4, AddCounts
  <2>4. refs' \subseteq Refs \cup {NoEntity}
    <3>1. [entity |-> i, sequence |-> global_sequence, id |-> spawned + 1] \in Refs
      BY <2>3 DEF Refs
    <3>2. QED BY <2>1, <3>1
  <2>5. QED BY <1>2, <2>2, <2>4
<1>5. CASE OutOfEntities BY <1>2, <1>5 DEF OutOfEntities, cursor, loads
<1>6. ASSUME NEW r \in refs, NEW allow \in BOOLEAN, EntityRemove(r, allow)
      PROVE  TypeInv'
  BY <1>2, <1>6 DEF EntityRemove, cursor, loads
<1>7. CASE Update BY <1>2, <1>7 DEF Update, NoQuery, Masks
<1>8. ASSUME NEW mask \in Masks, QueryCreate(mask) PROVE TypeInv'
  <2>1. Advance(mask, -1) /\ UNCHANGED <<refs, loaded>> BY <1>8 DEF QueryCreate, loads
  <2>2. QED BY <1>2, <2>1, AdvanceTyped
<1>9. CASE QueryNext
  <2>1. Advance(query.component_mask, query.entity) /\ UNCHANGED <<refs, loaded>>
    BY <1>9 DEF QueryNext, loads
  <2>2. QED BY <1>2, <2>1, AdvanceTyped
<1>10. CASE QueryGetEntity
  <2> DEFINE e == query.entity
             r == [entity |-> e, sequence |-> sequences[e], id |-> identity[e]]
  <2>1. e \in Slots /\ refs' = refs \cup {r} /\ UNCHANGED <<query, loaded>>
    BY <1>10 DEF QueryGetEntity, cursor, loads
  <2>2. r \in Refs BY <1>1, <2>1 DEF Refs
  <2>3. QED BY <1>2, <2>1, <2>2
<1>11. CASE LoadGame BY <1>2, <1>11 DEF LoadGame, Restore, cursor
<1>12. QED
  BY <1>3, <1>4, <1>5, <1>6, <1>7, <1>8, <1>9, <1>10, <1>11
  DEF Next, Entities, Queries, Persistence

(* The state keeps its types, whatever the sizes of the tables and the     *)
(* calls made.                                                             *)
THEOREM EntitiesTyped == Spec => []TypeOK
<1>1. Spec => []TableInv BY InitTableInv, NextTableInv, PTL DEF Spec
<1>2. Spec => []TypeInv BY <1>1, InitTypeInv, NextTypeInv, PTL DEF Spec
<1>3. TypeInv => TypeOK BY DEF TypeInv
<1>4. QED BY <1>2, <1>3, PTL

-----------------------------------------------------------------------------
(* References.  A table keeps a reference if it will not give its sequence *)
(* number to another entity, and has not.  The live table keeps all but    *)
(* those that loads abandoned.  The saved table, made live, keeps those of *)
(* entities added before the save: the ones that are handed out, and the   *)
(* ones that ecs_query_get_entity may yet make from the live table.        *)
Keeps(t, r) ==
  /\ r.sequence < t.global_sequence
  /\ t.sequences[r.entity] = r.sequence => t.identity[r.entity] = r.id

HandedOut == refs \ {NoEntity}
SlotRef(i) == [entity |-> i, sequence |-> sequences[i], id |-> identity[i]]

RefInv ==
  /\ abandoned \subseteq 1 .. spawned
  /\ \A i \in Slots : identity[i] <= spawned
  /\ \A r \in HandedOut : r.id <= spawned /\ (r.id \notin abandoned => Keeps(Snapshot, r))
  /\ savegame # <<>> =>
       /\ \A i \in Slots : savegame[1].identity[i] <= savegame[1].spawned
       /\ \A r \in HandedOut : r.id \notin abandoned /\ r.id <= savegame[1].spawned
                                 => Keeps(savegame[1], r)
       /\ \A i \in Slots : identity[i] <= savegame[1].spawned => Keeps(savegame[1], SlotRef(i))

LEMMA InitRefInv == Init => RefInv
BY EntitiesAssumption DEF Init, RefInv, HandedOut, Slots

LEMMA NextRefInv ==
  RefInv /\ TypeInv /\ TableInv /\ [Next]_vars => RefInv'
<1> SUFFICES ASSUME RefInv, TypeInv, TableInv, [Next]_vars PROVE RefInv'
  OBVIOUS
<1>1. HandedOut \subseteq Refs BY DEF TypeInv, TypeOK, HandedOut
<1>2. spawned \in 0 .. MaxAdds /\ MaxAdds \in Nat BY LiveTyped, EntitiesAssumption
<1>3. savegame # <<>> => savegame[1].spawned \in 0 .. MaxAdds /\ savegame[1].spawned <= spawned
  BY DEF TableInv, Sound, Table
<1>4. CASE UNCHANGED <<global_sequence, sequences, identity, spawned, savegame, abandoned>>
           /\ HandedOut' \subseteq HandedOut
  BY <1>4 DEF RefInv, Keeps, SlotRef, Snapshot
<1>5. CASE \/ Setup \/ OutOfEntities \/ Update \/ Finished \/ UNCHANGED vars
  <2>1. UNCHANGED <<global_sequence, sequences, identity, spawned, savegame, abandoned>>
        /\ HandedOut' \subseteq HandedOut
    BY <1>5 DEF Setup, RegisterComponentType, Destroy, OutOfEntities, Update, Finished,
                vars, table, loads, HandedOut
  <2>2. QED BY <1>4, <2>1
<1>6. CASE (\E mask \in Masks : QueryCreate(mask)) \/ QueryNext
  BY <1>4, <1>6 DEF QueryCreate, QueryNext, table, loads, HandedOut
<1>7. ASSUME NEW r \in refs, NEW allow \in BOOLEAN, EntityRemove(r, allow) PROVE RefInv'
  BY <1>4, <1>7 DEF EntityRemove, loads, HandedOut
<1>8. ASSUME NEW mask \in Masks, EntityAdd(mask) PROVE RefInv'
  <2> DEFINE new(i) == [entity |-> i, sequence |-> global_sequence, id |-> spawned + 1]
  <2>1. PICK i \in Slots :
          /\ sequences' = [sequences EXCEPT ![i] = global_sequence]
          /\ global_sequence' = global_sequence + 1
          /\ identity' = [identity EXCEPT ![i] = spawned + 1]
          /\ spawned' = spawned + 1
          /\ refs' = refs \cup {new(i)}
    BY <1>8, AddFills
  <2>2. UNCHANGED <<savegame, abandoned>> BY <1>8 DEF EntityAdd, loads
  <2>3. HandedOut' \subseteq HandedOut \cup {new(i)} BY <2>1 DEF HandedOut
  <2>4. /\ sequences'[i] = global_sequence /\ identity'[i] = spawned + 1
        /\ \A k \in Slots : k # i => sequences'[k] = sequences[k] /\ identity'[k] = identity[k]
    BY <2>1, LiveTyped
  <2>5. global_sequence \in Nat /\ sequences \in [Slots -> Nat] BY LiveTyped, EntitiesAssumption
  <2>6. abandoned' \subseteq 1 .. spawned' BY <1>2, <2>1, <2>2 DEF RefInv
  <2>7. \A k \in Slots : identity'[k] <= spawned'
    BY <1>2, <2>1, <2>4, LiveTyped DEF RefInv
  <2>8. ASSUME NEW r \in HandedOut'
        PROVE  r.id <= spawned' /\ (r.id \notin abandoned' => Keeps(Snapshot, r)')
    <3>1. CASE r = new(i)
      <4>1. r.sequence < global_sequence' BY <2>1, <2>5, <3>1
      <4>2. identity'[r.entity] = r.id BY <2>4, <3>1
      <4>3. QED BY <1>2, <2>1, <3>1, <4>1, <4>2 DEF Keeps, Snapshot
    <3>2. CASE r \in HandedOut
      <4>1. r.entity \in Slots /\ r.id \in Nat /\ r.sequence \in Nat
        BY <1>1, <1>2, <3>2 DEF Refs
      <4>2. r.id <= spawned /\ (r.id \notin abandoned => Keeps(Snapshot, r))
        BY <3>2 DEF RefInv
      <4>3. r.id <= spawned' BY <1>2, <2>1, <4>1, <4>2
      <4>4. ASSUME r.id \notin abandoned PROVE Keeps(Snapshot, r)'
        <5>1. r.sequence < global_sequence
              /\ (sequences[r.entity] = r.sequence => identity[r.entity] = r.id)
          BY <4>2, <4>4 DEF Keeps, Snapshot
        <5>2. r.sequence < global_sequence' BY <2>1, <2>5, <4>1, <5>1
        <5>3. sequences'[r.entity] = r.sequence => identity'[r.entity] = r.id
          BY <2>4, <2>5, <4>1, <5>1
        <5>4. QED BY <5>2, <5>3 DEF Keeps, Snapshot
      <4>5. QED BY <2>2, <4>3, <4>4
    <3>3. QED BY <2>3, <3>1, <3>2
  <2>9. ASSUME savegame # <<>>, NEW r \in HandedOut', r.id \notin abandoned,
               r.id <= savegame[1].spawned
        PROVE  Keeps(savegame[1], r)
    <3>1. r # new(i) BY <1>2, <1>3, <2>9
    <3>2. QED BY <2>3, <2>9, <3>1 DEF RefInv
  <2>10. ASSUME savegame # <<>>, NEW k \in Slots, identity'[k] <= savegame[1].spawned
         PROVE  Keeps(savegame[1], SlotRef(k)')
    <3>1. k # i BY <1>2, <1>3, <2>4, <2>10
    <3>2. SlotRef(k)' = SlotRef(k) BY <2>4, <3>1 DEF SlotRef
    <3>3. QED BY <2>4, <2>10, <3>1, <3>2 DEF RefInv
  <2>11. QED
    BY <2>2, <2>6, <2>7, <2>8, <2>9, <2>10 DEF RefInv, Keeps, SlotRef
<1>9. CASE QueryGetEntity
  <2> DEFINE e == query.entity
  <2>1. e \in Slots /\ refs' = refs \cup {SlotRef(e)}
        /\ UNCHANGED <<global_sequence, sequences, identity, spawned, savegame, abandoned>>
    BY <1>9 DEF QueryGetEntity, SlotRef, table, loads, TypeInv, OpenAtSlot
  <2>2. HandedOut' \subseteq HandedOut \cup {SlotRef(e)} BY <2>1 DEF HandedOut
  <2>3. SlotRef(e).id <= spawned BY <2>1 DEF SlotRef, RefInv
  <2>4. Keeps(Snapshot, SlotRef(e))
    BY <2>1, LiveSound DEF Keeps, SlotRef, Snapshot
  <2>5. savegame # <<>> /\ SlotRef(e).id <= savegame[1].spawned => Keeps(savegame[1], SlotRef(e))
    BY <2>1 DEF RefInv, SlotRef
  <2>6. Snapshot'.global_sequence = Snapshot.global_sequence
        /\ Snapshot'.sequences = Snapshot.sequences /\ Snapshot'.identity = Snapshot.identity
    BY <2>1 DEF Snapshot
  <2>7. \A r \in HandedOut' : r.id <= spawned /\ (r.id \notin abandoned => Keeps(Snapshot, r))
    BY <2>2, <2>3, <2>4 DEF RefInv
  <2>8. savegame # <<>> => \A r \in HandedOut' : r.id \notin abandoned
            /\ r.id <= savegame[1].spawned => Keeps(savegame[1], r)
    BY <2>2, <2>5 DEF RefInv
  <2>9. QED BY <2>1, <2>6, <2>7, <2>8 DEF RefInv, Keeps, SlotRef
<1>10. CASE SaveGame
  <2>1. /\ savegame' = <<Snapshot>> /\ Snapshot' = Snapshot /\ HandedOut' = HandedOut
        /\ UNCHANGED <<sequences, identity, spawned, abandoned>>
    BY <1>10 DEF SaveGame, table, loads, Snapshot, HandedOut
  <2>2. savegame'[1] = Snapshot /\ Snapshot.spawned = spawned /\ Snapshot.identity = identity
    BY <2>1 DEF Snapshot
  <2>3. \A i \in Slots : Keeps(Snapshot, SlotRef(i))
    BY LiveSound DEF Keeps, SlotRef, Snapshot
  <2>4. \A i \in Slots : SlotRef(i)' = SlotRef(i) BY <2>1 DEF SlotRef
  <2>5. /\ \A r \in HandedOut : r.id <= spawned /\ (r.id \notin abandoned => Keeps(Snapshot, r))
        /\ \A i \in Slots : identity[i] <= spawned /\ abandoned \subseteq 1 .. spawned
    BY DEF RefInv
  <2>6. QED BY <1>2, <2>1, <2>2, <2>3, <2>4, <2>5 DEF RefInv
<1>11. CASE LoadGame
  <2> DEFINE t == savegame[1]
  <2>1. /\ savegame # <<>> /\ global_sequence' = t.global_sequence
        /\ sequences' = t.sequences /\ identity' = t.identity
        /\ abandoned' = abandoned \cup (t.spawned + 1 .. spawned)
        /\ HandedOut' = HandedOut /\ UNCHANGED <<spawned, savegame>>
    BY <1>11 DEF LoadGame, Restore, HandedOut
  <2>2. t.spawned \in Nat /\ t.spawned <= spawned /\ Sound(t)
    BY <1>2, <1>3, <2>1 DEF TableInv
  <2>3. abandoned' \subseteq 1 .. spawned'
    <3>1. abandoned \subseteq 1 .. spawned BY DEF RefInv
    <3>2. t.spawned + 1 .. spawned \subseteq 1 .. spawned BY <1>2, <2>2
    <3>3. QED BY <2>1, <3>1, <3>2
  <2>4. \A i \in Slots : t.identity[i] <= t.spawned /\ t.identity[i] \in 0 .. MaxAdds
    BY <2>1, <2>2 DEF RefInv, Sound, Table
  <2>5. \A i \in Slots : identity'[i] <= spawned' BY <1>2, <2>1, <2>2, <2>4
  <2>6. ASSUME NEW r \in HandedOut, r.id \notin abandoned' PROVE Keeps(t, r)
    <3>1. r.id \in Nat BY <1>1, <1>2 DEF Refs
    <3>2. r.id <= spawned BY DEF RefInv
    <3>3. r.id <= t.spawned /\ r.id \notin abandoned BY <1>2, <2>1, <2>2, <2>6, <3>1, <3>2
    <3>4. QED BY <2>1, <3>3 DEF RefInv
  <2>7. \A r : Keeps(Snapshot, r)' <=> Keeps(t, r)
    BY <2>1 DEF Keeps, Snapshot
  <2>8. \A i \in Slots : Keeps(t, SlotRef(i)')
    BY <2>1, <2>2 DEF Keeps, SlotRef, Sound
  <2>9. \A r \in HandedOut' : r.id <= spawned' BY <2>1 DEF RefInv
  <2> HIDE DEF t
  <2>10. \A r \in HandedOut' : r.id \notin abandoned' => Keeps(Snapshot, r)'
    BY <2>1, <2>6, <2>7
  <2>11. t = savegame'[1] BY <2>1 DEF t
  <2>12. QED
    BY <2>1, <2>3, <2>4, <2>5, <2>6, <2>8, <2>9, <2>10, <2>11 DEF RefInv
<1>12. CASE SaveFails \/ LoadFails
  <2>1. /\ UNCHANGED <<table, refs, spawned, abandoned>>
        /\ savegame' \in {savegame, <<>>}
    BY <1>12 DEF SaveFails, LoadFails, vars, loads
  <2>2. UNCHANGED <<Snapshot, HandedOut>> /\ \A i \in Slots : SlotRef(i)' = SlotRef(i)
    BY <2>1 DEF table, Snapshot, HandedOut, SlotRef
  <2>3. UNCHANGED <<identity, spawned, abandoned>> BY <2>1 DEF table
  <2>4. QED BY <2>1, <2>2, <2>3 DEF RefInv, Keeps
<1>13. QED
  BY <1>5, <1>6, <1>7, <1>8, <1>9, <1>10, <1>11, <1>12
  DEF Next, Entities, Queries, Persistence

(* A reference that ecs_is_entity_ref_valid accepts means the entity it    *)
(* was returned for (ecs.c:283), whatever was removed, saved and loaded,   *)
(* unless its entity was added after the save that was then loaded.        *)
THEOREM RefsKeepMeaning == Spec => []RefsNeverAlias
<1>1. Spec => []TableInv BY InitTableInv, NextTableInv, PTL DEF Spec
<1>2. Spec => []TypeInv BY <1>1, InitTypeInv, NextTypeInv, PTL DEF Spec
<1>3. Spec => []RefInv BY <1>1, <1>2, InitRefInv, NextRefInv, PTL DEF Spec
<1>4. RefInv => RefsNeverAlias
  <2> SUFFICES ASSUME RefInv, NEW r \in refs, IsEntityRefValid(r, TRUE), r.id \notin abandoned
               PROVE  identity[r.entity] = r.id
    BY DEF RefsNeverAlias
  <2>1. r \in HandedOut BY DEF IsEntityRefValid, NoEntity, HandedOut
  <2>2. QED BY <2>1 DEF RefInv, Keeps, Snapshot, IsEntityRefValid
<1>5. QED BY <1>3, <1>4, PTL

-----------------------------------------------------------------------------
(* Queries.  Within a frame the slots that were active when it began stay  *)
(* active or pending removal, and what a query has met is what there was   *)
(* to meet up to its cursor.  A load in the frame ends all that until the  *)
(* next frame.                                                             *)
Live == {i \in Slots : entity_states[i] \in {"active", "pending_remove"}}

(* Live slots that were not active when the frame began hold entities both *)
(* added and removed in it.  An open query has met, up to its cursor, all  *)
(* it has to meet, and only live slots.                                    *)
CursorSound ==
  /\ frame \subseteq Live
  /\ \A i \in Live \ frame : entity_states[i] = "pending_remove"
  /\ visited \in Seq(Slots)
  /\ query.at = "none"  => visited = <<>>
  /\ query.at # "none"  => \A i \in Met : i \in Live /\ query.component_mask \subseteq component_masks[i]
  /\ query.at = "open"  => \A i \in ToMeet : i <= query.entity => i \in Met
  /\ query.at = "ended" => ToMeet \subseteq Met

CursorInv == loaded # "this frame" => CursorSound

LEMMA SlotsAreNat == \A i \in Slots : i \in Nat /\ ~(i <= -1)
BY EntitiesAssumption DEF Slots

LEMMA NothingMet == <<>> \in Seq(Slots) /\ DOMAIN <<>> = {}
OBVIOUS

LEMMA AppendMet ==
  ASSUME NEW seq \in Seq(Slots), NEW i \in Slots
  PROVE  LET longer == Append(seq, i)
         IN  /\ longer \in Seq(Slots)
             /\ {longer[k] : k \in DOMAIN longer} = {seq[k] : k \in DOMAIN seq} \cup {i}
<1> DEFINE longer == Append(seq, i)
<1>1. longer \in Seq(Slots) /\ Len(longer) = Len(seq) + 1 OBVIOUS
<1>2. \A k \in 1 .. Len(seq) : longer[k] = seq[k] OBVIOUS
<1>3. longer[Len(seq) + 1] = i OBVIOUS
<1>4. DOMAIN longer = 1 .. Len(seq) + 1 /\ DOMAIN seq = 1 .. Len(seq) OBVIOUS
<1>5. Len(seq) \in Nat OBVIOUS
<1> HIDE DEF longer
<1>6. 1 .. Len(seq) + 1 = (1 .. Len(seq)) \cup {Len(seq) + 1} BY <1>5
<1>7. {longer[k] : k \in DOMAIN longer} = {seq[k] : k \in DOMAIN seq} \cup {i}
  BY <1>2, <1>3, <1>4, <1>6
<1>8. QED BY <1>1, <1>7 DEF longer

(* From slot i the cursor meets the next match, or there is none left.     *)
LEMMA AdvanceMeets ==
  ASSUME NEW mask \in Masks, NEW i \in Slots \cup {-1}, Advance(mask, i),
         visited \in Seq(Slots), frame \subseteq Live,
         \A j \in Live \ frame : entity_states[j] = "pending_remove",
         \A j \in Met : j \in Live /\ mask \subseteq component_masks[j],
         \A j \in frame : mask \subseteq component_masks[j] /\ j <= i => j \in Met,
         UNCHANGED <<table, frame>>
  PROVE  CursorSound'
<1> DEFINE next == {j \in Slots : j > i /\ Matches(j, mask)}
           Found == {j \in Live : mask \subseteq component_masks[j]}
<1>1. next = {j \in Found : j > i} BY DEF Matches, Live
<1>2. /\ frame' = frame /\ Live' = Live /\ UNCHANGED <<component_masks, entity_states>>
      /\ frame \subseteq Live
  BY DEF table, Live
<1>3. Found \subseteq Int /\ i \in Int BY EntitiesAssumption DEF Live, Slots
<1>4. CASE next = {}
  <2>1. query' = [at |-> "ended", component_mask |-> mask, entity |-> -1]
        /\ visited' = visited
    BY <1>4 DEF Advance
  <2>2. \A j \in Found : j <= i BY <1>1, <1>3, <1>4
  <2>3. \A j \in frame : mask \subseteq component_masks[j] => j \in Met BY <1>2, <2>2
  <2>4. Met' = Met BY <2>1 DEF Met
  <2>5. ToMeet' = {j \in frame : mask \subseteq component_masks[j]} BY <2>1, <1>2 DEF ToMeet
  <2>6. QED BY <2>1, <2>3, <2>4, <2>5, <1>2 DEF CursorSound
<1>5. CASE next # {}
  <2> DEFINE n == Smallest(next)
  <2>1. /\ query' = [at |-> "open", component_mask |-> mask, entity |-> n]
        /\ visited' = Append(visited, n)
    BY <1>5 DEF Advance
  <2>2. n \in next /\ \A j \in next : n <= j BY <1>5, SmallestSlot
  <2> HIDE DEF n
  <2>3. n \in Slots BY <2>2
  <2>4. visited' \in Seq(Slots) /\ Met' = Met \cup {n}
    BY <2>1, <2>3, AppendMet DEF Met
  <2>5. ToMeet' = {j \in frame : mask \subseteq component_masks[j]} BY <2>1, <1>2 DEF ToMeet
  <2>6. \A j \in Found : j <= n => j <= i \/ j = n
    BY <1>1, <1>3, <2>2
  <2>7. n \in Found BY <1>1, <2>2
  <2>8. \A j \in frame : mask \subseteq component_masks[j] /\ j <= n => j \in Met \cup {n}
    BY <1>2, <2>6
  <2>9. \A j \in Met \cup {n} : j \in Live /\ mask \subseteq component_masks[j] BY <2>7
  <2>10. QED BY <2>1, <2>4, <2>5, <2>8, <2>9, <1>2 DEF CursorSound
<1>6. QED BY <1>4, <1>5

LEMMA InitCursorInv == Init => CursorInv
BY DEF Init, CursorInv, CursorSound, Live, NoQuery

(* A step that keeps the cursor, the live slots and their masks, and       *)
(* leaves what is pending removal pending.                                 *)
LEMMA CursorKept ==
  ASSUME CursorInv, UNCHANGED <<cursor, loads>>, Live \subseteq Live',
         \A i \in Live : component_masks'[i] = component_masks[i],
         \A i \in Live' \ frame : entity_states'[i] = "pending_remove"
  PROVE  CursorInv'
<1>1. UNCHANGED <<query, visited, frame, loaded>> BY DEF cursor, loads
<1>2. Met' = Met BY <1>1 DEF Met
<1>3. loaded # "this frame" => ToMeet' = ToMeet BY <1>1 DEF ToMeet, CursorInv, CursorSound
<1>4. QED BY <1>1, <1>2, <1>3 DEF CursorInv, CursorSound

LEMMA NextCursorInv == TypeInv /\ TableInv /\ CursorInv /\ [Next]_vars => CursorInv'
<1> SUFFICES ASSUME TypeInv, TableInv, CursorInv, [Next]_vars PROVE CursorInv'
  OBVIOUS
<1>0. CASE loaded' = "this frame" BY <1>0 DEF CursorInv
<1> SUFFICES ASSUME loaded' # "this frame" PROVE CursorInv' BY <1>0
<1>1. CASE \/ Setup \/ OutOfEntities \/ QueryGetEntity \/ SaveGame \/ SaveFails
        \/ LoadFails \/ Finished \/ UNCHANGED vars
  <2>1. UNCHANGED <<table, cursor, loads>>
    BY <1>1 DEF Setup, RegisterComponentType, Destroy, OutOfEntities, QueryGetEntity,
                SaveGame, SaveFails, LoadFails, Finished, vars
  <2>2. UNCHANGED <<entity_states, component_masks, loaded>> /\ Live' = Live
    BY <2>1 DEF table, loads, Live
  <2>3. \A i \in Live' \ frame : entity_states'[i] = "pending_remove"
    BY <2>2 DEF CursorInv, CursorSound
  <2>4. QED BY <2>1, <2>2, <2>3, CursorKept
<1>2. ASSUME NEW mask \in Masks, EntityAdd(mask) PROVE CursorInv'
  <2>1. PICK i \in Slots :
          /\ ~InUse(i)
          /\ entity_states' = [entity_states EXCEPT ![i] = "pending_add"]
          /\ component_masks' = [component_masks EXCEPT ![i] = mask]
    BY <1>2, AddFills
  <2>2. Live' = Live /\ i \notin Live BY <2>1, LiveTyped DEF Live, InUse
  <2>3. \A k \in Live : /\ component_masks'[k] = component_masks[k]
                         /\ entity_states'[k] = entity_states[k]
    BY <2>1, <2>2, LiveTyped DEF Live
  <2>4. UNCHANGED <<cursor, loads>> /\ loaded' = loaded BY <1>2 DEF EntityAdd, loads
  <2>5. \A k \in Live' \ frame : entity_states'[k] = "pending_remove"
    BY <2>2, <2>3, <2>4 DEF CursorInv, CursorSound
  <2>6. QED BY <2>2, <2>3, <2>4, <2>5, CursorKept
<1>3. ASSUME NEW r \in refs, NEW allow \in BOOLEAN, EntityRemove(r, allow)
      PROVE  CursorInv'
  <2>1. entity_states' = [entity_states EXCEPT ![r.entity] = "pending_remove"]
        /\ UNCHANGED <<component_masks, cursor, loads>>
    BY <1>3 DEF EntityRemove
  <2>2. entity_states \in [Slots -> States] BY LiveTyped
  <2>3. \A k \in Slots : entity_states'[k] = entity_states[k]
                        \/ entity_states'[k] = "pending_remove"
    BY <2>1, <2>2
  <2>4. Live \subseteq Live' BY <2>3 DEF Live
  <2>5. \A k \in Live' \ frame : entity_states'[k] = "pending_remove"
    <3>1. loaded' = loaded BY <2>1 DEF loads
    <3>2. QED BY <2>3, <3>1 DEF Live, CursorInv, CursorSound
  <2>6. QED BY <2>1, <2>4, <2>5, CursorKept
<1>4. CASE Update
  <2>1. query' = NoQuery /\ visited' = <<>>
        /\ frame' = {i \in Slots : entity_states'[i] = "active"}
    BY <1>4 DEF Update
  <2>2. \A i \in Slots : entity_states'[i] # "pending_remove"
    BY <1>4 DEF Update
  <2>3. frame' = Live' BY <2>1, <2>2 DEF Live
  <2>4. query'.at = "none" BY <2>1 DEF NoQuery
  <2>5. visited' \in Seq(Slots) BY <2>1, NothingMet
  <2>6. frame' \subseteq Live' /\ Live' \ frame' = {} BY <2>3
  <2>7. CursorSound' BY <2>1, <2>4, <2>5, <2>6 DEF CursorSound
  <2>8. QED BY <2>7 DEF CursorInv
<1>5. ASSUME NEW mask \in Masks, QueryCreate(mask), loaded # "this frame" PROVE CursorInv'
  <2>1. Advance(mask, -1) /\ UNCHANGED <<table, frame, loaded>> /\ visited = <<>>
    BY <1>5 DEF QueryCreate, CursorInv, CursorSound, loads
  <2>2. CursorSound BY <1>5 DEF CursorInv
  <2>3. frame \subseteq Slots BY <2>2 DEF Live, CursorSound
  <2>4. \A j \in frame : ~(j <= -1) BY <2>3, SlotsAreNat
  <2>5. Met = {}
    <3>1. DOMAIN visited = {} BY <2>1, NothingMet
    <3>2. QED BY <3>1 DEF Met
  <2>6. QED BY <2>1, <2>2, <2>4, <2>5, AdvanceMeets DEF CursorInv, CursorSound
<1>6. CASE QueryNext /\ loaded # "this frame"
  <2>1. query.component_mask \in Masks /\ query.entity \in Slots \cup {-1}
    BY DEF TypeInv, TypeOK
  <2>2. Advance(query.component_mask, query.entity) /\ UNCHANGED <<table, frame, loaded>>
    BY <1>6 DEF QueryNext, loads
  <2>3. CursorSound /\ query.at = "open" BY <1>6 DEF QueryNext, CursorInv
  <2>4. \A j \in frame : query.component_mask \subseteq component_masks[j]
                         /\ j <= query.entity => j \in Met
    BY <2>3 DEF CursorSound, ToMeet
  <2>5. QED BY <2>1, <2>2, <2>3, <2>4, AdvanceMeets DEF CursorInv, CursorSound
<1>7. CASE Queries /\ loaded = "this frame"
  BY <1>1, <1>7 DEF Queries, QueryCreate, QueryNext, loads, CursorInv
<1>8. CASE LoadGame BY <1>8 DEF LoadGame, Restore, CursorInv
<1>9. QED
  BY <1>1, <1>2, <1>3, <1>4, <1>5, <1>6, <1>7, <1>8
  DEF Next, Entities, Queries, Persistence

(* A query that ends in a frame without a load has met every entity that   *)
(* was active when the frame began, and besides these only entities both   *)
(* added and removed in the frame, whatever its body did (ecs.c:309).      *)
THEOREM QueriesMeetFrame == Spec => []QueryMeetsFrame
<1>1. TypeInv /\ TableInv /\ CursorInv /\ [Next]_vars => CursorInv' BY NextCursorInv
<1>2. Spec => []TableInv BY InitTableInv, NextTableInv, PTL DEF Spec
<1>3. Spec => []TypeInv BY <1>2, InitTypeInv, NextTypeInv, PTL DEF Spec
<1>4. Spec => []CursorInv BY <1>1, <1>2, <1>3, InitCursorInv, PTL DEF Spec
<1>5. CursorInv => QueryMeetsFrame
  BY DEF CursorInv, CursorSound, QueryMeetsFrame, ToMeet
<1>6. QED BY <1>4, <1>5, PTL

-----------------------------------------------------------------------------
(* Component arrays.  Until ecs_destroy each registered type points at its *)
(* own array; after a load a saved one may point into the file's buffer.   *)
Array(t)  == <<"array", t>>
Buffer(t) == <<"file buffer", t>>

ArraysInv ==
  /\ save_component \in [Types -> BOOLEAN]
  /\ Destroyed \/ DOMAIN components = Types
  /\ \A t \in Types :
       /\ components[t] \in {NULL, Gone, Array(t), Buffer(t)}
       /\ components[t] = Buffer(t) => save_component[t] /\ loaded # "never"
       /\ components[t] = Array(t) => Array(t) \in blocks
  /\ \A b \in blocks : \E t \in Types :
       /\ b = Array(t)
       /\ components[t] = b \/ (save_component[t] /\ loaded # "never")
  /\ \A b \in badFrees : loaded # "never" /\ \E t \in Types : b = Buffer(t)
  /\ (\E t \in Types : components[t] = Gone) => Destroyed

LEMMA Distinct ==
  /\ NULL # Gone
  /\ \A t : Array(t) # Gone /\ Array(t) # NULL /\ Buffer(t) # Gone /\ Buffer(t) # NULL
  /\ \A t, u : Array(t) # Buffer(u) /\ (Array(t) = Array(u) => t = u)
BY DEF NULL, Gone, Array, Buffer

LEMMA InitArraysInv == Init => ArraysInv
<1> SUFFICES ASSUME Init PROVE ArraysInv OBVIOUS
<1>1. /\ save_component \in [Types -> BOOLEAN] /\ DOMAIN components = Types
      /\ \A t \in Types : components[t] = NULL
      /\ blocks = {} /\ badFrees = {}
  BY DEF Init
<1>2. QED BY <1>1, Distinct DEF ArraysInv

LEMMA NextArraysInv == ArraysInv /\ TypeInv /\ [Next]_vars => ArraysInv'
<1> SUFFICES ASSUME ArraysInv, TypeInv, [Next]_vars PROVE ArraysInv'
  OBVIOUS
<1> USE Distinct
<1>1. ASSUME NEW save \in BOOLEAN, RegisterComponentType(save) PROVE ArraysInv'
  <2> DEFINE free == {t \in Types : components[t] = NULL}
             n == Smallest(free)
  <2>1. /\ free # {}
        /\ components' = [components EXCEPT ![n] = Array(n)]
        /\ blocks' = blocks \cup {Array(n)}
        /\ save_component' = [save_component EXCEPT ![n] = save]
        /\ UNCHANGED <<badFrees, loaded>>
    BY <1>1 DEF RegisterComponentType, Array, loads
  <2>2. n \in free
    <3>1. free \subseteq Nat BY TypesAssumption DEF Types
    <3>2. QED BY <2>1, <3>1, SmallestIn
  <2>3. ~Destroyed BY <2>2 DEF Destroyed
  <2> HIDE DEF n
  <2>4. /\ components'[n] = Array(n)
        /\ \A t \in Types : t # n => components'[t] = components[t]
                                     /\ save_component'[t] = save_component[t]
    BY <2>1, <2>2, <2>3 DEF ArraysInv
  <2>6. DOMAIN components' = Types /\ save_component' \in [Types -> BOOLEAN]
    BY <2>1, <2>3 DEF ArraysInv
  <2>7. QED BY <2>1, <2>2, <2>3, <2>4, <2>6 DEF ArraysInv
<1>2. CASE Destroy
  <2> DEFINE freed == {components[t] : t \in Types} \ {NULL}
  <2>1. /\ ~Destroyed /\ components' = [t \in Types |-> Gone]
        /\ blocks' = blocks \ freed
        /\ badFrees' = badFrees \cup (freed \ blocks)
        /\ UNCHANGED <<save_component, loaded>>
    BY <1>2 DEF Destroy, loads
  <2>2. Destroyed' BY <2>1 DEF Destroyed
  <2>3. \A b \in blocks' : \E t \in Types : b = Array(t) /\ save_component[t] /\ loaded # "never"
    BY <2>1 DEF ArraysInv
  <2>4. ASSUME NEW b \in freed \ blocks
        PROVE  loaded # "never" /\ \E t \in Types : b = Buffer(t)
    <3>1. PICK t \in Types : b = components[t] /\ b # NULL BY <2>4
    <3>2. b # Gone BY <2>1, <3>1 DEF ArraysInv
    <3>3. b # Array(t) BY <2>4, <3>1 DEF ArraysInv
    <3>4. QED BY <3>1, <3>2, <3>3 DEF ArraysInv
  <2>5. \A b \in badFrees' : loaded # "never" /\ \E t \in Types : b = Buffer(t)
    BY <2>1, <2>4 DEF ArraysInv
  <2>6. \A t \in Types : components'[t] = Gone BY <2>1
  <2>7. QED BY <2>1, <2>2, <2>3, <2>5, <2>6 DEF ArraysInv
<1>3. CASE LoadGame
  <2>1. /\ ~Destroyed /\ loaded' = "this frame"
        /\ components' = [t \in Types |->
             IF save_component[t] THEN Buffer(t) ELSE components[t]]
        /\ UNCHANGED <<save_component, blocks, badFrees>>
    BY <1>3 DEF LoadGame, Restore, Buffer
  <2>2. \A t \in Types : components[t] # Gone BY <2>1 DEF ArraysInv
  <2>3. QED BY <2>1, <2>2 DEF ArraysInv
<1>4. CASE Update
  <2>1. loaded' = "never" <=> loaded = "never"
    BY <1>4 DEF Update, TypeInv, TypeOK
  <2>2. UNCHANGED memory BY <1>4 DEF Update
  <2>3. QED BY <2>1, <2>2 DEF memory, ArraysInv, Destroyed
<1>5. CASE UNCHANGED <<memory, loads>>
  BY <1>5 DEF memory, loads, ArraysInv, Destroyed
<1>6. ASSUME NEW mask \in Masks, EntityAdd(mask) PROVE UNCHANGED <<memory, loads>>
  BY <1>6 DEF EntityAdd
<1>7. ASSUME NEW r \in refs, NEW allow \in BOOLEAN, EntityRemove(r, allow)
      PROVE  UNCHANGED <<memory, loads>>
  BY <1>7 DEF EntityRemove, memory
<1>8. CASE \/ OutOfEntities \/ Queries \/ SaveGame \/ SaveFails \/ LoadFails
        \/ UNCHANGED vars
  <2>1. UNCHANGED <<memory, loads>>
    BY <1>8 DEF OutOfEntities, Queries, QueryCreate, QueryNext, QueryGetEntity, SaveGame,
                SaveFails, LoadFails, vars, memory
  <2>2. QED BY <2>1, <1>5
<1>9. QED
  BY <1>1, <1>2, <1>3, <1>4, <1>5, <1>6, <1>7, <1>8
  DEF Next, Setup, Entities, Persistence, Finished

(* ecs_destroy frees the array of every component type, and nothing that   *)
(* is not one (ecs.c:203-209), as long as no game is loaded; after a load  *)
(* it goes wrong for saved component types only.                           *)
THEOREM ArraysFreed == Spec => []DestroyFreesAll
<1>1. Spec => []TableInv BY InitTableInv, NextTableInv, PTL DEF Spec
<1>2. Spec => []TypeInv BY <1>1, InitTypeInv, NextTypeInv, PTL DEF Spec
<1>3. Spec => []ArraysInv BY <1>2, InitArraysInv, NextArraysInv, PTL DEF Spec
<1>4. ArraysInv => DestroyFreesAll
  <2> SUFFICES ASSUME ArraysInv, Destroyed PROVE DestroyFreesAll
    BY DEF DestroyFreesAll
  <2>1. \A t \in Types : components[t] = Gone BY DEF Destroyed
  <2>2. ASSUME NEW b \in blocks PROVE loaded # "never" /\ save_component[b[2]]
    <3>1. PICK t \in Types : b = Array(t) /\ (components[t] = b \/ (save_component[t]
                                                               /\ loaded # "never"))
      BY DEF ArraysInv
    <3>2. b # Gone /\ b[2] = t BY <3>1, Distinct DEF Array
    <3>3. QED BY <2>1, <3>1, <3>2
  <2>3. ASSUME NEW b \in badFrees PROVE loaded # "never" /\ b[1] = "file buffer"
    <3>1. PICK t \in Types : b = Buffer(t) /\ loaded # "never" BY DEF ArraysInv
    <3>2. QED BY <3>1 DEF Buffer
  <2>4. QED BY <2>2, <2>3 DEF DestroyFreesAll
<1>5. QED BY <1>3, <1>4, PTL

-----------------------------------------------------------------------------
(* Refinement.  An entity's stage is the state of the slot that holds it;  *)
(* without one it is dead if its number was handed out, else unborn.       *)
Ids == 1 .. MaxAdds

(* In a sound table one slot at most holds an entity. *)
LEMMA LifeShape ==
  ASSUME NEW t, Sound(t), NEW id \in Ids
  PROVE  /\ \A i \in Holding(t, id) :
              /\ LifeIn(t)[id] = t.entity_states[i]
              /\ LifeIn(t)[id] \in {"pending_add", "active", "pending_remove"}
              /\ id < t.global_sequence
         /\ Holding(t, id) = {} =>
              LifeIn(t)[id] = IF id >= t.global_sequence THEN "unborn" ELSE "dead"
<1> DEFINE H == Holding(t, id)
<1>1. LifeIn(t)[id] = CASE H # {}                   -> t.entity_states[Smallest(H)]
                        [] id >= t.global_sequence -> "unborn"
                        [] OTHER                   -> "dead"
  BY DEF LifeIn, Ids
<1>2. CASE H = {}
  <2>1. LifeIn(t)[id] = CASE id >= t.global_sequence -> "unborn" [] OTHER -> "dead"
    BY <1>1, <1>2
  <2>2. QED BY <1>2, <2>1
<1>3. ASSUME NEW i \in H
      PROVE  /\ LifeIn(t)[id] = t.entity_states[i]
             /\ LifeIn(t)[id] \in {"pending_add", "active", "pending_remove"}
             /\ id < t.global_sequence
  <2>1. i \in Slots /\ t.entity_states[i] # "unused" /\ t.sequences[i] = id
    BY DEF Holding
  <2>2. id < t.global_sequence BY <2>1 DEF Sound
  <2>3. ~(id >= t.global_sequence) BY <2>2, EntitiesAssumption DEF Sound, Table, Ids
  <2>4. \A j \in H : j = i BY <2>1 DEF Holding, Sound
  <2>5. Smallest(H) \in H
    <3>1. H \in SUBSET Slots /\ H # {} BY <2>1 DEF Holding
    <3>2. QED BY <3>1, SmallestSlot
  <2>6. LifeIn(t)[id] = t.entity_states[i]
    <3> HIDE DEF H
    <3> QED BY <1>1, <2>3, <2>4, <2>5
  <2>7. t.entity_states[i] \in States \ {"unused"} BY <2>1 DEF Sound, Table
  <2>8. QED BY <2>2, <2>6, <2>7 DEF States
<1>4. QED BY <1>2, <1>3

(* Two tables with an entity in the same slots give it the same stage. *)
LEMMA SameLife ==
  ASSUME NEW t, NEW u, Sound(t), Sound(u), NEW id \in Ids,
         Holding(u, id) = Holding(t, id),
         \A i \in Holding(t, id) : u.entity_states[i] = t.entity_states[i],
         id >= u.global_sequence <=> id >= t.global_sequence
  PROVE  LifeIn(u)[id] = LifeIn(t)[id]
<1>1. CASE Holding(t, id) = {} BY <1>1, LifeShape
<1>2. CASE Holding(t, id) # {} BY <1>2, LifeShape
<1>3. QED BY <1>1, <1>2

LEMMA InitLife == Init => Lives!Init
<1> SUFFICES ASSUME Init PROVE Lives!Init OBVIOUS
<1>1. Sound(Snapshot) BY InitTableInv DEF TableInv
<1>2. \A id \in Ids : Holding(Snapshot, id) = {} BY DEF Init, Holding, Snapshot
<1>3. \A id \in Ids : id >= Snapshot.global_sequence BY DEF Init, Ids, Snapshot
<1>4. \A id \in Ids : LifeIn(Snapshot)[id] = "unborn" BY <1>1, <1>2, <1>3, LifeShape
<1>5. Life = [id \in Ids |-> "unborn"] BY <1>4 DEF Life, LifeIn, Ids
<1>6. Saved = <<>> BY DEF Init, Saved
<1>7. QED BY <1>5, <1>6 DEF Lives!Init, Ids

(* Stages of an entity, seen from the table. *)
LEMMA LifeStages ==
  ASSUME TableInv, NEW id \in Ids
  PROVE  /\ Lives!Alive(id) <=> Holding(Snapshot, id) # {}
         /\ id < global_sequence => Life[id] # "unborn"
<1>1. Sound(Snapshot) BY DEF TableInv
<1>2. CASE Holding(Snapshot, id) = {}
  <2>1. Life[id] = IF id >= global_sequence THEN "unborn" ELSE "dead"
    BY <1>1, <1>2, LifeShape DEF Life, Snapshot
  <2>2. id < global_sequence => ~(id >= global_sequence)
    BY LiveTyped, EntitiesAssumption DEF Ids
  <2>3. QED BY <1>2, <2>1, <2>2 DEF Lives!Alive
<1>3. CASE Holding(Snapshot, id) # {}
  BY <1>1, <1>3, LifeShape DEF Life, Lives!Alive
<1>4. QED BY <1>2, <1>3

(* With a slot to spare fewer entities live than there are slots. *)
LEMMA RoomToSpawn ==
  ASSUME TableInv, NEW free \in Slots, ~InUse(free)
  PROVE  Cardinality({id \in Ids : Lives!Alive(id)}) < MaxEntities
<1> DEFINE Others == Slots \ {free}
           holds == [i \in Others |-> sequences[i]]
           Held == {holds[i] : i \in Others}
           Living == {id \in Ids : Lives!Alive(id)}
<1>1. IsFiniteSet(Slots) /\ Cardinality(Slots) = MaxEntities
  BY EntitiesAssumption, FS_Interval DEF Slots
<1>2. IsFiniteSet(Others) /\ Cardinality(Others) = MaxEntities - 1
  BY <1>1, FS_RemoveElement
<1>3. IsFiniteSet(Held) /\ Cardinality(Held) <= Cardinality(Others)
  <2>1. holds \in Surjection(Others, Held) BY DEF Surjection
  <2>2. QED BY <1>2, <2>1, FS_Surjection
<1>4. Living \subseteq Held
  <2> SUFFICES ASSUME NEW id \in Ids, Lives!Alive(id) PROVE id \in Held
    OBVIOUS
  <2>1. PICK i \in Holding(Snapshot, id) : TRUE BY LifeStages
  <2>2. i \in Others /\ sequences[i] = id BY <2>1 DEF Holding, Snapshot, InUse
  <2>3. QED BY <2>2
<1>5. Cardinality(Living) <= Cardinality(Held) BY <1>3, <1>4, FS_Subset
<1>6. Cardinality(Living) \in Nat /\ Cardinality(Held) \in Nat
  BY <1>3, <1>4, FS_Subset, FS_CardinalityType
<1>7. QED
  <2> HIDE DEF Living, Held, Others
  <2> QED BY <1>2, <1>3, <1>5, <1>6, EntitiesAssumption DEF Living

LEMMA AddSpawns ==
  ASSUME TableInv, TableInv', NEW mask \in Masks, EntityAdd(mask)
  PROVE  \E id \in Ids : Lives!Spawn(id)
<1>1. PICK i \in Slots :
        /\ ~InUse(i)
        /\ entity_states' = [entity_states EXCEPT ![i] = "pending_add"]
        /\ sequences' = [sequences EXCEPT ![i] = global_sequence]
        /\ global_sequence' = global_sequence + 1
  BY AddFills
<1>2. PICK new \in Ids : new = global_sequence
  BY AddCounts, LiveTyped, EntitiesAssumption DEF Ids
<1>3. PICK t : t = Snapshot OBVIOUS
<1>4. PICK u : u = Snapshot' OBVIOUS
<1>5. Sound(t) /\ Sound(u) BY <1>3, <1>4 DEF TableInv
<1>6. /\ u.entity_states[i] = "pending_add" /\ u.sequences[i] = new
      /\ \A k \in Slots : k # i => /\ u.entity_states[k] = t.entity_states[k]
                                   /\ u.sequences[k] = t.sequences[k]
                                   /\ t.sequences[k] # new
      /\ t.entity_states[i] = "unused"
      /\ t.global_sequence = new /\ u.global_sequence = new + 1
  BY <1>1, <1>2, <1>3, <1>4, LiveTyped, LiveSound DEF Snapshot, InUse
<1>7. Holding(u, new) = {i} BY <1>6 DEF Holding
<1>8. Holding(t, new) = {} BY <1>6 DEF Holding
<1>9. LifeIn(t)[new] = "unborn" BY <1>5, <1>6, <1>8, LifeShape DEF Ids
<1>10. LifeIn(u)[new] = "pending_add" BY <1>5, <1>6, <1>7, LifeShape
<1>11. ASSUME NEW id \in Ids, id # new PROVE LifeIn(u)[id] = LifeIn(t)[id]
  <2>1. Holding(u, id) = Holding(t, id) BY <1>6, <1>11 DEF Holding
  <2>2. \A k \in Holding(t, id) : u.entity_states[k] = t.entity_states[k]
    BY <1>6 DEF Holding
  <2>3. id >= u.global_sequence <=> id >= t.global_sequence
    BY <1>6, <1>11, EntitiesAssumption DEF Ids
  <2>4. QED BY <1>5, <2>1, <2>2, <2>3, SameLife
<1>12. Life = LifeIn(t) /\ Life' = LifeIn(u)
  BY <1>3, <1>4 DEF Life
<1>13. Life' = [Life EXCEPT ![new] = "pending_add"]
  BY <1>10, <1>11, <1>12 DEF LifeIn, Ids
<1>14. \A other \in Ids : other < new => Life[other] # "unborn"
  BY <1>2, LifeStages
<1>15. Lives!Cardinality({other \in Ids : Lives!Alive(other)}) < MaxEntities
  BY <1>1, RoomToSpawn DEF Lives!Cardinality, Cardinality
<1>16. UNCHANGED Saved BY DEF EntityAdd, Saved
<1>17. QED BY <1>9, <1>12, <1>13, <1>14, <1>15, <1>16 DEF Lives!Spawn, Ids

LEMMA RemoveRemoves ==
  ASSUME TypeInv, TableInv, TableInv',
         NEW r \in refs, NEW allow \in BOOLEAN, EntityRemove(r, allow)
  PROVE  \E id \in Ids : Lives!Remove(id)
<1>1. r \in Refs
  <2>1. r # NoEntity BY DEF EntityRemove, IsEntityRefValid, NoEntity
  <2>2. QED BY <2>1 DEF TypeInv, TypeOK
<1>2. PICK e \in Slots : e = r.entity BY <1>1 DEF Refs
<1>3. /\ InUse(e)
      /\ entity_states' = [entity_states EXCEPT ![e] = "pending_remove"]
      /\ UNCHANGED <<global_sequence, sequences, savegame>>
  BY <1>2 DEF EntityRemove, IsEntityRefValid, InUse
<1>4. PICK id \in Ids : id = sequences[e]
  BY <1>2, <1>3, LiveTyped, LiveSound, EntitiesAssumption DEF Ids
<1>5. PICK t : t = Snapshot OBVIOUS
<1>6. PICK u : u = Snapshot' OBVIOUS
<1>7. Sound(t) /\ Sound(u) BY <1>5, <1>6 DEF TableInv
<1>8. /\ u.entity_states[e] = "pending_remove" /\ t.entity_states[e] # "unused"
      /\ \A k \in Slots : k # e => u.entity_states[k] = t.entity_states[k]
      /\ u.sequences = t.sequences /\ u.global_sequence = t.global_sequence
      /\ t.sequences[e] = id
  BY <1>3, <1>4, <1>5, <1>6, LiveTyped DEF Snapshot, InUse
<1>9. \A other \in Ids : Holding(u, other) = Holding(t, other)
  BY <1>8 DEF Holding
<1>10. e \in Holding(t, id) BY <1>8 DEF Holding
<1>11. LifeIn(u)[id] = "pending_remove" BY <1>7, <1>8, <1>9, <1>10, LifeShape
<1>12. ASSUME NEW other \in Ids, other # id PROVE LifeIn(u)[other] = LifeIn(t)[other]
  <2>1. \A k \in Holding(t, other) : u.entity_states[k] = t.entity_states[k]
    BY <1>8, <1>12 DEF Holding
  <2>2. QED BY <1>7, <1>8, <1>9, <2>1, SameLife
<1>13. Life = LifeIn(t) /\ Life' = LifeIn(u)
  BY <1>5, <1>6 DEF Life
<1>14. Life' = [Life EXCEPT ![id] = "pending_remove"]
  BY <1>11, <1>12, <1>13 DEF LifeIn, Ids
<1>15. Lives!Alive(id) BY <1>5, <1>10, LifeStages
<1>16. UNCHANGED Saved BY <1>3 DEF Saved
<1>17. QED BY <1>14, <1>15, <1>16 DEF Lives!Remove, Ids

LEMMA UpdateFrames ==
  ASSUME TableInv, TableInv', Update
  PROVE  Lives!Frame
<1>1. PICK t : t = Snapshot OBVIOUS
<1>2. PICK u : u = Snapshot' OBVIOUS
<1>3. Sound(t) /\ Sound(u) BY <1>1, <1>2 DEF TableInv
<1>4. /\ u.sequences = t.sequences /\ u.global_sequence = t.global_sequence
      /\ \A i \in Slots : u.entity_states[i] =
           CASE t.entity_states[i] = "pending_add"    -> "active"
             [] t.entity_states[i] = "pending_remove" -> "unused"
             [] OTHER                                 -> t.entity_states[i]
  BY <1>1, <1>2 DEF Update, Snapshot
<1>5. \A id \in Ids : Holding(u, id) \subseteq Holding(t, id) BY <1>4 DEF Holding
<1>6. ASSUME NEW id \in Ids
      PROVE  LifeIn(u)[id] = CASE LifeIn(t)[id] = "pending_add"    -> "active"
                               [] LifeIn(t)[id] = "pending_remove" -> "dead"
                               [] OTHER                            -> LifeIn(t)[id]
  <2>1. CASE Holding(t, id) = {}
    <3>1. Holding(u, id) = {} BY <1>5, <2>1
    <3>2. LifeIn(u)[id] = LifeIn(t)[id] BY <1>3, <1>4, <2>1, <3>1, SameLife
    <3>3. LifeIn(t)[id] \in {"unborn", "dead"} BY <1>3, <2>1, LifeShape
    <3>4. QED BY <3>2, <3>3
  <2>2. CASE Holding(t, id) # {}
    <3>1. PICK i \in Holding(t, id) : TRUE BY <2>2
    <3>2. i \in Slots /\ t.entity_states[i] # "unused" /\ t.sequences[i] = id
      BY <3>1 DEF Holding
    <3>3. LifeIn(t)[id] = t.entity_states[i] /\ id < t.global_sequence
          /\ LifeIn(t)[id] \in {"pending_add", "active", "pending_remove"}
      BY <1>3, <3>1, LifeShape
    <3>4. \A j \in Holding(t, id) : j = i BY <1>3, <3>2 DEF Holding, Sound
    <3>5. CASE t.entity_states[i] = "pending_remove"
      <4>1. u.entity_states[i] = "unused" BY <1>4, <3>2, <3>5
      <4>2. Holding(u, id) = {} BY <1>5, <3>4, <4>1 DEF Holding
      <4>3. ~(id >= u.global_sequence)
        BY <1>3, <1>4, <3>3, EntitiesAssumption DEF Ids, Sound, Table
      <4>4. LifeIn(u)[id] = "dead" BY <1>3, <4>2, <4>3, LifeShape
      <4>5. QED BY <3>3, <3>5, <4>4
    <3>6. CASE t.entity_states[i] \in {"pending_add", "active"}
      <4>1. u.entity_states[i] = "active" BY <1>4, <3>2, <3>6
      <4>2. i \in Holding(u, id) BY <1>4, <3>2, <4>1 DEF Holding
      <4>3. LifeIn(u)[id] = "active" BY <1>3, <4>1, <4>2, LifeShape
      <4>4. QED BY <3>3, <3>6, <4>3
    <3>7. QED BY <3>3, <3>5, <3>6
  <2>3. QED BY <2>1, <2>2
<1>7. Life = LifeIn(t) /\ Life' = LifeIn(u) BY <1>1, <1>2 DEF Life
<1>8. LifeIn(u) = [id \in Ids |-> LifeIn(u)[id]] BY DEF LifeIn, Ids
<1>9. UNCHANGED Saved BY DEF Update, Saved
<1>10. QED BY <1>6, <1>7, <1>8, <1>9 DEF Lives!Frame, Ids

(* A loaded game brings the saved lives back.  The count of entities ever  *)
(* added, which is not loaded, has no part in a life.                      *)
LEMMA LoadLoads ==
  ASSUME TableInv, TableInv', LoadGame
  PROVE  Lives!Load
<1>1. PICK t : t = savegame[1] OBVIOUS
<1>2. PICK u : u = Snapshot' OBVIOUS
<1>3. savegame # <<>> /\ savegame' = savegame BY DEF LoadGame
<1>4. Sound(t) /\ Sound(u) BY <1>1, <1>2, <1>3 DEF TableInv
<1>5. /\ u.sequences = t.sequences /\ u.global_sequence = t.global_sequence
      /\ u.entity_states = t.entity_states
  BY <1>1, <1>2 DEF LoadGame, Restore, Snapshot
<1>6. \A id \in Ids : LifeIn(u)[id] = LifeIn(t)[id]
  BY <1>4, <1>5, SameLife DEF Holding
<1>7. LifeIn(u) = LifeIn(t) BY <1>6 DEF LifeIn, Ids
<1>8. Saved = <<LifeIn(t)>> /\ Life' = LifeIn(u)
  BY <1>1, <1>2, <1>3 DEF Saved, Life
<1>9. UNCHANGED Saved BY <1>3 DEF Saved
<1>10. QED BY <1>7, <1>8, <1>9 DEF Lives!Load

LEMMA NextLives ==
  TypeInv /\ TableInv /\ TableInv' /\ [Next]_vars => [Lives!Next]_<<Life, Saved>>
<1> SUFFICES ASSUME TypeInv, TableInv, TableInv', [Next]_vars
             PROVE  Lives!Next \/ UNCHANGED <<Life, Saved>>
  OBVIOUS
<1>1. CASE \/ Setup \/ OutOfEntities \/ Queries \/ Finished \/ UNCHANGED vars
  <2>1. UNCHANGED <<table, spawned, savegame>>
    BY <1>1 DEF Setup, RegisterComponentType, Destroy, OutOfEntities, Queries, QueryCreate,
                QueryNext, QueryGetEntity, Finished, vars
  <2>2. Snapshot' = Snapshot BY <2>1 DEF table, Snapshot
  <2>3. QED BY <2>1, <2>2 DEF Life, Saved
<1>2. ASSUME NEW mask \in Masks, EntityAdd(mask) PROVE Lives!Next
  BY <1>2, AddSpawns DEF Lives!Next, Ids
<1>3. ASSUME NEW r \in refs, NEW allow \in BOOLEAN, EntityRemove(r, allow)
      PROVE  Lives!Next
  BY <1>3, RemoveRemoves DEF Lives!Next, Ids
<1>4. CASE Update BY <1>4, UpdateFrames DEF Lives!Next
<1>5. CASE SaveGame
  <2>1. savegame' = <<Snapshot>> /\ Snapshot' = Snapshot
    BY <1>5 DEF SaveGame, table, Snapshot
  <2>2. Saved' = <<Life>> /\ Life' = Life BY <2>1 DEF Saved, Life
  <2>3. QED BY <2>2 DEF Lives!Next, Lives!Save
<1>6. CASE LoadGame BY <1>6, LoadLoads DEF Lives!Next
<1>7. CASE SaveFails \/ LoadFails
  <2>1. UNCHANGED Snapshot /\ savegame' \in {savegame, <<>>}
    BY <1>7 DEF SaveFails, LoadFails, vars, table, Snapshot
  <2>2. UNCHANGED Life BY <2>1 DEF Life
  <2>3. Saved' = Saved \/ Saved' = <<>> BY <2>1 DEF Saved
  <2>4. QED BY <2>2, <2>3 DEF Lives!Next, Lives!Lose
<1>8. QED
  BY <1>1, <1>2, <1>3, <1>4, <1>5, <1>6, <1>7 DEF Next, Entities, Persistence

(* The table implements the lives of entities, saved games included: each  *)
(* has one, in the stages ecs.h describes.                                 *)
THEOREM TableImplementsLives == Spec => EntitiesLiveOnce
<1>1. Spec => []TableInv BY InitTableInv, NextTableInv, PTL DEF Spec
<1>2. Spec => []TypeInv BY <1>1, InitTypeInv, NextTypeInv, PTL DEF Spec
<1>3. QED
  BY <1>1, <1>2, InitLife, NextLives, PTL DEF Spec, EntitiesLiveOnce, Lives!Spec
=============================================================================
