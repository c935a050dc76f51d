-------------------------------- MODULE Ecs --------------------------------
(***************************************************************************)
(* ecs.c: a fixed table of entity slots, each with a state, a sequence     *)
(* number and a component mask, and one array of component data per        *)
(* component type.  A reference is a slot and the sequence number it had;  *)
(* a query is a cursor over the slots that survives changes to the table.  *)
(* ecs_save_game and ecs_load_game copy the table to and from a file.      *)
(***************************************************************************)
EXTENDS Integers, Sequences, FiniteSets

CONSTANTS MaxEntities,   \* k_max_entities (512 in the code)
          MaxTypes,      \* k_max_component_types (64 in the code)
          MaxAdds        \* bound: entities ever added

ASSUME EntitiesAssumption == MaxEntities \in Nat \ {0} /\ MaxAdds \in Nat
ASSUME TypesAssumption    == MaxTypes \in Nat \ {0}

VARIABLES global_sequence, sequences, entity_states, component_masks,
          components,        \* components[t]: the memory block the pointer is in
          save_component,
          blocks,            \* component arrays allocated and not freed
          badFrees,          \* pointers given to heap_free that were not blocks
          savegame,          \* the save in the file "savegame": <<>> or <<it>>
          refs,              \* the references the game holds, the invalid one among them
          query,             \* the query in progress
          spawned,           \* history: number of entities ever added
          identity,          \* history: which of them each slot holds
          visited,           \* history: slots the query met
          frame,             \* history: slots active when the frame began
          loaded,            \* history: when the last ecs_load_game was
          abandoned          \* history: entities added after the save loaded

table  == <<global_sequence, sequences, entity_states, component_masks, identity>>
memory == <<components, save_component, blocks, badFrees>>
cursor == <<query, visited, frame>>
loads  == <<loaded, abandoned>>
vars == <<table, memory, savegame, refs, cursor, spawned, loads>>

Slots == 0 .. MaxEntities - 1
Types == 0 .. MaxTypes - 1
Masks == SUBSET Types
NULL  == <<"null", 0>>
Gone  == <<"destroyed", 0>>
States == {"unused", "pending_add", "active", "pending_remove"}
NoQuery == [at |-> "none", component_mask |-> {}, entity |-> -1]
NoEntity == [entity |-> -1, sequence |-> -1, id |-> 0]

Smallest(S) == CHOOSE i \in S : \A j \in S : i <= j

Init == /\ global_sequence = 1
        /\ sequences = [i \in Slots |-> 0]
        /\ entity_states = [i \in Slots |-> "unused"]
        /\ component_masks = [i \in Slots |-> {}]
        /\ components = [t \in Types |-> NULL]
        /\ save_component = [t \in Types |-> FALSE]
        /\ blocks = {} /\ badFrees = {}
        /\ savegame = <<>>
        /\ refs = {NoEntity}
        /\ query = NoQuery /\ visited = <<>> /\ frame = {}
        /\ spawned = 0 /\ identity = [i \in Slots |-> 0]
        /\ loaded = "never" /\ abandoned = {}

-----------------------------------------------------------------------------
(* Component types.  After ecs_destroy nothing is called any more.         *)

Destroyed == components = [t \in Types |-> Gone]

RegisterComponentType(save) ==
  LET free == {t \in Types : components[t] = NULL}
      t == Smallest(free)
  IN /\ free # {}
     /\ components' = [components EXCEPT ![t] = <<"array", t>>]
     /\ blocks' = blocks \cup {<<"array", t>>}
     /\ save_component' = [save_component EXCEPT ![t] = save]
     /\ UNCHANGED <<table, badFrees, savegame, refs, cursor, spawned, loads>>

(* FAULT: the last component type is left out of the loop. *)
DestroyAllButLast ==
  /\ ~Destroyed /\ query.at # "open"
  /\ LET freed == {components[t] : t \in Types \ {MaxTypes - 1}} \ {NULL}
     IN blocks' = blocks \ freed /\ badFrees' = badFrees \cup (freed \ blocks)
  /\ components' = [t \in Types |-> Gone]
  /\ UNCHANGED <<table, save_component, savegame, refs, cursor, spawned, loads>>

Destroy ==
  /\ ~Destroyed /\ query.at # "open"
  /\ LET freed == {components[t] : t \in Types} \ {NULL}
     IN blocks' = blocks \ freed /\ badFrees' = badFrees \cup (freed \ blocks)
  /\ components' = [t \in Types |-> Gone]
  /\ UNCHANGED <<table, save_component, savegame, refs, cursor, spawned, loads>>

-----------------------------------------------------------------------------
(* Entities *)

IsEntityRefValid(r, allow_pending_add) ==
  /\ r.entity >= 0
  /\ sequences[r.entity] = r.sequence
  /\ entity_states[r.entity] \in
       {"active", "pending_remove"} \cup (IF allow_pending_add THEN {"pending_add"} ELSE {})

(* FAULT: sequence numbers are per slot, and start again when it is reused. *)
EntityAddPerSlot(mask) ==
  LET unused == {i \in Slots : entity_states[i] = "unused"}
      i == Smallest(unused)
  IN /\ ~Destroyed /\ spawned < MaxAdds /\ unused # {}
     /\ entity_states' = [entity_states EXCEPT ![i] = "pending_add"]
     /\ sequences' = [sequences EXCEPT ![i] = 1]
     /\ component_masks' = [component_masks EXCEPT ![i] = mask]
     /\ spawned' = spawned + 1
     /\ identity' = [identity EXCEPT ![i] = spawned + 1]
     /\ refs' = refs \cup {[entity |-> i, sequence |-> 1, id |-> spawned + 1]}
     /\ UNCHANGED <<global_sequence, memory, savegame, cursor, loads>>

EntityAdd(mask) ==
  LET unused == {i \in Slots : entity_states[i] = "unused"}
      i == Smallest(unused)
  IN /\ ~Destroyed /\ spawned < MaxAdds /\ unused # {}
     /\ entity_states' = [entity_states EXCEPT ![i] = "pending_add"]
     /\ sequences' = [sequences EXCEPT ![i] = global_sequence]
     /\ global_sequence' = global_sequence + 1
     /\ component_masks' = [component_masks EXCEPT ![i] = mask]
     /\ spawned' = spawned + 1
     /\ identity' = [identity EXCEPT ![i] = spawned + 1]
     /\ refs' = refs \cup {[entity |-> i, sequence |-> global_sequence, id |-> spawned + 1]}
     /\ UNCHANGED <<memory, savegame, cursor, loads>>

OutOfEntities ==
  /\ ~Destroyed
  /\ \A i \in Slots : entity_states[i] # "unused"
  /\ refs' = refs \cup {NoEntity}
  /\ UNCHANGED <<table, memory, savegame, cursor, spawned, loads>>

(* FAULT: a removed entity is freed at once, under a query in progress. *)
EntityRemoveAtOnce(r, allow_pending_add) ==
  /\ ~Destroyed
  /\ IsEntityRefValid(r, allow_pending_add)
  /\ entity_states' = [entity_states EXCEPT ![r.entity] = "unused"]
  /\ UNCHANGED <<global_sequence, sequences, component_masks, identity, memory,
                 savegame, refs, cursor, spawned, loads>>

(* With an invalid reference only a warning is printed.                    *)
EntityRemove(r, allow_pending_add) ==
  /\ ~Destroyed
  /\ IsEntityRefValid(r, allow_pending_add)
  /\ entity_states' = [entity_states EXCEPT ![r.entity] = "pending_remove"]
  /\ UNCHANGED <<global_sequence, sequences, component_masks, identity, memory,
                 savegame, refs, cursor, spawned, loads>>

(* ecs_update starts a frame; no query is held across frames               *)
(* (frogger_game_update).                                                  *)
Update == /\ ~Destroyed /\ query.at # "open"
          /\ entity_states' = [i \in Slots |->
               CASE entity_states[i] = "pending_add"    -> "active"
                 [] entity_states[i] = "pending_remove" -> "unused"
                 [] OTHER                               -> entity_states[i]]
          /\ frame' = {i \in Slots : entity_states'[i] = "active"}
          /\ query' = NoQuery /\ visited' = <<>>
          /\ loaded' = IF loaded = "this frame" THEN "before" ELSE loaded
          /\ UNCHANGED <<global_sequence, sequences, component_masks, identity, memory,
                         savegame, refs, spawned, abandoned>>

(* The memory block the returned pointer is in.                            *)
GetComponent(r, t, allow_pending_add) ==
  IF IsEntityRefValid(r, allow_pending_add) THEN components[t] ELSE NULL

-----------------------------------------------------------------------------
(* Queries *)

(* FAULT: an entity that was removed is skipped. *)
MatchesActiveOnly(i, mask) ==
  mask \subseteq component_masks[i] /\ entity_states[i] = "active"

Matches(i, mask) ==
  mask \subseteq component_masks[i] /\ entity_states[i] \in {"active", "pending_remove"}

(* The cursor moves to the next match after slot i, or to -1.              *)
Advance(mask, i) ==
  LET next == {j \in Slots : j > i /\ Matches(j, mask)}
  IN IF next = {}
     THEN /\ query' = [at |-> "ended", component_mask |-> mask, entity |-> -1]
          /\ UNCHANGED visited
     ELSE /\ query' = [at |-> "open", component_mask |-> mask, entity |-> Smallest(next)]
          /\ visited' = Append(visited, Smallest(next))

QueryCreate(mask) ==
  /\ ~Destroyed /\ query.at = "none"
  /\ Advance(mask, -1)
  /\ UNCHANGED <<table, memory, savegame, refs, frame, spawned, loads>>

QueryNext ==
  /\ query.at = "open"
  /\ Advance(query.component_mask, query.entity)
  /\ UNCHANGED <<table, memory, savegame, refs, frame, spawned, loads>>

QueryGetEntity ==
  /\ query.at = "open"
  /\ refs' = refs \cup {[entity |-> query.entity, sequence |-> sequences[query.entity],
                         id |-> identity[query.entity]]}
  /\ UNCHANGED <<table, memory, savegame, cursor, spawned, loads>>

-----------------------------------------------------------------------------
(* Saving and loading.  Both wait for the file, so they are one step of    *)
(* the main thread; the game calls them inside a query.                    *)

Snapshot == [global_sequence |-> global_sequence, sequences |-> sequences,
             entity_states |-> entity_states, component_masks |-> component_masks,
             identity |-> identity, spawned |-> spawned]

SaveGame == /\ ~Destroyed
            /\ savegame' = <<Snapshot>>
            /\ UNCHANGED <<table, memory, refs, cursor, spawned, loads>>

(* Nobody looks at the result of the write (ecs.c:107).  Not opened, the   *)
(* file is what it was; opened and not written, it is empty.               *)
SaveFails == /\ ~Destroyed
             /\ savegame' \in {savegame, <<>>}
             /\ UNCHANGED <<table, memory, refs, cursor, spawned, loads>>

(* FAULT: the sequence counter is not restored with the table it numbers. *)
RestoreStale == /\ global_sequence' = 1
                /\ sequences' = savegame[1].sequences
                /\ entity_states' = savegame[1].entity_states
                /\ component_masks' = savegame[1].component_masks
                /\ identity' = savegame[1].identity
                /\ loaded' = "this frame"
                /\ abandoned' = abandoned \cup (savegame[1].spawned + 1 .. spawned)

Restore == /\ global_sequence' = savegame[1].global_sequence
           /\ sequences' = savegame[1].sequences
           /\ entity_states' = savegame[1].entity_states
           /\ component_masks' = savegame[1].component_masks
           /\ identity' = savegame[1].identity
           /\ loaded' = "this frame"
           /\ abandoned' = abandoned \cup (savegame[1].spawned + 1 .. spawned)

(* The pointer of each saved component type ends up inside the buffer of   *)
(* the file, which is then freed; its old array is not.                    *)
LoadGame == /\ ~Destroyed /\ savegame # <<>>
            /\ Restore
            /\ components' = [t \in Types |->
                 IF save_component[t] THEN <<"file buffer", t>> ELSE components[t]]
            /\ UNCHANGED <<save_component, blocks, badFrees, savegame, refs, cursor, spawned>>

(* There is no file or it is not read: ecs_load_game returns at once.  It  *)
(* never destroys the work, a leak that module Fs allows for.  A file that *)
(* is empty is read without error; the table is then taken from whatever   *)
(* is behind the file's buffer, and that load is not modelled.             *)
LoadFails == ~Destroyed /\ UNCHANGED vars

-----------------------------------------------------------------------------
Setup == (\E save \in BOOLEAN : RegisterComponentType(save)) \/ Destroy

Entities == \/ \E mask \in Masks : EntityAdd(mask)
            \/ OutOfEntities
            \/ \E r \in refs, allow \in BOOLEAN : EntityRemove(r, allow)
            \/ Update

Queries == (\E mask \in Masks : QueryCreate(mask)) \/ QueryNext \/ QueryGetEntity

Persistence == SaveGame \/ SaveFails \/ LoadGame \/ LoadFails

Finished == Destroyed /\ UNCHANGED vars

Next == Setup \/ Entities \/ Queries \/ Persistence \/ Finished

Spec == Init /\ [][Next]_vars

-----------------------------------------------------------------------------
(* Types of the state. *)
Refs == [entity : Slots, sequence : 0 .. MaxAdds, id : 0 .. MaxAdds]
TypeOK ==
  /\ global_sequence \in 1 .. MaxAdds + 1
  /\ sequences \in [Slots -> 0 .. MaxAdds]
  /\ entity_states \in [Slots -> States]
  /\ component_masks \in [Slots -> Masks]
  /\ refs \subseteq Refs \cup {NoEntity}
  /\ query \in [at : {"none", "open", "ended"}, component_mask : Masks,
                entity : Slots \cup {-1}]
  /\ spawned \in 0 .. MaxAdds
  /\ identity \in [Slots -> 0 .. MaxAdds]
  /\ loaded \in {"never", "before", "this frame"}

(* No two live entities carry the same sequence number, and the next one   *)
(* is larger than all in use, also after a load.  (ecs.c:132, 259)         *)
InUse(i) == entity_states[i] # "unused"
UniqueSequences ==
  /\ \A i, j \in Slots : InUse(i) /\ InUse(j) /\ sequences[i] = sequences[j] => i = j
  /\ \A i \in Slots : sequences[i] < global_sequence

(* A reference never comes to mean another entity than the one it was      *)
(* returned for, whatever is removed, saved and loaded; only those to      *)
(* entities added after the save that was then loaded may, because their   *)
(* sequence numbers are handed out again.  ("Weak reference to an          *)
(* entity.", ecs.h:16)                                                     *)
RefsNeverAlias ==
  \A r \in refs : IsEntityRefValid(r, TRUE) /\ r.id \notin abandoned =>
    identity[r.entity] = r.id

(* A query meets the entities that were active when the frame began,       *)
(* whatever its body adds and removes meanwhile, unless it loads; and      *)
(* besides these only entities both added and removed in this frame.       *)
(* ("Working data for an active entity query.", ecs.h:23)                  *)
Met    == {visited[k] : k \in DOMAIN visited}
ToMeet == {i \in frame : query.component_mask \subseteq component_masks[i]}
QueryMeetsFrame ==
  query.at = "ended" /\ loaded # "this frame" =>
    /\ ToMeet \subseteq Met
    /\ \A i \in Met \ ToMeet : i \notin frame /\ entity_states[i] = "pending_remove"

(* A component pointer is in memory that is allocated.  ("Get the memory   *)
(* for a component on an entity.", ecs.h:60)                               *)
ComponentIsAllocated ==
  \A r \in refs, t \in Types :
    GetComponent(r, t, TRUE) \notin {NULL, Gone} => GetComponent(r, t, TRUE) \in blocks

(* ecs_destroy frees every array once, and nothing else; after a load it   *)
(* fails to for the component types that are saved.  (ecs.c:182, 203-209)  *)
DestroyFreesAll ==
  Destroyed =>
    /\ \A b \in blocks   : loaded # "never" /\ save_component[b[2]]
    /\ \A b \in badFrees : loaded # "never" /\ b[1] = "file buffer"

-----------------------------------------------------------------------------
(* Entities as ecs.h describes them: named by their sequence numbers.  The *)
(* stage of each is the state of the slot that holds it.                   *)
Holding(t, id) == {i \in Slots : t.entity_states[i] # "unused" /\ t.sequences[i] = id}
LifeIn(t) == [id \in 1 .. MaxAdds |->
                LET held == Holding(t, id)
                IN CASE held # {}              -> t.entity_states[Smallest(held)]
                     [] id >= t.global_sequence -> "unborn"
                     [] OTHER                   -> "dead"]
Life  == LifeIn(Snapshot)
Saved == IF savegame = <<>> THEN <<>> ELSE <<LifeIn(savegame[1])>>

Lives == INSTANCE EntityLife WITH Ids <- 1 .. MaxAdds, life <- Life, saved <- Saved

(* The table implements the lives of entities. *)
EntitiesLiveOnce == Lives!Spec
=============================================================================
