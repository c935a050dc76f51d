----------------------------- MODULE EntityLife -----------------------------
(***************************************************************************)
(* What ecs.h promises of entities: each has one life, is named by the     *)
(* reference its spawning returned, and changes stage only when the frame  *)
(* does; and a saved game brings all lives back to where they were, until  *)
(* another save takes its place or, failing, leaves none.                  *)
(***************************************************************************)
EXTENDS Integers, FiniteSets

CONSTANTS Ids,           \* names of entities, 1, 2, ... in order of spawning
          MaxEntities    \* entities that can be alive at once

VARIABLES life,          \* stage of each entity's life
          saved          \* the lives last saved: <<>> or <<life>>

Stages == {"unborn", "pending_add", "active", "pending_remove", "dead"}

Alive(id) == life[id] \in {"pending_add", "active", "pending_remove"}

Init == life = [id \in Ids |-> "unborn"] /\ saved = <<>>

(* Entities are spawned in the order of their names. *)
Spawn(id) == /\ life[id] = "unborn"
             /\ \A other \in Ids : other < id => life[other] # "unborn"
             /\ Cardinality({other \in Ids : Alive(other)}) < MaxEntities
             /\ life' = [life EXCEPT ![id] = "pending_add"]
             /\ UNCHANGED saved

Remove(id) == /\ Alive(id)
              /\ life' = [life EXCEPT ![id] = "pending_remove"]
              /\ UNCHANGED saved

Frame == /\ life' = [id \in Ids |->
              CASE life[id] = "pending_add"    -> "active"
                [] life[id] = "pending_remove" -> "dead"
                [] OTHER                       -> life[id]]
         /\ UNCHANGED saved

Save == saved' = <<life>> /\ UNCHANGED life

Lose == saved' = <<>> /\ UNCHANGED life

Load == /\ saved # <<>>
        /\ life' = saved[1]
        /\ UNCHANGED saved

Next == Frame \/ Save \/ Lose \/ Load \/ \E id \in Ids : Spawn(id) \/ Remove(id)

Spec == Init /\ [][Next]_<<life, saved>>
=============================================================================
