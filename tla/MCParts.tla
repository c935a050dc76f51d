------------------------------- MODULE MCParts -------------------------------
(***************************************************************************)
(* The parts that share no state with another, checked one at a time:      *)
(* which one is chosen at the start, and the others stay as they are.      *)
(***************************************************************************)
EXTENDS Gpu, Heap, TimerObject, Window, Transforms, Game

VARIABLE part

(* The timers of the code have no parent, or the first of them.            *)
FirstTimer == CHOOSE x \in Timers : TRUE
MayFollowFirst == [x \in Timers |-> IF x = FirstTimer THEN {NoTimer} ELSE {FirstTimer}]

gpuVars   == vars
spaceVars == <<transform, matrix>>

PartsInit ==
  /\ part \in {"gpu", "heap", "timer", "window", "space", "game"}
  /\ Init /\ HeapInit /\ TimerInit /\ WindowInit /\ SpaceInit /\ GameInit

GpuPart    == /\ part = "gpu" /\ Next
              /\ UNCHANGED <<heapVars, timerVars, windowVars, spaceVars, gameVars, part>>
HeapPart   == /\ part = "heap" /\ HeapNext
              /\ UNCHANGED <<gpuVars, timerVars, windowVars, spaceVars, gameVars, part>>
TimerPart  == /\ part = "timer" /\ TimerNext
              /\ UNCHANGED <<gpuVars, heapVars, windowVars, spaceVars, gameVars, part>>
WindowPart == /\ part = "window" /\ WindowNext
              /\ UNCHANGED <<gpuVars, heapVars, timerVars, spaceVars, gameVars, part>>
SpacePart  == /\ part = "space" /\ SpaceNext
              /\ UNCHANGED <<gpuVars, heapVars, timerVars, windowVars, gameVars, part>>
GamePart   == /\ part = "game" /\ GameNext
              /\ UNCHANGED <<gpuVars, heapVars, timerVars, windowVars, spaceVars, part>>

PartsNext == GpuPart \/ HeapPart \/ TimerPart \/ WindowPart \/ SpacePart \/ GamePart

PartsSpec == PartsInit /\ [][PartsNext]_<<gpuVars, heapVars, timerVars, windowVars, spaceVars,
                                         gameVars, part>>

(* Transforms!MatrixFollowsTransform, where there is something to see.     *)
SpaceFollows == part = "space" => MatrixFollowsTransform
=============================================================================
