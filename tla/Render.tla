------------------------------- MODULE Render -------------------------------
(***************************************************************************)
(* render.c and the frame loop of gpu.c.  The main thread pushes models    *)
(* and end-of-frame markers into a queue of three; the render thread turns *)
(* them into command buffers, one per frame; the GPU executes submitted    *)
(* frames in order, some frames behind.                                    *)
(*                                                                         *)
(* Three tables cache what the GPU draws with: an instance per entity, a   *)
(* mesh and a shader (with its pipeline) per info pointer.  What was not   *)
(* drawn for FrameCount frames is destroyed after a frame ends.            *)
(*                                                                         *)
(* The queue is the FIFO of module BoundedFifo: one thread pushes, one     *)
(* pops.                                                                   *)
(***************************************************************************)
EXTENDS Integers, Sequences, FiniteSets

CONSTANTS Models,        \* what main pushes: <<entity, mesh info, shader info>>
          Kept,          \* the infos that main draws in every frame
          QueueCapacity, \* argument of queue_create (3 in the code)
          MaxDrawables,  \* k_render_max_drawables (512 in the code)
          PoolSets,      \* maxSets of the descriptor pool (512 in the code)
          FrameCount,    \* images of the swap chain: gpu_get_frame_count
          MaxFrames      \* bound: frames main pushes

ASSUME SizesAssumption == /\ QueueCapacity \in Nat \ {0} /\ MaxDrawables \in Nat \ {0}
                          /\ PoolSets \in Nat /\ MaxFrames \in Nat
ASSUME FramesAssumption == FrameCount \in Nat \ {0}

VARIABLES queue, main,
          pushed,          \* models main has pushed for its current frame
          framesPushed,
          at,              \* where the render thread is
          table,           \* instances, meshes and shaders of render_t
          frame_counter,
          cmdbuf,          \* the command buffer being recorded
          last_pipeline, last_mesh,
          frame_index,     \* gpu_t.frame_index
          fence,           \* the fence of each of gpu_t.frames
          inFlight,        \* frames submitted to the GPU and not complete
          freeSets,        \* descriptor sets left in the pool
          live,            \* GPU objects created and not destroyed
          badDestroys      \* objects destroyed while not live

client == <<main, pushed, framesPushed>>
local  == <<cmdbuf, last_pipeline, last_mesh>>
store  == <<table, freeSets, live, badDestroys>>
device == <<frame_index, fence, inFlight>>
vars == <<queue, client, at, frame_counter, local, store, device>>

Kinds   == {"instance", "mesh", "shader"}
Indices == 0 .. FrameCount - 1
Info(model, kind) == model[CASE kind = "instance" -> 1 [] kind = "mesh" -> 2 [] OTHER -> 3]

(* An object is named by what it was created for and when.                 *)
NULL == <<"null", 0, 0>>
Object(kind, info) == <<kind, info, frame_counter>>

(* The two commands that are no models. *)
Done == <<"frame done">>
Stop == <<"stop">>
ASSUME ModelsAssumption == Done \notin Models /\ Stop \notin Models

Closed == [open |-> FALSE, pipeline |-> NULL, mesh |-> NULL, draws |-> {}]

EmptySlot == [info |-> NULL, object |-> NULL, used |-> 0, sets |-> 0]

(* FAULT: the fences are created without VK_FENCE_CREATE_SIGNALED_BIT. *)
InitUnsignaled ==
  /\ queue = <<>>
  /\ main = "running" /\ pushed = {} /\ framesPushed = 0
  /\ at = "pop"
  /\ table = [k \in Kinds |->
       [count |-> 0, slots |-> [i \in 0 .. MaxDrawables - 1 |-> EmptySlot]]]
  /\ frame_counter = 0
  /\ cmdbuf = Closed /\ last_pipeline = NULL /\ last_mesh = NULL
  /\ frame_index = 0
  /\ fence = [i \in Indices |-> "reset"]
  /\ inFlight = <<>>
  /\ freeSets = PoolSets /\ live = {} /\ badDestroys = {}

Init == /\ queue = <<>>
        /\ main = "running" /\ pushed = {} /\ framesPushed = 0
        /\ at = "pop"
        /\ table = [k \in Kinds |->
             [count |-> 0, slots |-> [i \in 0 .. MaxDrawables - 1 |-> EmptySlot]]]
        /\ frame_counter = 0
        /\ cmdbuf = Closed /\ last_pipeline = NULL /\ last_mesh = NULL
        /\ frame_index = 0
        /\ fence = [i \in Indices |-> "signaled"]
        /\ inFlight = <<>>
        /\ freeSets = PoolSets /\ live = {} /\ badDestroys = {}

-----------------------------------------------------------------------------
(* The main thread: frogger_game_update pushes the models of a frame, each *)
(* entity once, and an end-of-frame marker; main stops between frames.     *)

Push(command) == Len(queue) < QueueCapacity /\ queue' = Append(queue, command)

PushModel(model) ==
  /\ main = "running" /\ framesPushed < MaxFrames
  /\ \A other \in pushed : other[1] # model[1]
  /\ Push(model)
  /\ pushed' = pushed \cup {model}
  /\ UNCHANGED <<main, framesPushed, at, frame_counter, local, store, device>>

PushDone ==
  /\ main = "running" /\ framesPushed < MaxFrames
  /\ Kept \subseteq {model[2] : model \in pushed} \cup {model[3] : model \in pushed}
  /\ Push(Done)
  /\ pushed' = {} /\ framesPushed' = framesPushed + 1
  /\ UNCHANGED <<main, at, frame_counter, local, store, device>>

Destroy == /\ main = "running" /\ pushed = {}
           /\ Push(Stop)
           /\ main' = "joining"
           /\ UNCHANGED <<pushed, framesPushed, at, frame_counter, local, store, device>>

Joined == /\ main = "joining" /\ at = "exited"
          /\ main' = "joined"
          /\ UNCHANGED <<queue, pushed, framesPushed, at, frame_counter, local, store, device>>

(* frogger_game_destroy frees the mesh and shader infos.                   *)
GameDestroyed == /\ main = "joined"
                 /\ main' = "infos freed"
                 /\ UNCHANGED <<queue, pushed, framesPushed, at, frame_counter, local,
                                store, device>>

-----------------------------------------------------------------------------
(* create_or_get_*_for_model_command                                       *)

Used(kind) == 0 .. table[kind].count - 1

(* The slot that has the info, or else the first after the used ones.      *)
Place(kind, info) ==
  LET found == {i \in Used(kind) : table[kind].slots[i].info = info}
  IN IF found # {} THEN CHOOSE i \in found : \A j \in found : i <= j
                   ELSE table[kind].count

(* A mesh or shader is created only if the slot's pointer is NULL, which   *)
(* the pointer of a slot in use before is not; an instance is created in   *)
(* every new slot.                                                         *)
Creates(kind, info) ==
  LET i == Place(kind, info)
  IN IF kind = "instance" THEN i = table[kind].count
                          ELSE table[kind].slots[i].object = NULL

ObjectFor(kind, info) ==
  IF Creates(kind, info) THEN Object(kind, info)
                         ELSE table[kind].slots[Place(kind, info)].object

(* The descriptor sets an instance gets, one for each frame of the GPU.    *)
SetsFor(kind, info) ==
  IF kind # "instance" THEN 0
  ELSE IF ~Creates(kind, info) THEN table[kind].slots[Place(kind, info)].sets
  ELSE IF freeSets < FrameCount THEN freeSets ELSE FrameCount

CreateOrGet(kind, info) ==
  LET i == Place(kind, info)
  IN [count |-> IF i = table[kind].count THEN i + 1 ELSE table[kind].count,
      slots |-> [table[kind].slots EXCEPT ![i] =
                   [info |-> info, object |-> ObjectFor(kind, info),
                    used |-> frame_counter, sets |-> SetsFor(kind, info)]]]

(* The table has room, and the descriptor that is to be bound exists:      *)
(* nothing is drawn where an assertion fails or NULL is dereferenced.      *)
Fits(model) == \A k \in Kinds : Place(k, Info(model, k)) < MaxDrawables
HasDescriptor(model) == SetsFor("instance", model[1]) > frame_counter % FrameCount

-----------------------------------------------------------------------------
(* destroy_stale_data                                                      *)

(* FAULT: one frame too early. *)
StaleEarly(slot, now) == slot.used + FrameCount <= now + 1

Stale(slot, now) == slot.used + FrameCount <= now

(* From the last slot to the first, a stale one is destroyed and the last  *)
(* used slot copied over it; what the last slot held stays there.          *)
Reclaimed(t, now, before) ==
  LET Sweep[i \in 0 .. t.count] ==
        IF i = t.count THEN [t |-> t, live |-> before, bad |-> {}, sets |-> 0]
        ELSE LET s == Sweep[i + 1]
                 slot == s.t.slots[i]
             IN IF Stale(slot, now)
                THEN [t |-> [count |-> s.t.count - 1,
                             slots |-> [s.t.slots EXCEPT ![i] = s.t.slots[s.t.count - 1]]],
                      live |-> s.live \ {slot.object},
                      bad |-> s.bad \cup ({slot.object} \ s.live),
                      sets |-> s.sets + slot.sets]
                ELSE s
  IN Sweep[0]

(* FAULT: the descriptor sets are not given back to the pool. *)
DestroyStaleDataKeepsSets(now) ==
  LET Result == [k \in Kinds |-> Reclaimed(table[k], now, live)]
  IN /\ table' = [k \in Kinds |-> Result[k].t]
     /\ live' = {o \in live : \A k \in Kinds : o \in Result[k].live}
     /\ badDestroys' = badDestroys \cup UNION {Result[k].bad : k \in Kinds}
     /\ UNCHANGED freeSets

DestroyStaleData(now) ==
  LET Result == [k \in Kinds |-> Reclaimed(table[k], now, live)]
  IN /\ table' = [k \in Kinds |-> Result[k].t]
     /\ live' = {o \in live : \A k \in Kinds : o \in Result[k].live}
     /\ badDestroys' = badDestroys \cup UNION {Result[k].bad : k \in Kinds}
     /\ freeSets' = freeSets + Result["instance"].sets

-----------------------------------------------------------------------------
(* render_thread_func *)

(* gpu_frame_begin, for the first command of a frame.                      *)
Begun == IF cmdbuf.open THEN cmdbuf ELSE [Closed EXCEPT !.open = TRUE]

Popped(command) == at = "pop" /\ queue # <<>> /\ command = Head(queue) /\ queue' = Tail(queue)

DrawModel(model) ==
  LET shader == ObjectFor("shader", model[3])
      mesh   == ObjectFor("mesh", model[2])
      pipeline == IF last_pipeline # shader THEN shader ELSE Begun.pipeline
      bound    == IF last_mesh # mesh THEN mesh ELSE Begun.mesh
  IN /\ Popped(model)
     /\ Fits(model) /\ HasDescriptor(model)
     /\ table' = [k \in Kinds |-> CreateOrGet(k, Info(model, k))]
     /\ live' = live \cup {Object(k, Info(model, k)) : k \in
                             {k \in Kinds : Creates(k, Info(model, k))}}
     /\ freeSets' = IF Creates("instance", model[1])
                    THEN freeSets - SetsFor("instance", model[1]) ELSE freeSets
     /\ last_pipeline' = shader /\ last_mesh' = mesh
     /\ cmdbuf' = [open |-> TRUE, pipeline |-> pipeline, mesh |-> bound,
                   draws |-> Begun.draws \cup
                     {[model |-> model, pipeline |-> pipeline, mesh |-> bound,
                       instance |-> ObjectFor("instance", model[1])]}]
     /\ UNCHANGED <<client, at, frame_counter, badDestroys, device>>

FrameDone == /\ Popped(Done)
             /\ cmdbuf' = Begun
             /\ at' = "fence"
             /\ UNCHANGED <<client, frame_counter, last_pipeline, last_mesh, store, device>>

(* FAULT: what was bound last is remembered into the next command buffer.  *)
FrameEndKeepsBindings ==
  /\ at = "fence" /\ fence[frame_index] = "signaled"
  /\ fence' = [fence EXCEPT ![frame_index] = "reset"]
  /\ inFlight' = Append(inFlight, [index |-> frame_index, draws |-> cmdbuf.draws])
  /\ frame_index' = (frame_index + 1) % FrameCount
  /\ cmdbuf' = Closed /\ UNCHANGED <<last_pipeline, last_mesh>>
  /\ DestroyStaleData(frame_counter)
  /\ frame_counter' = frame_counter + 1
  /\ at' = "pop"
  /\ UNCHANGED <<queue, client>>

(* The rest of gpu_frame_end, from vkWaitForFences on, and of the loop.    *)
FrameEnd == /\ at = "fence" /\ fence[frame_index] = "signaled"
            /\ fence' = [fence EXCEPT ![frame_index] = "reset"]
            /\ inFlight' = Append(inFlight, [index |-> frame_index, draws |-> cmdbuf.draws])
            /\ frame_index' = (frame_index + 1) % FrameCount
            /\ cmdbuf' = Closed /\ last_pipeline' = NULL /\ last_mesh' = NULL
            /\ DestroyStaleData(frame_counter)
            /\ frame_counter' = frame_counter + 1
            /\ at' = "pop"
            /\ UNCHANGED <<queue, client>>

StopPopped == /\ Popped(Stop)
              /\ at' = "wait idle"
              /\ UNCHANGED <<client, frame_counter, local, store, device>>

(* FAULT: frame_counter is not advanced past the frames just completed. *)
ExitTooSoon == /\ at = "wait idle" /\ inFlight = <<>>
               /\ DestroyStaleData(frame_counter)
               /\ at' = "exited"
               /\ UNCHANGED <<queue, client, frame_counter, local, device>>

Exit == /\ at = "wait idle" /\ inFlight = <<>>
        /\ frame_counter' = frame_counter + FrameCount + 1
        /\ DestroyStaleData(frame_counter')
        /\ at' = "exited"
        /\ UNCHANGED <<queue, client, local, device>>

(* The GPU completes the oldest frame.                                     *)
Complete == /\ inFlight # <<>>
            /\ fence' = [fence EXCEPT ![Head(inFlight).index] = "signaled"]
            /\ inFlight' = Tail(inFlight)
            /\ UNCHANGED <<queue, client, at, frame_counter, local, store, frame_index>>

-----------------------------------------------------------------------------
Main == (\E model \in Models : PushModel(model)) \/ PushDone \/ Destroy
Closing == Joined \/ GameDestroyed
RenderThread == \/ \E model \in Models : DrawModel(model)
                \/ FrameDone \/ FrameEnd \/ StopPopped \/ Exit
Finished == main = "infos freed" /\ UNCHANGED vars

Next == Main \/ Closing \/ RenderThread \/ Complete \/ Finished

Spec == Init /\ [][Next]_vars

(* The render thread runs when it is not blocked, the GPU completes what   *)
(* was submitted, and main goes on when thread_destroy returns.            *)
FairSpec == Spec /\ WF_vars(RenderThread) /\ WF_vars(Complete) /\ WF_vars(Closing)

-----------------------------------------------------------------------------
Drawn(d) == {d.pipeline, d.mesh, d.instance}
Draws == cmdbuf.draws \cup UNION {inFlight[n].draws : n \in DOMAIN inFlight}

(* No object is destroyed while a command buffer that is being recorded or *)
(* executed refers to it, no such buffer is submitted again, and the game  *)
(* frees what commands point to when none is left.  (render.c:304, the     *)
(* fence of gpu.c:1291, and "Shutdown render before the game. Render uses  *)
(* game resources.", main.c:28)                                            *)
NothingDestroyedInUse ==
  /\ \A d \in Draws : Drawn(d) \subseteq live
  /\ \A m, n \in DOMAIN inFlight : inFlight[m].index = inFlight[n].index => m = n
  /\ main = "infos freed" => queue = <<>> /\ at = "exited"

(* Every draw has the pipeline, mesh and instance of its own model bound   *)
(* in its own command buffer.  ("Push a model onto a queue of items to be  *)
(* rendered.", render.h:20)                                                *)
DrawsItsModel == \A d \in Draws :
  /\ d.pipeline[1] = "shader"   /\ d.pipeline[2] = d.model[3]
  /\ d.mesh[1] = "mesh"         /\ d.mesh[2] = d.model[2]
  /\ d.instance[1] = "instance" /\ d.instance[2] = d.model[1]

(* Every object is destroyed once, and none is left at the end.            *)
DestroyedOnce == badDestroys = {} /\ (at = "exited" => live = {})

(* The tables and the descriptor pool have room for every entity: the      *)
(* assertions of render.c:212, 246 and 272 hold and no descriptor is NULL. *)
EveryDrawFits ==
  at = "pop" /\ queue # <<>> /\ Head(queue) \in Models =>
    Fits(Head(queue)) /\ HasDescriptor(Head(queue))

(* render_destroy returns: the render thread gets through the queue and    *)
(* every fence it waits for is signaled.                                   *)
DestroyReturns == (main = "joining") ~> (main = "joined")
=============================================================================
