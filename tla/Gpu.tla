--------------------------------- MODULE Gpu ---------------------------------
(***************************************************************************)
(* What gpu.c makes of Vulkan and the heap, and how it is unmade.          *)
(* gpu_create makes some thirty objects one after the other, the gpu_*     *)
(* create functions a few each; any Vulkan call may fail, and what was     *)
(* made until then is destroyed by the same function that destroys a       *)
(* complete object, which tests every handle.                              *)
(*                                                                         *)
(* All of it runs in the render thread.  A call is one step.  An object of *)
(* gpu.h is <<kind, n>>; a handle is a field of one, <<object, field, i>>, *)
(* where i is the frame or the mesh layout the field belongs to.  heap_alloc *)
(* is taken to succeed.                                                    *)
(***************************************************************************)
EXTENDS Integers, Sequences, FiniteSets, SequencesExt

CONSTANTS FrameCount,  \* images of the swap chain
          Layouts,     \* k_gpu_mesh_layout_count (2 in the code)
          Copies       \* bound: objects of each kind

ASSUME FrameCountAssumption == FrameCount \in Nat \ {0}
ASSUME BoundsAssumption == Layouts \in Nat /\ Copies \in Nat

VARIABLES at,        \* what the render thread does
          who,       \* the object it creates or destroys
          todo,      \* the calls left to make, or the handles left to destroy
          set,       \* fields that are not NULL
          live,      \* what is created and not destroyed
          misused,   \* what was destroyed and was not live
          returned,  \* objects a create function returned, not destroyed since
          work       \* what the unfinished frames use

vars == <<at, who, todo, set, live, misused, returned, work>>

Gpu == <<"gpu", 0>>
Kinds == {"shader", "pipeline", "mesh", "uniform", "descriptor"}
Objects == Kinds \X (1 .. Copies)

Field(o, name) == <<o, name, 0>>
The(name) == Field(Gpu, name)
Each(name, i) == <<Gpu, name, i>>

-----------------------------------------------------------------------------
(* Calls: what one makes, what it is given, and whether it may fail.       *)

Block(h)      == [makes |-> {h}, uses |-> {}, fails |-> FALSE]   \* heap_alloc
Makes(h, use) == [makes |-> {h}, uses |-> use, fails |-> TRUE]   \* vkCreate*, vkAllocate*
Asks(use)     == [makes |-> {}, uses |-> use, fails |-> TRUE]    \* vkGet*, vkBind*, vkMap*

PerFrame(Calls(_))  == FlattenSeq([n \in 1 .. FrameCount |-> Calls(n - 1)])
PerLayout(Calls(_)) == FlattenSeq([n \in 1 .. Layouts |-> Calls(n - 1)])

InstanceCalls == <<Block(The("block")), Makes(The("instance"), {})>>

(* Fails also without a device, or a graphics queue.                       *)
PhysicalDeviceCalls == <<Asks({The("instance")}), Asks({The("instance")})>>
DeviceCalls == <<Asks({}), Makes(The("device"), {The("instance")})>>

SurfaceCalls == <<Makes(The("surface"), {The("instance")}), Asks({The("surface")})>>

SwapChainCalls == <<Makes(The("swap_chain"), {The("device"), The("surface")}),
                    Asks({The("swap_chain")}), Block(The("frames")),
                    Asks({The("swap_chain")})>>

ViewCalls(i) == <<Makes(Each("view", i), {The("swap_chain")})>>

DepthCalls ==
  <<Makes(The("depth_stencil_image"), {The("device")}),
    Makes(The("depth_stencil_memory"), {The("depth_stencil_image")}),
    Asks({The("depth_stencil_image"), The("depth_stencil_memory")}),
    Makes(The("depth_stencil_view"), {The("depth_stencil_image")})>>

RenderPassCalls == <<Makes(The("render_pass"), {The("device")})>>

FrameBufferCalls(i) ==
  <<Makes(Each("frame_buffer", i),
          {Each("view", i), The("depth_stencil_view"), The("render_pass")})>>

SemaphoreCalls == <<Makes(The("present_complete_sema"), {The("device")}),
                    Makes(The("render_complete_sema"), {The("device")})>>

PoolCalls == <<Makes(The("descriptor_pool"), {The("device")}),
               Makes(The("cmd_pool"), {The("device")})>>

CommandCalls(i) == <<Block(Each("cmd_buffer", i)),
                     Makes(Each("buffer", i), {The("cmd_pool")}),
                     Makes(Each("fence", i), {The("device")})>>

LayoutCalls(l) == <<Block(Each("binding", l)), Block(Each("attributes", l))>>

GpuCalls ==
  InstanceCalls \o PhysicalDeviceCalls \o DeviceCalls \o SurfaceCalls
    \o SwapChainCalls \o PerFrame(ViewCalls) \o DepthCalls \o RenderPassCalls
    \o PerFrame(FrameBufferCalls) \o SemaphoreCalls \o PoolCalls
    \o PerFrame(CommandCalls) \o PerLayout(LayoutCalls)

(* A buffer, memory for it, and both bound; mapping comes between for a    *)
(* mesh, and after, with its failure ignored, for a uniform buffer.        *)
Buffer(o, buffer, memory, between) ==
  <<Makes(Field(o, buffer), {The("device")}), Makes(Field(o, memory), {Field(o, buffer)})>>
    \o between \o <<Asks({Field(o, buffer), Field(o, memory)})>>

MeshCalls(o) ==
  <<Block(Field(o, "block"))>>
    \o Buffer(o, "vertex_buffer", "vertex_memory", <<Asks({Field(o, "vertex_memory")})>>)
    \o Buffer(o, "index_buffer", "index_memory", <<Asks({Field(o, "index_memory")})>>)

UniformCalls(o) == <<Block(Field(o, "block"))>> \o Buffer(o, "buffer", "memory", <<>>)

ShaderCalls(o) == <<Block(Field(o, "block")),
                    Makes(Field(o, "vertex_module"), {The("device")}),
                    Makes(Field(o, "fragment_module"), {The("device")}),
                    Makes(Field(o, "descriptor_set_layout"), {The("device")})>>

PipelineCalls(o) ==
  <<Block(Field(o, "block")),
    Makes(Field(o, "pipeline_layout"), {The("device")}),
    Makes(Field(o, "pipe"), {Field(o, "pipeline_layout"), The("render_pass")}
                              \cup {Each("binding", l) : l \in 0 .. Layouts - 1})>>

DescriptorCalls(o) == <<Block(Field(o, "block")),
                        Makes(Field(o, "set"), {The("descriptor_pool")})>>

Calls(o) == CASE o = Gpu               -> GpuCalls
              [] o[1] = "mesh"         -> MeshCalls(o)
              [] o[1] = "uniform"      -> UniformCalls(o)
              [] o[1] = "shader"       -> ShaderCalls(o)
              [] o[1] = "pipeline"     -> PipelineCalls(o)
              [] o[1] = "descriptor"   -> DescriptorCalls(o)

Parts(o) == UNION {call.makes : call \in ToSet(Calls(o))}

-----------------------------------------------------------------------------
(* gpu_destroy and the destroy functions of the objects: the order in      *)
(* which handles are tested and destroyed.                                 *)

LayoutDestroys(l) == <<Each("binding", l), Each("attributes", l)>>

FrameDestroys(i) == <<Each("fence", i), Each("buffer", i), Each("cmd_buffer", i),
                      Each("frame_buffer", i), Each("view", i)>>

(* FAULT: the command pool goes before the frames. *)
GpuDestroysPoolFirst ==
  PerLayout(LayoutDestroys)
    \o <<The("render_complete_sema"), The("present_complete_sema"),
         The("depth_stencil_view"), The("depth_stencil_image"),
         The("depth_stencil_memory"), The("cmd_pool")>>
    \o PerFrame(FrameDestroys)
    \o <<The("frames"), The("descriptor_pool"), The("render_pass"),
         The("swap_chain"), The("surface"), The("device"), The("instance"), The("block")>>

GpuDestroys ==
  PerLayout(LayoutDestroys)
    \o <<The("render_complete_sema"), The("present_complete_sema"),
         The("depth_stencil_view"), The("depth_stencil_image"),
         The("depth_stencil_memory")>>
    \o PerFrame(FrameDestroys)
    \o <<The("frames"), The("descriptor_pool"), The("cmd_pool"), The("render_pass"),
         The("swap_chain"), The("surface"), The("device"), The("instance"), The("block")>>

(* FAULT: the index buffer is not destroyed. *)
MeshDestroysVertices(o) == <<Field(o, "vertex_buffer"), Field(o, "vertex_memory"),
                             Field(o, "index_memory"), Field(o, "block")>>

MeshDestroys(o) == <<Field(o, "index_buffer"), Field(o, "index_memory"),
                     Field(o, "vertex_buffer"), Field(o, "vertex_memory"),
                     Field(o, "block")>>

UniformDestroys(o) == <<Field(o, "buffer"), Field(o, "memory"), Field(o, "block")>>

ShaderDestroys(o) == <<Field(o, "vertex_module"), Field(o, "fragment_module"),
                       Field(o, "descriptor_set_layout"), Field(o, "block")>>

PipelineDestroys(o) == <<Field(o, "pipeline_layout"), Field(o, "pipe"), Field(o, "block")>>

DescriptorDestroys(o) == <<Field(o, "set"), Field(o, "block")>>

Destroys(o) == CASE o = Gpu             -> GpuDestroys
                 [] o[1] = "mesh"       -> MeshDestroys(o)
                 [] o[1] = "uniform"    -> UniformDestroys(o)
                 [] o[1] = "shader"     -> ShaderDestroys(o)
                 [] o[1] = "pipeline"   -> PipelineDestroys(o)
                 [] o[1] = "descriptor" -> DescriptorDestroys(o)

(* The field that is tested before h is destroyed.                         *)
Tested(h) == CASE h[1] = Gpu /\ h[2] = "buffer" -> Each("cmd_buffer", h[3])
               [] h[2] = "attributes" -> Each("binding", h[3])
               [] OTHER -> h

(* vkFreeCommandBuffers takes a NULL buffer.                               *)
MayBeNull(h) == h[1] = Gpu /\ h[2] = "buffer"

-----------------------------------------------------------------------------
Init == /\ at = "creating" /\ who = Gpu /\ todo = GpuCalls
        /\ set = {} /\ live = {} /\ misused = {}
        /\ returned = {} /\ work = {}

Call == /\ at = "creating" /\ todo # <<>>
        /\ set' = set \cup Head(todo).makes /\ live' = live \cup Head(todo).makes
        /\ todo' = Tail(todo)
        /\ UNCHANGED <<at, who, misused, returned, work>>

(* gpu_destroy first waits for the queue; the others do not.               *)
Destroying(o) == /\ at' = IF o = Gpu THEN "waiting" ELSE "destroying"
                 /\ who' = o /\ todo' = Destroys(o)

CallFails == /\ at = "creating" /\ todo # <<>> /\ Head(todo).fails
             /\ Destroying(who)
             /\ UNCHANGED <<set, live, misused, returned, work>>

Created == /\ at = "creating" /\ todo = <<>>
           /\ returned' = returned \cup {who} /\ at' = "idle"
           /\ UNCHANGED <<who, todo, set, live, misused, work>>

(* Vulkan's queue wait; gpu->queue is set with the logical device.         *)
WaitIdle == /\ at = "waiting" /\ (The("device") \in set => work = {})
            /\ at' = "destroying"
            /\ UNCHANGED <<who, todo, set, live, misused, returned, work>>

DestroyNext ==
  /\ at = "destroying" /\ todo # <<>>
  /\ LET h == Head(todo)
     IN IF Tested(h) \in set
        THEN /\ live' = live \ {h}
             /\ misused' = IF h \in live \/ (MayBeNull(h) /\ h \notin set)
                           THEN misused ELSE misused \cup {h}
        ELSE UNCHANGED <<live, misused>>
  /\ todo' = Tail(todo)
  /\ UNCHANGED <<at, who, set, returned, work>>

Destroyed == /\ at = "destroying" /\ todo = <<>>
             /\ at' = IF who = Gpu THEN "gone" ELSE "idle"
             /\ set' = set \ Parts(who)
             /\ UNCHANGED <<who, todo, live, misused, returned, work>>

-----------------------------------------------------------------------------
(* The renderer's calls.  It gives a pipeline and a descriptor a shader,   *)
(* and the n-th descriptor the n-th uniform buffer.                        *)
Given(o) ==
  /\ o[1] \in {"pipeline", "descriptor"} => \E s \in returned : s[1] = "shader"
  /\ o[1] = "descriptor" => <<"uniform", o[2]>> \in returned

Create(o) == /\ at = "idle" /\ o \in Objects \ returned /\ Given(o)
             /\ at' = "creating" /\ who' = o /\ todo' = Calls(o)
             /\ UNCHANGED <<set, live, misused, returned, work>>

(* It destroys a descriptor before its uniform buffer, and only what no    *)
(* unfinished frame uses (Render!NothingDestroyedInUse).                   *)
Destroy(o) == /\ at = "idle" /\ o \in returned \cap Objects
              /\ Parts(o) \cap work = {}
              /\ o[1] = "uniform" => <<"descriptor", o[2]>> \notin returned
              /\ Destroying(o)
              /\ returned' = returned \ {o}
              /\ UNCHANGED <<set, live, misused, work>>

(* It destroys all objects, then the GPU.                                  *)
GpuDestroy == /\ at = "idle" /\ returned = {Gpu}
              /\ Destroying(Gpu)
              /\ returned' = {}
              /\ UNCHANGED <<set, live, misused, work>>

(* gpu_frame_end: a frame that uses the swap chain, what belongs to the    *)
(* frames, and what was drawn, a descriptor with its uniform buffer.       *)
Submit(drawn) ==
  /\ at = "idle"
  /\ \A o \in drawn : o[1] = "descriptor" => <<"uniform", o[2]>> \in drawn
  /\ work' = work \cup Parts(Gpu) \cup UNION {Parts(o) : o \in drawn}
  /\ UNCHANGED <<at, who, todo, set, live, misused, returned>>

(* The GPU finishes what was submitted.                                    *)
Complete == /\ work # {}
            /\ work' = {}
            /\ UNCHANGED <<at, who, todo, set, live, misused, returned>>

Finished == at = "gone" /\ UNCHANGED vars

-----------------------------------------------------------------------------
Next == \/ Call \/ CallFails \/ Created
        \/ WaitIdle \/ DestroyNext \/ Destroyed
        \/ \E o \in Objects : Create(o) \/ Destroy(o)
        \/ GpuDestroy
        \/ \E drawn \in SUBSET (returned \cap Objects) : Submit(drawn)
        \/ Complete \/ Finished

Spec == Init /\ [][Next]_vars

-----------------------------------------------------------------------------
(* What h was made from, and the memory its field is in.                   *)
Parents(h) ==
  CASE h[2] \in {"block", "frames", "cmd_buffer", "binding", "attributes", "instance"} -> {}
    [] h[2] \in {"device", "surface"} -> {The("instance")}
    [] h[2] = "swap_chain" -> {The("device"), The("surface")}
    [] h[2] = "view"       -> {The("device"), The("swap_chain")}
    [] h[2] = "set"        -> {The("device"), The("descriptor_pool")}
    [] h[1] = Gpu /\ h[2] = "buffer" -> {The("device"), The("cmd_pool"), Each("cmd_buffer", h[3])}
    [] OTHER -> {The("device")}

Holder(h) == IF h[2] = "block" THEN {}
             ELSE IF h[2] \in {"view", "frame_buffer", "fence", "cmd_buffer"}
                  THEN {The("frames")} ELSE {Field(h[1], "block")}

(* Nothing outlives what it was made from or the memory that holds its     *)
(* handle, no call is given what does not exist, nothing is destroyed that *)
(* an unfinished frame uses, nothing twice, and nothing that was not made: *)
(* whichever call of a create function fails.  (gpu.c:623, 629, 666)       *)
OwnersOutlive ==
  /\ misused = {}
  /\ \A h \in live : Parents(h) \cup Holder(h) \subseteq live
  /\ at = "creating" /\ todo # <<>> => Head(todo).uses \subseteq live
  /\ work \subseteq live

(* A create function that fails leaves nothing behind, one that does not   *)
(* has made every part, and a destroy function leaves none; when the GPU   *)
(* is gone nothing is left.  (gpu.c:749, 800, 1036, 1074, 1159)            *)
AllOrNothing == at \in {"idle", "gone"} => live = UNION {Parts(o) : o \in returned}
=============================================================================
