# TLA+ specifications of EvilEngine

EvilEngine (`src/`) is a small game engine in C for Windows: a heap, threads, a
bounded queue, an asynchronous file system, an entity-component system, a
renderer on its own thread over Vulkan, entity replication over UDP, and a
Frogger game on top. Each module here is a translation of one part of that
code. TLC checks it on small instances, and TLAPS proves the safety properties
of every part for every size, under the assumptions section 5 names.

Contents: 1 the system · 2 the modules and the code · 3 the runs · 4 fairness ·
5 what is proved · 6 what the code does wrong · 7 what is left out · 8 what is next

Paths below are relative to `src/src/`.

## 1. The system

| component | state | operations | run by |
|---|---|---|---|
| queue (`queue.c`, `semaphore.c`, `atomic.c`) | ring of pointers, two semaphores, two ticket counters | create, push, pop, try_push, try_pop, destroy | any thread |
| file system (`fs.c`) | two queues, two threads, work objects with an event, files | fs_read, fs_write, wait and getters, destroy of a work, fs_destroy | client, file thread, compression thread |
| ECS (`ecs.c`) | per slot: state, sequence number, component mask; one array per component type; a saved game | add, remove, update, query, register, save, load, destroy | main thread |
| renderer (`render.c`) | command queue, instance/mesh/shader tables, frame counter | push_model, push_done, destroy | main thread, render thread |
| gpu (`gpu.c`) | swap chain, frames with fences, descriptor pool, every Vulkan object | create/destroy of each kind, frame_begin/end, wait_idle | render thread (and the GPU) |
| replication (`net.c`) | entities to send, snapshot ring, replicas | register, update | main |
| connections (`net.c`) | connection table, mutex, two queues per connection, socket | connect, disconnect, timeout, send, receive, destroy | main, one receive thread, one send thread per connection |
| heap (`heap.c`) | arena list, mutex, the allocator | create, alloc, free, destroy | any thread |
| TLSF (`tlsf/tlsf.c`) | block headers in the memory itself, free lists, two levels of bitmaps | create, add_pool, memalign, free, checks | inside the heap's mutex |
| timer objects (`timer_object.c`) | time, last delta, bias, scale, pause, parent | create, update, scale, pause, resume, destroy | main thread |
| window (`wm.c`) | key and mouse masks, focus, quit | create, pump, getters | main thread |
| mathematics (`transform.c`, `mat4f.c`, `quatf.h`, `vec3f.h`) | none | functions | main thread |
| game (`frogger_game.c`, `main.c`) | resources, entities, game rules | create, update each frame, destroy | main thread |
| debug, trace, clock | a mask; nothing; nothing | single calls | any thread |

At this commit the game has no network: `frogger_game.c:8`, `105-119` and `131`
comment out the include and every call of `net.c`, and nothing else calls it.
The two `net.c` modules take their callers from those lines: a peer that
connects, calls `net_update` after `ecs_update` in each frame, and destroys.

How they interact:

* **game and ECS → fs**: the two shaders (`frogger_game.c`) and the saved game
  (`ecs.c:107`, `122`) are works. The caller waits for a work, uses the buffer, and
  destroys the work. Both worker threads of `fs` consume one queue
  each and *push into the other's*.
* **game → ECS**: systems run queries whose bodies add, remove, save and load.
  References outlive the entities they were returned for.
* **game → render**: models go through a queue of three to the render thread,
  with pointers to infos that the game owns and frees after `render_destroy`.
* **render → gpu**: the render thread records a command buffer per frame; the GPU
  executes submitted frames behind it and signals a fence for each.
* **net → ECS**: a snapshot of registered entities is sent every update; the
  receiver keeps one replica entity for each.
* **net → queue, mutex, ECS**: main and the receive thread share the connection table
  under a mutex, but also use connections outside it.
* **game → window, timers, mathematics**: a frame reads the masks that the pump left,
  the delta of a timer, and moves transforms whose matrices are drawn.
* **everything → heap → TLSF**: blocks are freed by another thread or another function
  than the one that allocated them.

What is hard, and the property that stands for correctness:

| component | hard behaviour | correct means |
|---|---|---|
| queue | four steps per call interleave; semaphores count completions, tickets count starts; `int` tickets wrap | tokens conserved, slots exclusive, a FIFO that loses and repeats nothing and drains |
| file system | two threads on each other's bounded queues; errors in the middle; shutdown under load | every work completes once, its result is final, order and content are right, queues outlive their users, blocks are freed |
| ECS | weak references, slot reuse, cursors over a changing table, loads in the middle of a frame | one life per entity, references keep their meaning, a query sees its frame |
| renderer | objects destroyed while frames are in flight; bind caching; slots reused after swap-removal | nothing destroyed in use, every draw is of its own model, shutdown returns |
| gpu objects | some thirty calls in sequence, each may fail | all or nothing, children before parents, nothing twice |
| replication | loss, delay, duplication, reordering; several packets in one update; deltas against an acknowledged snapshot | only newer news counts; a replica for each entity, with the values of the last snapshot accepted |
| connections | a table shared by threads that start and stop, used partly outside its mutex; a mutex held while waiting for other threads | one connection per peer, no thread without its queues, the mutex is given back, shutdown returns |
| heap, TLSF | long sequences of splits and merges whose records are kept twice; a mutex left locked on failure | the allocator's own checks pass after every call, blocks of callers are apart, growth suffices |
| timers | pauses, scales, parents, in any order | time never runs ahead of its parent's; deltas add up |
| window | a press in one window and its release in another; the close message | masks are what is held, no frame without a window |
| mathematics | the same motion by two codings, transform and matrix | both agree, inverses included |
| game | moves and collisions once a frame of any length | nobody passes a row untested |

`PROJECT.json` lists the hazards one by one, each at its line, with the
properties that would catch it going wrong.

## 2. The modules and the code

| module | models | state and actions |
|---|---|---|
| `BoundedFifo` | what `queue.h` promises | a sequence and the results of pops |
| `Queue` | `queue.c` | `items`, `head_index`, `tail_index`, the semaphore counts, and for each thread where it is in its call. One action for each of the four steps of push and pop: *acquire* a token, take a *ticket*, *touch* the slot (store or load), *release* |
| `QueueProofs` | theorems about `Queue` | |
| `Fs` | `fs.c` | `file_thread`, `compression_thread`, `client` are `[at, work]` pairs: the place in the code and the work in hand. The body of each thread is cut where it calls the operating system, pushes, pops or signals |
| `FsProofs` | theorems about `Fs`: works, queues, threads; blocks of memory, contents of files and buffers | |
| `EntityLife` | what `ecs.h` promises | the stage of each entity's life, and the lives saved |
| `Ecs` | `ecs.c` | the table, the component arrays as memory blocks, the saved game, the references handed out, the query in progress; one action per function |
| `EcsProofs` | theorems about `Ecs` | |
| `Render` | `render.c`, frame loop of `gpu.c` | the command queue, the three tables, the command buffer being recorded, frames in flight with their fences, live GPU objects |
| `RenderProofs` | theorems about `Render` | |
| `Gpu` | object life cycle of `gpu.c` | the calls left in the function being run, handles set, objects live |
| `NetReplication` | replication in `net.c` | for each peer: slots, snapshot ring, the two sequence numbers, replicas, and all packets sent so far; one action, a frame of a peer: the game's changes, the snapshot, the packet sent, the packets read |
| `NetReplicationProofs` | theorems about `NetReplication` | |
| `NetConnections` | connections in `net.c` | the table, its mutex, where main, the receive thread and each send thread are. Each thread is cut where it locks, unlocks, pushes, pops, joins, or touches a connection outside the mutex; opening a connection is two steps (address first, queues and thread later), as `net_update` can see in between |
| `NetConnectionsProofs` | theorems about `NetConnections` | |
| `Tlsf` | what `heap.c` uses of `tlsf.c` | operators on the control structure and the headers, from `mapping_insert` up to `tlsf_memalign` and `tlsf_free`, and the self-checks |
| `Heap` | `heap.c` on `Tlsf` | the control structure, arenas, the owner of the mutex, each thread's call, what callers hold |
| `HeapProofs` | theorems about `Heap` and `Tlsf` | |
| `TimerObject` | `timer_object.c` | the timers and the system timer; one action per function |
| `Window` | `wm.c`, main loop | messages posted, masks, focus; pressing, losing focus, closing, pumping, a frame |
| `Transforms` | `transform.c`, `mat4f.c`, `quatf.h`, `vec3f.h` | an object's transform and its matrix, taken through the same operations |
| `Game` | `update_blocks`, `update_players` | the player, the blocks; a frame is one action |
| `PartsProofs` | theorems about `Gpu`, `TimerObject`, `Window`, `Transforms`, `Game` | |
| `MCFs`, `MCRender`, `MCNetReplication` | instances for TLC | symmetry, sets of models, bounds for each peer |
| `MCQueueRender` | `Queue` and `Render` for TLC | they share no state here: one behaviour (of `BothSpec`) is of one of them, chosen at the start, with the fairness of that one |
| `MCParts` | `Gpu`, `Heap`, `TimerObject`, `Window`, `Transforms`, `Game` for TLC | they share no state, so one behaviour (of `PartsSpec`) is of one of them, chosen at the start |

Conventions.

* Actions and variables have the names of the functions and fields they model.
  Variables that exist only for properties are marked `history`.
* A definition under a comment that begins with `FAULT:` is the mutated form of the
  definition that follows it: what the code would do with a plausible bug. No
  behaviour of a specification uses it. For every property of every passing run
  there is one that TLC finds violating it.
* Payloads are reduced to what the properties distinguish. The content of a file
  is *how it is coded* and *which write it is of*; a GPU object is named by what it
  was made for and in which frame; an entity's data is a value that changes.

Abstractions to keep in mind when reading:

* `Fs` and `Render` take the queue to be the atomic FIFO of `BoundedFifo`. For
  `Render` (one producer, one consumer) this is what `ImplementsFifo` shows of
  `Queue`. In `Fs` `file_queue` has *two* producers once a write is compressed, and
  there the queue keeps its promise on a ring of one slot only (section 6.1).
  `QueueAssumption` of `Fs` therefore says: one slot, or no compression. The game is
  the second case (`main.c:17` gives 8 slots, and no caller asks for compression), the
  runs and the theorems about compressed works are the first. What a compressed write
  meets on a larger ring is what `queue_two_producers` shows.
* In `Fs` the client calls `fs_destroy` when every work it submitted is done, as
  `main.c:28-34` arranges. It need not have destroyed them all: `ecs_load_game` returns
  from a failed load without (`ecs.c:124`). It frees the buffer of a read before the work.
* `file_decompress` takes the two sizes from the first bytes of the file unchecked and
  ignores what LZ4 returns (`fs.c:158-173`): a file that was not written compressed
  becomes a buffer of junk with result 0 (`Decompressed`). How large a buffer those bytes
  ask for, and what LZ4 reads beyond the file, is not modelled.
* `Ecs` starts without a saved game. A file from an earlier run of the program is
  not in `Init`. A save or a load may fail. A save that fails after the file was opened
  leaves it empty; loading that file, which takes the table from whatever memory is behind
  an empty buffer, is the one step left out (`LoadFails`).
* `Render` assumes that creation of GPU objects succeeds and that fresh memory is
  zero (the first pages of an arena are). `Gpu` shows what happens when creation
  fails, and in turn assumes from `Render` that no object in use is destroyed, and
  that `heap_alloc` succeeds.
* `NetReplication` treats `net_update` as one step of a connected peer: the receive
  thread only appends to `recv_queue`, and the step chooses what it finds there: any
  packets ever sent, in any order, some twice. As the receive thread may go on pushing while
  the queue is being emptied, the queue's capacity does not bound how many are read in
  one update; `MaxReads` does, in the runs. The bytes of a snapshot (`net.c:425`) are `Room`,
  a number of entities, all entities being of one type; the bytes of a packet, which the
  code never compares with its capacity (`net.c:474`), are not modelled.
* `NetConnections` takes the two queues of a connection to be FIFOs, which
  `ImplementsFifo` shows, as each has one producer and one consumer. What is in a
  packet is `NetReplication`'s. Every address has a port (`PortAssumption`):
  `net_string_to_address` leaves port 0 when the string has no colon (`net.c:244-258`), an
  entry with port 0 counts as free (`net.c:327`) although it is found by its IP
  (`net.c:316`), and `net_connect` with such an address makes a thread and two queues in an
  entry that stays free, to be opened again over them.
* A call of `Heap` is one step, because all it does it does with the mutex held.
  `Tlsf` counts in words instead of bytes, so that the low bits of a size, which the
  code uses as flags, are fields of their own. `Heap` counts what is asked for and the
  increment in bytes, as `heap.c:55` doubles bytes, and rounds as `tlsf.c` does: a request
  up (`InWords`), a pool down. The assertions of `tlsf.c` become `ChecksPass`.
* `Transforms` computes with exact numbers: integer vectors, scales of 1 and -1, and
  the 24 rotations of a cube, whose quaternions are made of halves. What it shows is
  about the formulas, not about rounding.
* Counters are unbounded integers except in `Queue`, where the wrap-around of the
  tickets is modelled with the parameter `IntMax`, and in `NetConnections`, where that
  of milliseconds is, with `Wrap`.

## 3. The runs

Seven runs pass; five show a disagreement between the code and what a header or
a comment of the repository says of it (section 6).

| run | instance | states | what it shows |
|---|---|---|---|
| `queue_two_producers` ✗ | 2 producers, 1 consumer, `Capacity` 2, 1 push each | | `EachItemPoppedOnce` fails |
| `fs_mixed` | 3 works, 1 path, `Capacity` 1, plain and compressed, any system call failing | 1.8 M | `DoneIsFinal`, `PlainInOrder`, `NoStaleRead`, `QueuesOutliveUsers`, `OnlyCompressedLeaks` |
| `fs_compressed` | 3 works, `Capacity` 1, all compressed, no failures, fair | 240 k | `ReadsBackWritten`, `NoCircularWait`, `WorkCompletes`, `DestroyReturns` |
| `fs_circular_wait` ✗ | as above with 4 works | | `WorkCompletes` fails |
| `ecs_frames` | 2 slots, 1 component type, 3 entities, any number of frames, saves and loads, which may fail | 1.1 M | `UniqueSequences`, `RefsNeverAlias`, `QueryMeetsFrame`, `DestroyFreesAll`, and that the table implements `EntityLife` (`EntitiesLiveOnce`) |
| `ecs_dangling_load` ✗ | 1 slot, 1 type, 2 entities | | `ComponentIsAllocated` fails |
| `queue_render` | `Queue`: 1 producer, 1 consumer, `Capacity` 3, 8 pushes, `IntMax` 7. `Render`: 3 entities, 2 meshes, 1 shader, 4 frames, `FrameCount` 2, every mesh drawn in every frame | 50 k | of `Queue` `TokenConservation`, `SlotExclusive`, `EveryItemPopped`, and that it implements `BoundedFifo` (`ImplementsFifo`); of `Render` `NothingDestroyedInUse`, `DrawsItsModel`, `DestroyedOnce`, `EveryDrawFits`, `DestroyReturns` |
| `render_stale_slot` ✗ | as `Render` above, meshes may be left out | | `DrawsItsModel` fails |
| `net_replication` | a peer that registers up to 3 entities in 2 slots, one change of the game in each of its 4 updates; the other has 2 replica slots, 3 updates, and reads up to two packets in each; `Ring` 3, `Values` 2 | 271 k | `AckedWasAccepted`, `ReplicaMatchesSnapshot`, `OneReplicaEach`, `ReplicasWereNamed` |
| `net_stale_replicas` ✗ | the same | | `UnseenRemoved` fails |
| `net_connections` | 3 peers for 2 entries, main connects to 2 of them, queues of 1, `Wrap` 3, 3 moments of time | 1.1 M | `OneConnectionEach`, `SendersAccounted`, `OnlyTwoRaces`, `MutexReturned`, `DestroyReturns` |
| `parts` | `Gpu`: 3 frames, 2 mesh layouts, one object of each kind. `Heap`: 2 threads, 2 arenas, requests of 0, 7 and 81 bytes, alignment 1 and 2 words, increment 112 bytes. `TimerObject`: a timer and one that follows it. `Window`: a key, a button, a key of no meaning, 2 messages. `Transforms`: coordinates up to 1. `Game`: three rows of one block | 865 k | `OwnersOutlive`, `AllOrNothing`; `BlocksSound`, `GrowthSuffices`; `TimersKeepTime`; `MasksFollowKeys`; `SpaceFollows` (`MatrixFollowsTransform` of `Transforms`); `NoRowSkipped` |

Why the bounds are enough:

* **Queue.** Eight pushes pass round a ring of three more than twice and take both
  counters to `IntMax`, the last value before they wrap. The thread sets are those
  of every queue in the repository but `file_queue`.
* **Fs.** Capacity 1 makes every push able to block, and is the one at which the atomic
  queue is exact with two producers (`QueueAssumption`). With three works one can be in
  each thread and one in a queue or in the client's hands; with four the jam
  becomes possible, and the theorem `FewWorksNeverJam` says that
  `2 * Capacity + 1` is exactly the limit. One path makes every pair of works
  conflict. Failures are left out of `fs_compressed` because a write that fails
  after `CREATE_ALWAYS` leaves an empty file, of which nothing is promised; and
  plain works, because a file written in one mode and read in the other decodes
  to nothing meaningful.
* **Ecs.** Two slots with three entities force reuse of a slot while references to
  its former occupant are about. The number of frames, queries, saves and loads is
  not bounded, and each save and load may fail. Removals pass either value of
  `allow_pending_add`: the game passes false, `net.c:591` true.
* **Render.** `FrameCount + 2` frames are what an object needs to be made, go stale
  and be destroyed while later frames are in flight. In `queue_render` the meshes
  are drawn in every frame, as the game does; entities come and go. The pool holds
  `FrameCount * MaxDrawables` descriptor sets, so that `EveryDrawFits` is about the
  tables. With as many sets as drawables, as in the code (512), it fails.
* **Gpu.** The failing call is any one. Copies of a kind share nothing with each
  other, so one of each is enough.
* **NetConnections.** Two entries for three peers, so that the table can be full, an entry
  can be given to another peer, and two connections are torn down one after the other.
  With three values of a millisecond and moments 0, 1, 2 a deadline wraps, so that a
  connection is also timed out the moment after it was made. The clock itself does not
  come round; no property of the run depends on what time it is.
* **Heap.** The smallest index that has both levels and lists of more than one size.
  Requests of 0, 7 and 81 bytes are rounded up to 0, 1 and 11 words. An arena made by the
  increment has a pool of 14 words, which holds three blocks, so that a block can be
  merged with both neighbours, split, and aligned by a gap. The one made for 81 bytes is
  made by doubling: 162 bytes and the header are 22 words and two bytes left over, and the
  pool, of 20 words, is just in a list that the search for 81 bytes at the larger
  alignment looks in. With a smaller increment twice the bytes are not always enough; that
  is why `GrowthRoom` is an assumption of the theorem (section 5).
  Two arenas make the second failure an out-of-memory. One block may be held when another
  is asked for; with more nothing new can happen in arenas this small.
* **TimerObject.** Two timers are a parent and a child; scales of one half and two.
* **Window.** Two messages are a press and its release, in any order with a close.
* **Transforms.** Every rotation, both signs of a scale, every translation of a box, and
  inversion, in any order.
* **Game.** Three speeds: two that keep within a row, and one that leaps it.
* **NetReplication.** A ring of three has its places taken again by the fourth snapshot, at
  the latest by the one being sent (`sequence = ack + Ring`). Three entities for two slots on
  either side: slots are taken again, an entity that replaces another may find no replica
  slot. Two values: data comes back to what it was. Up to two packets are read in one
  update, also old ones and one twice. None of the cases in which the code departs from
  what its comments say is configured away; the properties name them, and
  `net_stale_replicas` shows one. Only the second peer's replicas matter, since only one peer
  registers entities; for both, and for more updates, the theorems have it. One case of
  `LeftOut`, a new replica left without data by the last snapshot (`Unset`), needs seven
  updates of each side: random simulation with those bounds meets it.

Deadlock is checked except in four runs: in `net_replication` and `net_stale_replicas`,
where the bound `MaxUpdates` ends every behaviour; in `fs_circular_wait`, where the jam is
the point; and in `net_connections`, where the send thread that has left (`net.c:298`)
leaves main blocked, which is listed as a hazard and excepted by name in `MutexReturned`
and `DestroyReturns`. The final states of `Fs`, `Ecs`, `Render`, `Gpu`, `Heap` and
`NetConnections` have an explicit stuttering action (`Closed`, `Finished`, `Ended`), so a
thread blocked before shutdown is complete is reported.

The types of `Queue`, `Fs`, `Ecs` and `NetConnections` are proved (section 5) and are
invariants of no run.

## 4. Fairness

Only what the scheduler and the device give, and always weak:

* `Queue`: each step of a push or a pop that is not blocked is eventually taken.
  The try_ variants carry no obligation.
* `Fs`: the file thread, the compression thread, and the client *inside* a call.
  The client need not make another call.
* `Render`: the render thread; the GPU completes a submitted frame; main goes on
  when the thread it joins has exited.
* `NetConnections`: main *inside* a call; the receive thread, whose `recvfrom` fails once
  the socket is closed; each send thread while its queue is not empty. A mutex that is
  free again and again is not promised to anybody: `MutexReturned` and `DestroyReturns`
  start where somebody has it.

`BothSpec` of `MCQueueRender` has the fairness of `Queue` and of `Render`, each while it is
the one that runs.

No fairness is assumed for pushes by clients, failures, the user, or arrivals of packets.
The other modules have no liveness property.

## 5. What is proved

TLAPS checks every proof from nothing but the assumptions on the constants, which
TLC evaluates in the runs: capacities and table sizes are positive, sets of threads
and works are finite, `NULL` is not a work, every address has a port (`PortAssumption`), and
`file_queue` has one slot or one producer (`QueueAssumption`). A theorem that assumes more
says so in its statement, and below. Every state invariant that a passing run checks is proved here; so
are the two refinements, in their safety part.

### QueueProofs

| theorem | says |
|---|---|
| `TokensConserved` | any threads, any capacity: `TypeOK` and `TokenConservation`; so no `ReleaseSemaphore` is ever refused |
| `SpscSafe` | one producer, one consumer, up to `IntMax` pushes: `SlotExclusive` and `EachItemPoppedOnce` |
| `SpscIsFifo` | under the same conditions `Queue` implements `BoundedFifo`: `ImplementsFifo`, which `Fs` and `Render` take for granted |

`TokenConservation` is inductive with the types (`TokenInv`): a thread inside a call
holds the one token missing from the counts. `SpscSafe` needs the invariant `Spsc`,
which ties the two tickets, the semaphore counts and the two program counters
together, and says which item lies at each ticket between them. `SpscIsFifo` maps a
state to the items from the consumer's ticket to the producer's; of the four steps of a
push only the last changes it, of a pop only the ticket, and what is pushed and popped
there is known from `Spsc`.

### FsProofs

| theorem | says (any works, failures; any capacity without compression, one slot with it) |
|---|---|
| `FsTyped` | types |
| `DoneWorkIsFinal` | a work that is done is in no queue and in no hand: `DoneIsFinal` |
| `QueuesSafelyDestroyed` | `QueuesOutliveUsers` |
| `FewWorksNeverJam` | with at most `2 * Capacity + 1` works outstanding, `NoCircularWait` (with one slot, three works: without compression nothing is ever pushed by a worker) |
| `PlainWorksInOrder` | `PlainInOrder`, whatever compressed works are in between |

The invariant `FsInv` rests on `Places`: a work that is submitted and not done is in
*exactly one* place (either queue, either thread, or the client's hands), any other
work in none. `DoneIsFinal` by itself is not inductive: that a signalled work is not
also in a queue needs the uniqueness. `Shutdown` adds that inside `fs_destroy` no
work is outstanding, hence none in a place, hence no thread about to push. A jam puts
`2 * Capacity + 2` different works in places, which the proof turns into an injection
into the outstanding works. For the order, `PlainOrder` says that of two plain works
the earlier, while unfinished, is ahead in `file_queue` or already with the file
thread, and `PlainPlaces` keeps plain works away from the compression thread.

The second half of the module is about blocks of memory and the contents of files:

| theorem | says | assuming |
|---|---|---|
| `NothingElseLeaks` | `OnlyCompressedLeaks`: at the end `file_compress`'s buffers are left, and the works the client did not destroy | every read is given the heap of `fs_create`: `Heaps \subseteq {FsHeap}` |
| `NoReadIsStale` | `NoStaleRead`, any works, modes, failures | |
| `WrittenComesBack` | `ReadsBackWritten` | all accesses use compression: `Modes \subseteq {TRUE}` |

For the leaks the invariant follows a read's buffer: while the work is *coming* there is no
decompressed one, while it is *carried* to the compression thread there is one that was
read, and a block of either kind belongs to a live read. That a work destroyed is in no
thread's hands is `Places` again. Without the assumption the property fails:
`fs_work_destroy` frees the work from `work->heap` (`fs.c:150`), the heap of the buffer,
wherever the work was allocated.

`NoReadIsStale` rests on `Fresh`: once a write is in its file, the file holds the data of
some write that was not complete when that one was submitted, and so does the buffer of
each read it precedes, from the moment the bytes are fetched. A later write keeps this,
because whatever it overwrites precedes it or is still incomplete. Which of two plain works
comes first is `PlainOrder`; which works are in whose hands is `Ways`.

`WrittenComesBack` rests on `Contents`: with compression in every access, a file is absent,
or coded by a write to that path, or in the middle of one, and a read carries what it
fetched until it is decoded. Without the assumption a file written plain and read with
compression gives the reader what was not written; `fs_mixed` has such works and does not
check this property.

### EcsProofs

| theorem | says (tables of any size, any calls) |
|---|---|
| `EntitiesTyped` | types |
| `SequencesUnique` | `UniqueSequences` |
| `RefsKeepMeaning` | `RefsNeverAlias` |
| `QueriesMeetFrame` | `QueryMeetsFrame` |
| `ArraysFreed` | `DestroyFreesAll` |
| `TableImplementsLives` | `Ecs` implements `EntityLife`: the safety part of the refinement that `ecs_frames` checks. A failed load changes nothing, a failed save may lose the saved game (`Lose`) |

`TableInv` requires the *saved* table to be as sound as the live one, since a load
makes it live. `RefInv` says that a reference's sequence number names its entity in
the live table and in the saved one, except for what a load abandoned. `CursorInv`
says that the slots visited so far include every matching one of the frame up to the
cursor: bodies may add (pending, not met) and remove (pending, still in its slot) but
never take an active entity out before the next update. A live slot outside the frame
is pending removal: its entity was added *and* removed in this frame, and a query may
meet it although it never was active. `ArraysInv` accounts for each array. The scans over slots are `CHOOSE` of a smallest index;
`SmallestIn` proves from well-foundedness that it exists.

### NetConnectionsProofs

| theorem | says (any peers, table size, capacity, timeout, and a clock that wraps anywhere) |
|---|---|
| `ConnectionsTyped` | types, and that a thread holds the mutex exactly in its sections |
| `OneConnection` | `OneConnectionEach` |
| `SendersKeepQueues` | `SendersAccounted` |
| `RacesAreTwo` | `OnlyTwoRaces` |

`Places` ties the mutex to where main and the receive thread are, so that two of them are
never in a section at once. `Tables` says of each entry what it has: a free one has no
queues and no thread; one with an address has both unless it is being opened, by the one
thread that holds the mutex, or has been torn down by a disconnect that has not cleared
the table yet. That an address is claimed only when no entry has it needs that the look-up
and the claim are one section (`Claims`). What the receive thread holds outside the mutex
is either the connection it found or `stale`. All of them need `PortAssumption`: an entry
claimed for an address with port 0 is still free, and would be given away again.

### NetReplicationProofs

| theorem | says (any tables, rings, snapshots, packets read per update, values; whatever is lost, delayed, repeated or reordered) |
|---|---|
| `AcksAreTrue` | `AckedWasAccepted` |
| `ReplicasMatch` | `ReplicaMatchesSnapshot` |
| `ReplicasAreSingle` | `OneReplicaEach` |
| `ReplicasAreOfNamed` | `ReplicasWereNamed` |

Nothing is assumed of the constants but their types: the code's 32 entities, 32 replica
slots, 256 snapshots and a queue of 3 are one case. What goes wrong is in the properties
themselves. `ReplicaMatchesSnapshot` excepts data that is back at an earlier value
(`LeftOut`); `OneReplicaEach` excepts an entity missing from another packet of the same
update, and one that found no slot, and says how many entities that takes;
`ReplicasWereNamed` is what is left of `UnseenRemoved` when several packets are read in one
update.

The invariant is `Typed /\ AckInv /\ SentInv /\ ReplicaInv`. *Acknowledgements* (`AckOk`):
a packet acknowledges only what its receiver's peer accepted (`Genuine`), the later the
more (`Grows`), and nothing accepted says more than what is known (`Told`). *Sent*
(`SentOk`): whatever the ring holds under a number is what was sent under that number, also
after its place was taken, and a snapshot has one value for each name; (`WireOk`) a packet
tells the values of its snapshot (`Tells`) or leaves them out because a snapshot that the
receiver accepted had the same (`Backed`). *Replicas* (`Held`): no two of one entity;
each is of an entity named in the last batch and fits the last snapshot, or is excused
(`ReplicaHeld`, `Fits`, `Excused`); a lost one means a crowd (`Crowded`); all the rest are
there (`Present`). The step that matters reads a packet entity by entity: `net_update` is a
fold over packets of a fold over entities, and the proof carries a description of the
replicas after the first *n* of each to the next.

### RenderProofs

| theorem | says | assuming |
|---|---|---|
| `NothingInUse` | `NothingDestroyedInUse` | `DrawsAll` |
| `DrawsOwn` | `DrawsItsModel` | `DrawsAll` |
| `DestroysOnce` | `DestroyedOnce` | `DrawsAll` |
| `DrawsFit` | `EveryDrawFits` | `DrawsAll`, `Room` |

`DrawsAll`: main draws every mesh and every shader in each frame, with any set of entities,
and no info is used as both. It is what the game does, and `render_stale_slot` shows why it
must: an info that is left out for `FrameCount` frames is destroyed and its slot kept
(section 6.4). `Room`: a table has a slot for each info main may push, and the pool
`FrameCount` sets for each entity. As `PoolSets` and `MaxDrawables` are both 512 in the code,
this is 512 / `FrameCount` entities, not 512.

The invariant, besides types, has five parts. `QueueInv`: the frames main has pushed reach the
render thread whole, so that at each end of frame every info kept has been seen. `FenceInv`:
frames in flight are the last ones before `frame_index`, in order, each with its fence
reset. `StoreInv`: what is in the tables is what is live, each object in one slot; and the
slots past the end of the two tables whose infos are always drawn were never used.
`DrawsInv`: a draw recorded or in flight refers to objects that are in the tables and were drawn in its frame or later. An instance is
destroyed when it was last drawn `FrameCount` frames ago; at most `FrameCount` frames are in
flight, and the oldest of them is the one whose fence was waited for, so the frames left
drew only what is younger. The bound is exact: with the comparison off by one (`StaleEarly`)
the property fails. `BindInv` says the cached pipeline and mesh are the bound ones.
The sweep of a table with swap-removal is a recursive function; the proof shows that its
equations have the intended solution, by the smallest index at which they would not.

### HeapProofs

| theorem | says (any lists, threads, requests, alignments, number of arenas) | assuming |
|---|---|---|
| `HeapBlocksSound` | `BlocksSound` | `NotAtLimit` |
| `HeapGrowthSuffices` | `GrowthSuffices` | `NotAtLimit`, `GrowthRoom` |
| `HeapIncrementSuffices` | both | `LargeIncrement` |

`NotAtLimit`: no arena's pool is of `block_size_max` exactly. `tlsf_add_pool` refuses a
pool that is larger (`tlsf.c:995`) but lets this one through, and its first index is one
past the lists. `GrowthRoom`: the pool made for a request, which is the increment or twice
the *bytes* asked for, rounded *down* to words, is at least as far up in the lists as a
search for that request, rounded *up* to words and aligned, begins. Twice the bytes does
not give that by itself: 49 bytes at an alignment of 16 bytes make a pool of 12 words for a
search of 14, and `heap_alloc` returns NULL. `GrowthRoom` is what the constants of `parts`
satisfy. `LargeIncrement` says in the code's own terms when it holds: the lists have a
second level, the pool of no request is of the allocator's limit or more, and
`grow_increment` is at least `12 * alignment + 33` words. In the code the limit is 4 GB,
or 2^29 words, the increment 2 MB, or 262144 words (`main.c:16`), and alignments are of one
word, or what a component type asks for (`ecs.c:237`). The empty request is excepted in
`GrowthSuffices`: it takes an arena and gets NULL.

The first part is arithmetic: powers of two, the highest bit set, and the two indices made
of it. The indices do not fall as the size grows (`InsertOrder`), so that a search that
begins at the rounded size (`SearchIndex`) meets only blocks that are large enough. The second part says how blocks
lie in memory, in headers alone. `Chain`: every block with a size is followed, a header's
overhead later, by another, whose `prev_free` tells whether this one is free and whose
`prev_phys` then leads back to it; and all the blocks of a pool lie within it, pools
apart. `Coalesced`: no two free blocks are neighbours. `Listing`: each list enumerates the
free blocks of its index, and the two bitmaps tell which lists are not empty. `tlsf_check`
and `tlsf_check_pool` follow from these three, together `Sound`.

None of them holds *inside* a call. `Sound(t, P, X, Y)` therefore says what is still owed:
blocks of `Y` are free and in no list yet, and free neighbours may only meet before one of
`X`. Each of `block_split`, `block_absorb`, `block_mark_as_used`, `block_mark_as_free`,
insertion, removal and adding a pool has a lemma that takes one such state to another, and
`tlsf_memalign` and `tlsf_free` chain them from `X = Y = {}` back to it. `Kept`, carried
along, says that no call touches the size of a block in use but its own; from it follows
`Holds`, that each block held, and each about to be freed, is a block in use large enough,
and no two the same. `CallersApart` is then geometry. `HeapInv` is `Sound` with nothing
owed, pools inside arenas, and `Holds`.

### PartsProofs

| theorem | says | assuming |
|---|---|---|
| `OwnersKept` | any number of frames, any layouts and copies, any call failing: `OwnersOutlive` | |
| `NothingHalfMade` | the same: `AllOrNothing` | |
| `TimeKept` | any timers in any hierarchy: `TimersKeepTime` | scales are not negative; a parent is a timer |
| `MasksTrue` | any keys and messages in flight: `MasksFollowKeys` | "none" is not a key |
| `RowsAreTested` | rows anywhere, any number and length of blocks, any frame times: `NoRowSkipped` | the player starts below the rows, blocks on their path, and there is a longest frame |
| `MatricesFollow` | after any moves, turns, even scalings and inversions in a space of any size: `SpaceFollows` | |

For `Gpu` the invariant says what exists by where the render thread is: while an object is
made, all the others and what its calls have made so far; while it is unmade, what the calls
left over will destroy. That needs three facts about each list of calls, proved from the
lists themselves: every call finds what it is given among what the calls before it made
(`InOrder`); the destroy function lists everything the create function makes, once, children
before parents (`Ordered`); and what a prefix of the calls has made can be told from its
handles by the tests of the destroy function (`Whole`), which for `gpu_destroy` is true only
because the calls that make the mesh layouts, the last of `gpu_create`, cannot fail. Lists
for each frame and each layout are concatenations; that all three facts survive
concatenation is a lemma each, and their number is arbitrary, so the last step is an
induction.

`TimersKeepTime` bounds a timer by its parent's time *now*; the invariant (`Sound`) bounds a
running timer by `bias_ticks`, up to which it has counted, and a paused one by the parent's
time less what it has been paused. `MasksFollowKeys` is inductive once messages are typed
and a closed window is known to have set `quit`. `NoRowSkipped` needs only that a frame
tests the row he is in *before* it moves him.

For `Transforms` the invariant (`Paired`) is that transform and matrix come from one
translation, one even scale and one unit quaternion: the rows of the matrix are those of
the quaternion's rotation, scaled, then the translation. That products and inverses keep
this is a number of identities between polynomials. The halves that `quatf_mul` and
`mat4f_make_rotation` take must be exact first, which they are because the numbers of a
rotation, doubled, are all odd or all even (`Odd4`, `Even4`); after that four times the
matrix is quadratic in them, and the composition of two rotations, the orthogonality of the
rows, and the adjugate of `mat4f_invert` with a determinant of 1 or -1 are checked entry by
entry.

### Only model-checked

* Liveness under fairness, which is out of the prover's reach: `EveryItemPopped`,
  `WorkCompletes`, `MutexReturned`, the three `DestroyReturns`.
* Where a theorem assumes something, the run of the same property checks instances that
  satisfy it; the runs that expect a violation, and section 6, show what is beyond.

What recursion computes can be proved about here when it is written as a recursive function
or a fold of the community modules: the library's induction theorems cannot be instantiated
by the installed provers, but that a set of numbers which is not empty has a smallest member
can, and from it each induction is a lemma of its own (`HasSmallest`, `UpTo`).

## 6. What the code does wrong

Each has a run whose counterexample is the trace to read.

1. **Two producers** (`queue_two_producers`, `queue.c:42`). A push releases
   `used_items` for *its own* ticket while an earlier ticket's slot is unwritten, and
   the consumer reads that slot. `queue.h:20`: "Safe for multiple threads to push at
   the same time." `file_queue` of `fs.c` is such a queue.
2. **Two threads jam** (`fs_circular_wait`, `fs.c:229` against `fs.c:284`). With
   `2 * capacity + 2` works outstanding each worker thread can block on the other's
   full queue for ever.
3. **Components after a load** (`ecs_dangling_load`, `ecs.c:182`, `189`). Component
   pointers are set into the file's buffer, which is then freed.
4. **A stale slot** (`render_stale_slot`, `render.c:251`). Swap-removal leaves the
   destroyed mesh's pointer in the slot past the end; the next mesh to take it is
   never created.
5. **A replica nobody saw** (`net_stale_replicas`, `net.c:589`). "Remove entities that we
   didn't see in the snapshot!" says `net.c:584`. All packets read in one update count as
   seen at the same sequence number, so that an entity of an earlier one is kept by a
   later one that lacks it.

Other outcomes, which the same modules show with other constants, name as exceptions of
their properties, or leave out, and which have no run of their own:

* `Queue` with pushes past `IntMax`: `%` gives a negative slot. With two consumers
  `EachItemPoppedOnce` fails as it does with two producers.
* `Ecs`: a reference to an entity added after a save can match one added after the
  load; this is the exception in `RefsNeverAlias`. After a load, saved arrays leak and
  pointers into the freed buffer are freed again; this is the exception in
  `DestroyFreesAll`. `ecs_entity_get_component` does not look at the mask
  (`ecs.c:289`).
* `Render`: `gpu_frame_begin` does not wait although `gpu.h:107` says it may; a command
  buffer is re-recorded while its frame is in flight. 512 descriptor sets do not do
  for 512 instances of `FrameCount` sets each.
* **Connections.** Two races crash (`OnlyTwoRaces` says that no other does): `net_update`
  sends on a connection that the receive thread is still opening (`net.c:159`), and the
  receive thread uses one that main has torn down since it was found (`net.c:377`). After a
  failed `sendto` the send thread is gone (`net.c:298`), and main blocks in `queue_push` when
  the queue is full, in `net_destroy` too. A packet that arrives between the disconnect
  and the end of the receive thread opens a connection nobody closes (`net.c:144`). For
  `k_timeout_ms` before the milliseconds wrap, every connection is timed out at once
  (`net.c:400`). An address without a port makes a connection in an entry that stays
  free (`net.c:244-262`, `327`).
* `Heap`: `heap_alloc` returns with the mutex locked when there is no memory
  (`heap.c:65`), after which every other thread blocks; an empty request takes a new arena
  each time and still gets NULL. `tlsf_add_pool` takes a pool of exactly `block_size_max`,
  whose first index is past the last list (`tlsf.c:995`); `heap_alloc` adds such a pool for
  a request of exactly half that, 2 GB.
* `TimerObject`: a paused timer keeps its last delta. `Window`: a key let go in another
  window stays down. `Transforms`: with uneven scales under a rotation `transform_multiply`
  is not the matrix product. `Game`: a frame of more than 0.4 s takes the player over a
  row untested.
* `quatf_to_eulers` names `.x` three times (`quatf.c:32`), so that pitch and yaw are lost;
  nothing calls it.
* `NetReplication`: data that goes A, B, A stays at B on the receiver when the snapshot
  acknowledged is the first of the three (`net.c:490`); it is the exception `LeftOut`. An
  entity that finds no replica slot is added to the ECS again and again, unknown to the
  connection (`net.c:548-564`); these are the `orphans` of `OneReplicaEach`, and with 32 slots
  for 32 entities it takes one that replaces another. An entity that is missing from one
  packet and back in the next, both read in one update, is removed: its replica is pending
  removal when it is named again. A slot whose entity is gone, or more data than 1024 bytes,
  cuts the snapshot short (`SnapshotData`), and what is left out of it is removed.
* `Fs`: the buffer of `file_compress` is never freed; `OnlyCompressedLeaks` says that
  nothing else leaks. A file that was not written compressed decodes to junk with
  result 0 (`fs.c:158-173`). The works of a failed save or load are never destroyed
  (`ecs.c:122-124`).
* `Ecs`: the result of the write is not looked at (`ecs.c:107-109`), so that a game may be
  taken for saved that is not; a load of the empty file this can leave is not checked.

## 7. What is left out

* Error exits of `gpu_frame_begin` and `gpu_frame_end`, which are printed and ignored; NULL
  results of the `gpu_*_create` functions, which `render.c:132` does not look at.
* Contents: component data, vertices, uniform values, bytes and sizes of packets.
* The load of an empty save file; the sizes that `file_decompress` reads from a file;
  addresses without a port.
* Of the mathematics: Euler angles, projections, lengths, and rounding. They are
  floating point, of which TLC has none, and have no state.
* Of TLSF: `tlsf_malloc`, `tlsf_realloc`, `tlsf_remove_pool`, `tlsf_walk_pool` and the
  self-test; nothing in the repository calls them.
* Of the window: relative mouse movement and the cursor. Of the game: saving, loading and
  drawing, which are `Ecs`'s and `Render`'s.
* `thread.c`, `event.c`, `mutex.c`, `semaphore.c`, `atomic.c`: one Win32 call each. What they
  do is part of the modules that use them.
* `trace.c` (empty stubs), `debug.c`, clocks: input and output.
* `lecture7.c`: a demonstration that nothing starts.
* Vendored code other than TLSF: the Vulkan headers, which have no behaviour, and LZ4, a
  codec over bytes of which `Fs` uses the promise. Together they are four fifths of the C
  lines under `src/`; what the modules stand for is therefore a small share of all lines
  and the greater part of the engine's own.

## 8. What is next

Every component with state of its own has a module. What could be added, in this order:

1. `FsOverQueue`: `Fs` with the two queues of `Queue` in place of the atomic ones, one
   capacity larger than the number of works so that only the race of section 6.1 is
   left; shows which properties of `Fs` survive it.
2. `NetConnections` under `NetReplication`: replicas of a connection that was timed out and
   opened again by the same peer.
3. `main.c` as the composition of `Fs`, `Ecs` and `Render` by their abstract
   specifications: creation, frames and shutdown in order.
4. Proofs for rotations by any angle: that the matrix follows the transform is an identity
   over a field, of which the prover has none; the quaternions here are those of the cube.

The set of runs is kept small on purpose: one for each question, the small modules
together in `parts`.
