--------------------------------- MODULE Fs ---------------------------------
(***************************************************************************)
(* fs.c: asynchronous file reads and writes.  A client thread submits      *)
(* works; a file thread does the disk I/O and a compression thread the     *)
(* LZ4 coding.  Each thread owns the consuming end of one queue, and each  *)
(* also pushes into the other's queue: a compressed read goes file queue   *)
(* -> compression queue, a compressed write the other way.                 *)
(*                                                                         *)
(* The queues are the FIFO queues queue.h promises (module BoundedFifo):   *)
(* a push and a pop are each one step.  queue.c keeps that promise to one  *)
(* pushing thread, or to several when the ring has one slot (module        *)
(* Queue), and QueueAssumption says that one of the two is the case.       *)
(***************************************************************************)
EXTENDS Integers, Sequences, FiniteSets

CONSTANTS Works,       \* the work objects the client creates, one per call
          Paths,       \* file names
          Capacity,    \* queue_capacity given to fs_create
          FsHeap,      \* the heap given to fs_create
          Heaps,       \* the heaps the client passes to fs_read
          Modes,       \* values the client passes for use_compression
          MayFail,     \* whether system calls on files can fail
          NULL         \* the null pointer

ASSUME CapacityAssumption == Capacity \in Nat \ {0}
ASSUME WorksAssumption    == IsFiniteSet(Works) /\ NULL \notin Works
ASSUME HeapsAssumption    == Heaps # {} /\ Paths # {}
ASSUME ModesAssumption    == Modes \subseteq BOOLEAN /\ MayFail \in BOOLEAN

(* Without compression only the client pushes.  The game's works are all   *)
(* of that kind, on rings of 8 slots (main.c:17).                          *)
ASSUME QueueAssumption == Capacity = 1 \/ Modes \subseteq {FALSE}

VARIABLES file_queue, compression_queue,  \* fs_t's queues
          destroyed,          \* the queues queue_destroy has been called on
          file_thread,        \* [at, work]: where each thread is and on what
          compression_thread,
          client,
          work,               \* work[w]: the fs_work_t of w
          disk,               \* disk[path]: content of each file
          blocks,             \* heap blocks allocated and not freed
          misfreed,           \* blocks heap_free was wrongly called on
          order,              \* history: works in the order of submission
          doneBefore          \* history: works complete when w was submitted

queues  == <<file_queue, compression_queue>>
threads == <<file_thread, compression_thread>>
memory  == <<blocks, misfreed>>
history == <<order, doneBefore>>
vars == <<queues, destroyed, threads, client, work, disk, memory, history>>

(* Content of a file or a buffer: how it is coded and the write it is of.  *)
None    == <<"none", NULL>>      \* no such file, or a NULL buffer
Earlier == <<"lz4", NULL>>       \* a file an earlier run wrote compressed
Codings == {"none", "raw", "lz4", "empty", "junk"}
Content == Codings \X (Works \cup {NULL})

At(place, w) == [at |-> place, work |-> w]

Init == /\ file_queue = <<>> /\ compression_queue = <<>> /\ destroyed = {}
        /\ file_thread = At("pop", NULL) /\ compression_thread = At("pop", NULL)
        /\ client = At("idle", NULL)
        /\ work = [w \in Works |->
             [phase |-> "none", op |-> "read", path |-> CHOOSE p \in Paths : TRUE,
              use_compression |-> FALSE, heap |-> FsHeap, buffer |-> None,
              result |-> 0, done |-> FALSE]]
        /\ disk \in [Paths -> {None, Earlier}]
        /\ blocks = {} /\ misfreed = {}
        /\ order = <<>> /\ doneBefore = [w \in Works |-> {}]

Done(w) == work[w].done
Live(w) == work[w].phase = "live"

-----------------------------------------------------------------------------
(* The client: fs_read, fs_write, fs_work_wait / get_*, fs_work_destroy    *)

Create(w, op, p, z, h) ==
  /\ client.at = "idle" /\ work[w].phase = "none"
  /\ work' = [work EXCEPT ![w] =
       [phase |-> "live", op |-> op, path |-> p, use_compression |-> z, heap |-> h,
        buffer |-> IF op = "write" THEN <<"raw", w>> ELSE None,
        result |-> 0, done |-> FALSE]]
  /\ blocks' = blocks \cup {<<"work", w, FsHeap>>}
  /\ order' = Append(order, w)
  /\ doneBefore' = [doneBefore EXCEPT ![w] = {v \in Works : Done(v)}]
  /\ UNCHANGED <<queues, destroyed, threads, disk, misfreed>>

FsRead(w, p, z, h) == /\ Create(w, "read", p, z, h)
                      /\ client' = At("push file", w)

(* FAULT: every write goes through the compression thread. *)
FsWriteCompressed(w, p, z) == /\ Create(w, "write", p, z, FsHeap)
                              /\ client' = At("push compression", w)

FsWrite(w, p, z) == /\ Create(w, "write", p, z, FsHeap)
                    /\ client' = At(IF z THEN "push compression" ELSE "push file", w)

(* queue_push blocks while the queue is full.                              *)
PushFile(w) == /\ Len(file_queue) < Capacity
               /\ file_queue' = Append(file_queue, w)
               /\ UNCHANGED compression_queue

PushCompression(w) == /\ Len(compression_queue) < Capacity
                      /\ compression_queue' = Append(compression_queue, w)
                      /\ UNCHANGED file_queue

Submitted == /\ \/ client.at = "push file" /\ PushFile(client.work)
                \/ client.at = "push compression" /\ PushCompression(client.work)
             /\ client' = At("idle", NULL)
             /\ UNCHANGED <<destroyed, threads, work, disk, memory, history>>

(* fs_work_wait and the getters block on the event; fs_work_destroy does   *)
(* so too before it frees.                                                 *)
Wait(w, place) == /\ client.at = "idle" /\ Live(w)
                  /\ client' = At(place, w)
                  /\ UNCHANGED <<queues, destroyed, threads, work, disk, memory, history>>

WorkWait(w) == Wait(w, "wait")
WorkDestroy(w) == Wait(w, "destroy")

Waited == /\ client.at = "wait" /\ Done(client.work)
          /\ client' = At("idle", NULL)
          /\ UNCHANGED <<queues, destroyed, threads, work, disk, memory, history>>

(* heap_free(h, block), and what it is when the block is not of heap h.    *)
Freed(kind, w, h)   == blocks \ {<<kind, w, h>>}
Misfree(kind, w, h) == IF <<kind, w, h>> \in blocks THEN {} ELSE {<<kind, w, h>>}

(* Before it destroys a read the client frees the buffer it got from it,   *)
(* as fs.h:26 asks.                                                        *)
BufferBlock(w) ==
  IF work[w].op = "write" THEN {}
  ELSE IF <<"decompressed", w, work[w].heap>> \in blocks
       THEN {<<"decompressed", w, work[w].heap>>} ELSE {<<"read", w, work[w].heap>>}

WorkDestroyed ==
  LET w == client.work
      h == work[w].heap
  IN /\ client.at = "destroy" /\ Done(w)
     /\ work' = [work EXCEPT ![w].phase = "freed"]
     /\ blocks' = Freed("work", w, h) \ BufferBlock(w)
     /\ misfreed' = misfreed \cup Misfree("work", w, h)
     /\ client' = At("idle", NULL)
     /\ UNCHANGED <<queues, destroyed, threads, disk, history>>

-----------------------------------------------------------------------------
(* fs_destroy.  main.c calls it last, when every function that submits a   *)
(* work has waited for it; not every work has been destroyed, for          *)
(* ecs.c:124 returns without doing that.                                   *)

FsDestroy == /\ client.at = "idle"
             /\ \A w \in Works : Live(w) => Done(w)
             /\ client' = At("stop file", NULL)
             /\ UNCHANGED <<queues, destroyed, threads, work, disk, memory, history>>

StopFileThread == /\ client.at = "stop file"
                  /\ PushFile(NULL)
                  /\ client' = At("stop compression", NULL)
                  /\ UNCHANGED <<destroyed, threads, work, disk, memory, history>>

(* FAULT: the compression thread is not told to stop. *)
StopCompressionThreadSkipped == /\ client.at = "stop compression"
                                /\ client' = At("join file", NULL)
                                /\ UNCHANGED <<queues, destroyed, threads, work, disk,
                                               memory, history>>

StopCompressionThread == /\ client.at = "stop compression"
                         /\ PushCompression(NULL)
                         /\ client' = At("join file", NULL)
                         /\ UNCHANGED <<destroyed, threads, work, disk, memory, history>>

JoinFileThread == /\ client.at = "join file"
                  /\ file_thread.at = "exited"
                  /\ destroyed' = destroyed \cup {"file_queue"}
                  /\ client' = At("join compression", NULL)
                  /\ UNCHANGED <<queues, threads, work, disk, memory, history>>

(* FAULT: the compression queue is destroyed without joining its thread.   *)
JoinCompressionThreadSkipped ==
  /\ client.at = "join compression"
  /\ destroyed' = destroyed \cup {"compression_queue"}
  /\ client' = At("closed", NULL)
  /\ UNCHANGED <<queues, threads, work, disk, memory, history>>

JoinCompressionThread == /\ client.at = "join compression"
                         /\ compression_thread.at = "exited"
                         /\ destroyed' = destroyed \cup {"compression_queue"}
                         /\ client' = At("closed", NULL)
                         /\ UNCHANGED <<queues, threads, work, disk, memory, history>>

-----------------------------------------------------------------------------
(* file_thread_func, with file_read and file_write.  A system call may     *)
(* fail; then the work is signalled with an error code.                    *)

FilePop == /\ file_thread.at = "pop" /\ file_queue # <<>>
           /\ LET w == Head(file_queue)
              IN file_thread' = IF w = NULL THEN At("exited", NULL) ELSE At("open", w)
           /\ file_queue' = Tail(file_queue)
           /\ UNCHANGED <<compression_queue, destroyed, compression_thread, client,
                          work, disk, memory, history>>

FileGoto(from, to) == /\ file_thread.at = from
                      /\ file_thread' = At(to, file_thread.work)
                      /\ UNCHANGED <<queues, destroyed, compression_thread, client, history>>

(* FAULT: an early return without event_signal. *)
FileOpenFailsUnsignalled == LET w == file_thread.work
                            IN /\ FileGoto("open", "pop")
                               /\ work' = [work EXCEPT ![w].result = -1]
                               /\ UNCHANGED <<disk, memory>>

(* The path, the file or its size cannot be had.                           *)
FileOpenFails == LET w == file_thread.work
                 IN /\ FileGoto("open", "signal")
                    /\ MayFail \/ (work[w].op = "read" /\ disk[work[w].path] = None)
                    /\ work' = [work EXCEPT ![w].result = -1]
                    /\ UNCHANGED <<disk, memory>>

(* CREATE_ALWAYS empties the file before anything is written to it.        *)
FileCreate == LET w == file_thread.work
              IN /\ FileGoto("open", "write")
                 /\ work[w].op = "write"
                 /\ disk' = [disk EXCEPT ![work[w].path] = <<"empty", w>>]
                 /\ UNCHANGED <<work, memory>>

FileWrite == LET w == file_thread.work
             IN /\ FileGoto("write", "signal")
                /\ disk' = [disk EXCEPT ![work[w].path] = work[w].buffer]
                /\ UNCHANGED <<work, memory>>

FileWriteFails == LET w == file_thread.work
                  IN /\ MayFail
                     /\ FileGoto("write", "signal")
                     /\ work' = [work EXCEPT ![w].result = -1]
                     /\ UNCHANGED <<disk, memory>>

(* OPEN_EXISTING, then a buffer of the size of the file from work->heap.   *)
FileOpen == LET w == file_thread.work
            IN /\ FileGoto("open", "read")
               /\ work[w].op = "read" /\ disk[work[w].path] # None
               /\ blocks' = blocks \cup {<<"read", w, work[w].heap>>}
               /\ UNCHANGED <<work, disk, misfreed>>

(* FAULT: use_compression is not looked at. *)
FileReadRaw == LET w == file_thread.work
               IN /\ FileGoto("read", "signal")
                  /\ work' = [work EXCEPT ![w].buffer = disk[work[w].path]]
                  /\ UNCHANGED <<disk, memory>>

FileRead == LET w == file_thread.work
            IN /\ FileGoto("read", IF work[w].use_compression THEN "push" ELSE "signal")
               /\ work' = [work EXCEPT ![w].buffer = disk[work[w].path]]
               /\ UNCHANGED <<disk, memory>>

FileReadFails == LET w == file_thread.work
                 IN /\ MayFail
                    /\ FileGoto("read", "signal")
                    /\ work' = [work EXCEPT ![w].result = -1,
                                            ![w].buffer = <<"junk", NULL>>]
                    /\ UNCHANGED <<disk, memory>>

(* FAULT: a work already pushed may be pushed again. *)
FilePushAgain == /\ file_thread.at = "push"
                 /\ PushCompression(file_thread.work)
                 /\ file_thread' \in {file_thread, At("pop", NULL)}
                 /\ UNCHANGED <<destroyed, compression_thread, client, work, disk,
                                memory, history>>

FilePush == /\ file_thread.at = "push"
            /\ PushCompression(file_thread.work)
            /\ file_thread' = At("pop", NULL)
            /\ UNCHANGED <<destroyed, compression_thread, client, work, disk, memory, history>>

FileSignal == /\ file_thread.at = "signal"
              /\ work' = [work EXCEPT ![file_thread.work].done = TRUE]
              /\ file_thread' = At("pop", NULL)
              /\ UNCHANGED <<queues, destroyed, compression_thread, client,
                             disk, memory, history>>

-----------------------------------------------------------------------------
(* compression_thread_func, with file_compress and file_decompress         *)

CompressionPop == /\ compression_thread.at = "pop" /\ compression_queue # <<>>
                  /\ LET w == Head(compression_queue)
                     IN compression_thread' =
                          IF w = NULL THEN At("exited", NULL) ELSE At("code", w)
                  /\ compression_queue' = Tail(compression_queue)
                  /\ UNCHANGED <<file_queue, destroyed, file_thread, client,
                                 work, disk, memory, history>>

(* The sizes come from the first bytes of the file, and neither they nor   *)
(* LZ4's result are looked at: what was not written compressed becomes,    *)
(* where the thread survives such sizes, a buffer of no meaning, with      *)
(* result 0.                                                               *)
Decompressed(c) == <<IF c[1] = "lz4" THEN "raw" ELSE "junk", c[2]>>

(* FAULT: the compressed buffer is not freed. *)
DecompressKeeps == LET w == compression_thread.work
                   IN /\ compression_thread.at = "code" /\ work[w].op = "read"
                      /\ work' = [work EXCEPT ![w].buffer = Decompressed(@)]
                      /\ blocks' = blocks \cup {<<"decompressed", w, work[w].heap>>}
                      /\ compression_thread' = At("signal", w)
                      /\ UNCHANGED <<queues, destroyed, file_thread, client, disk,
                                     misfreed, history>>

Decompress == LET w == compression_thread.work
                  h == work[w].heap
              IN /\ compression_thread.at = "code" /\ work[w].op = "read"
                 /\ work' = [work EXCEPT ![w].buffer = Decompressed(@)]
                 /\ blocks' = (blocks \ {<<"read", w, h>>}) \cup {<<"decompressed", w, h>>}
                 /\ misfreed' = misfreed \cup Misfree("read", w, h)
                 /\ compression_thread' = At("signal", w)
                 /\ UNCHANGED <<queues, destroyed, file_thread, client, disk, history>>

(* FAULT: a compressed write is signalled before the file is written. *)
CompressSignals ==
  LET w == compression_thread.work
  IN /\ compression_thread.at = "code" /\ work[w].op = "write"
     /\ work' = [work EXCEPT ![w].buffer = <<"lz4", @[2]>>, ![w].done = TRUE]
     /\ blocks' = blocks \cup {<<"compressed", w, work[w].heap>>}
     /\ compression_thread' = At("push", w)
     /\ UNCHANGED <<queues, destroyed, file_thread, client, disk, misfreed, history>>

(* The caller's buffer is replaced by a new one, which nothing ever frees. *)
Compress == LET w == compression_thread.work
            IN /\ compression_thread.at = "code" /\ work[w].op = "write"
               /\ work' = [work EXCEPT ![w].buffer = <<"lz4", @[2]>>]
               /\ blocks' = blocks \cup {<<"compressed", w, work[w].heap>>}
               /\ compression_thread' = At("push", w)
               /\ UNCHANGED <<queues, destroyed, file_thread, client, disk, misfreed, history>>

CompressionPush == /\ compression_thread.at = "push"
                   /\ PushFile(compression_thread.work)
                   /\ compression_thread' = At("pop", NULL)
                   /\ UNCHANGED <<destroyed, file_thread, client, work, disk, memory, history>>

CompressionSignal == /\ compression_thread.at = "signal"
                     /\ work' = [work EXCEPT ![compression_thread.work].done = TRUE]
                     /\ compression_thread' = At("pop", NULL)
                     /\ UNCHANGED <<queues, destroyed, file_thread, client,
                                    disk, memory, history>>

-----------------------------------------------------------------------------
Submit == \E w \in Works, p \in Paths, z \in Modes :
            \/ \E h \in Heaps : FsRead(w, p, z, h)
            \/ FsWrite(w, p, z)
Client == \/ Submit
          \/ \E w \in Works : WorkWait(w) \/ WorkDestroy(w)
          \/ FsDestroy
Stopping == StopFileThread \/ StopCompressionThread \/ JoinFileThread \/ JoinCompressionThread
Returning == Submitted \/ Waited \/ WorkDestroyed \/ Stopping

FileThread == \/ FilePop \/ FilePush \/ FileSignal
              \/ FileOpenFails \/ FileCreate \/ FileWrite \/ FileWriteFails
              \/ FileOpen \/ FileRead \/ FileReadFails

CompressionThread == \/ CompressionPop \/ Decompress \/ Compress
                     \/ CompressionPush \/ CompressionSignal

(* After fs_destroy there is nothing left to do. *)
Closed == client.at = "closed" /\ UNCHANGED vars

Next == Client \/ Returning \/ FileThread \/ CompressionThread \/ Closed

Spec == Init /\ [][Next]_vars

(* The scheduler runs the two threads, and the client inside a call, when  *)
(* they are not blocked.  The client need not make a further call.         *)
FairSpec == /\ Spec
            /\ WF_vars(FileThread) /\ WF_vars(CompressionThread) /\ WF_vars(Returning)

-----------------------------------------------------------------------------
(* Types of the state. *)
ThreadAt(places) == [at : places, work : Works \cup {NULL}]
TypeOK ==
  /\ file_queue \in Seq(Works \cup {NULL}) /\ Len(file_queue) <= Capacity
  /\ compression_queue \in Seq(Works \cup {NULL}) /\ Len(compression_queue) <= Capacity
  /\ destroyed \subseteq {"file_queue", "compression_queue"}
  /\ file_thread \in ThreadAt({"pop", "open", "write", "read", "push", "signal", "exited"})
  /\ compression_thread \in ThreadAt({"pop", "code", "push", "signal", "exited"})
  /\ client \in ThreadAt({"idle", "push file", "push compression", "wait", "destroy",
                          "stop file", "stop compression", "join file",
                          "join compression", "closed"})
  /\ work \in [Works -> [phase : {"none", "live", "freed"}, op : {"read", "write"},
                         path : Paths, use_compression : BOOLEAN, heap : Heaps \cup {FsHeap},
                         buffer : Content, result : {0, -1}, done : BOOLEAN]]
  /\ disk \in [Paths -> Content]
  /\ order \in Seq(Works)
  /\ doneBefore \in [Works -> SUBSET Works]

(* The queue a thread waits on is never destroyed under it, and nothing is *)
(* pushed into a destroyed queue.  (the order of fs.c:61-66)               *)
QueuesOutliveUsers ==
  /\ "file_queue" \in destroyed =>
       file_thread.at = "exited" /\ compression_thread.at # "push"
  /\ "compression_queue" \in destroyed =>
       compression_thread.at = "exited" /\ file_thread.at # "push"

(* A work the client sees as done has its final buffer and result: no      *)
(* thread touches it again, so the client may free it.  (the last          *)
(* statement of file_read, file_write, file_decompress is event_signal)    *)
Touched(w) == \/ file_thread.work = w \/ compression_thread.work = w
              \/ \E i \in DOMAIN file_queue : file_queue[i] = w
              \/ \E i \in DOMAIN compression_queue : compression_queue[i] = w
DoneIsFinal == \A w \in Works : Done(w) => ~Touched(w)

(* The two threads never wait for room in each other's queue at once.      *)
(* (fs.c:229 against fs.c:284)                                             *)
NoCircularWait ==
  ~ /\ file_thread.at = "push" /\ Len(compression_queue) = Capacity
    /\ compression_thread.at = "push" /\ Len(file_queue) = Capacity

(* v was submitted before w. *)
Before(v, w) == \E i, j \in DOMAIN order : i < j /\ order[i] = v /\ order[j] = w
Plain(w) == ~work[w].use_compression

(* Works that do not use compression complete in the order of submission.  *)
(* (one file thread, one FIFO file_queue)                                  *)
PlainInOrder ==
  \A v, w \in Works : Plain(v) /\ Plain(w) /\ Before(v, w) /\ Done(w) => Done(v)

(* A read never returns what was already overwritten when it was           *)
(* submitted: if write d to the same path had completed by then, or if d   *)
(* and the read are both plain and d was submitted first, the data read is *)
(* of d or of a write that did not complete before d was submitted.        *)
Succeeded(w) == Done(w) /\ work[w].result = 0
Precedes(d, r) == d \in doneBefore[r] \/ (Plain(d) /\ Plain(r) /\ Before(d, r))
NoStaleRead ==
  \A r, d \in Works :
    /\ work[r].op = "read" /\ Succeeded(r)
    /\ work[d].op = "write" /\ Succeeded(d)
    /\ work[r].path = work[d].path /\ Precedes(d, r)
    => LET x == work[r].buffer[2] IN x \in Works /\ x \notin doneBefore[d]

(* What is written compressed, or plain, and read back the same way comes  *)
(* back decoded: a read that succeeds has the bytes of one write to that   *)
(* path, unless that write failed.  (docs/homework2.md:21-23)            *)
ReadsBackWritten ==
  \A r \in Works : work[r].op = "read" /\ Succeeded(r) =>
    LET c == work[r].buffer
    IN \/ c = Decompressed(Earlier)
       \/ /\ c[2] \in Works /\ work[c[2]].op = "write" /\ work[c[2]].path = work[r].path
          /\ c[1] = "raw" \/ work[c[2]].result # 0

(* Every block is freed once and to the heap it came from, and when        *)
(* everything is shut down only the buffers of file_compress are still     *)
(* allocated, and what belongs to works the client did not destroy.        *)
(* (fs.c:150, 175, 254, 282)                                               *)
OnlyCompressedLeaks ==
  /\ misfreed = {}
  /\ client.at = "closed" => \A b \in blocks : b[1] = "compressed" \/ Live(b[2])

(* Every work submitted completes.  ("Block for the file work to           *)
(* complete.", fs.h:38)                                                    *)
WorkCompletes == \A w \in Works : Live(w) ~> Done(w)

(* fs_destroy returns. *)
DestroyReturns == (client.at = "stop file") ~> (client.at = "closed")
=============================================================================
