------------------------------ MODULE FsProofs ------------------------------
(***************************************************************************)
(* Proofs about Fs for any number of works, any queue capacity, any mix of *)
(* plain and compressed calls and any failures of system calls: what is    *)
(* done is final, queues outlive their users, plain works complete in      *)
(* order, and the two threads cannot jam each other while at most          *)
(* 2 * Capacity + 1 works are outstanding; no memory leaks but that of     *)
(* file_compress, no read is stale, and what is written compressed comes   *)
(* back decoded.                                                           *)
(*                                                                         *)
(* All of it rests on one fact (Places): a work that was submitted and is  *)
(* not done is in exactly one place, a queue or the hands of a thread.     *)
(***************************************************************************)
EXTENDS Fs, FiniteSetTheorems, TLAPS

-----------------------------------------------------------------------------
(* Queues as sets of works that do not repeat.                             *)
In(q, w)    == \E i \in DOMAIN q : q[i] = w
NoRepeat(q) == \A i, j \in DOMAIN q : q[i] = q[j] /\ q[i] # NULL => i = j

Queued == Seq(Works \cup {NULL})

LEMMA AppendIn ==
  ASSUME NEW q \in Queued, NEW x \in Works \cup {NULL}
  PROVE  /\ Append(q, x) \in Queued /\ Len(Append(q, x)) = Len(q) + 1
         /\ \A w : In(Append(q, x), w) <=> In(q, w) \/ w = x
<1>1. /\ Append(q, x) \in Queued /\ Len(Append(q, x)) = Len(q) + 1
      /\ DOMAIN q = 1 .. Len(q) /\ DOMAIN Append(q, x) = 1 .. Len(q) + 1
      /\ Len(q) \in Nat
      /\ \A i \in 1 .. Len(q) : Append(q, x)[i] = q[i]
      /\ Append(q, x)[Len(q) + 1] = x
  BY DEF Queued
<1>2. ASSUME NEW w PROVE In(Append(q, x), w) <=> In(q, w) \/ w = x
  <2>1. ASSUME In(Append(q, x), w) PROVE In(q, w) \/ w = x
    <3>1. PICK i \in 1 .. Len(q) + 1 : Append(q, x)[i] = w BY <1>1, <2>1 DEF In
    <3>2. i \in 1 .. Len(q) \/ i = Len(q) + 1 BY <1>1
    <3>3. QED BY <1>1, <3>1, <3>2 DEF In
  <2>2. ASSUME In(q, w) PROVE In(Append(q, x), w)
    <3>1. PICK i \in 1 .. Len(q) : q[i] = w BY <1>1, <2>2 DEF In
    <3>2. i \in 1 .. Len(q) + 1 BY <1>1
    <3>3. QED BY <1>1, <3>1, <3>2 DEF In
  <2>3. ASSUME w = x PROVE In(Append(q, x), w)
    <3>1. Len(q) + 1 \in 1 .. Len(q) + 1 BY <1>1
    <3>2. QED BY <1>1, <2>3, <3>1 DEF In
  <2>4. QED BY <2>1, <2>2, <2>3
<1>3. QED BY <1>1, <1>2

LEMMA AppendNoRepeat ==
  ASSUME NEW q \in Queued, NEW x \in Works \cup {NULL}, NoRepeat(q),
         x = NULL \/ ~In(q, x)
  PROVE  NoRepeat(Append(q, x))
<1>1. /\ DOMAIN q = 1 .. Len(q) /\ DOMAIN Append(q, x) = 1 .. Len(q) + 1
      /\ Len(q) \in Nat
      /\ \A i \in 1 .. Len(q) : Append(q, x)[i] = q[i]
      /\ Append(q, x)[Len(q) + 1] = x
  BY DEF Queued
<1>2. SUFFICES ASSUME NEW i \in 1 .. Len(q) + 1, NEW j \in 1 .. Len(q) + 1,
                      Append(q, x)[i] = Append(q, x)[j], Append(q, x)[i] # NULL
               PROVE  i = j
  BY <1>1 DEF NoRepeat
<1>3. \A k \in 1 .. Len(q) + 1 : k \in 1 .. Len(q) \/ k = Len(q) + 1 BY <1>1
<1>4. QED BY <1>1, <1>2, <1>3 DEF NoRepeat, In

LEMMA TailIn ==
  ASSUME NEW q \in Queued, NoRepeat(q), q # <<>>
  PROVE  /\ Head(q) \in Works \cup {NULL}
         /\ Tail(q) \in Queued /\ Len(Tail(q)) = Len(q) - 1
         /\ NoRepeat(Tail(q))
         /\ In(q, Head(q))
         /\ In(Tail(q), NULL) => In(q, NULL)
         /\ \A w : w # NULL => (In(Tail(q), w) <=> In(q, w) /\ w # Head(q))
<1>1. /\ Tail(q) \in Queued /\ Len(Tail(q)) = Len(q) - 1
      /\ Len(q) \in Nat /\ Len(q) >= 1
      /\ DOMAIN q = 1 .. Len(q) /\ DOMAIN Tail(q) = 1 .. Len(q) - 1
      /\ \A i \in 1 .. Len(q) - 1 : Tail(q)[i] = q[i + 1]
      /\ Head(q) = q[1]
  BY DEF Queued
<1>2. \A i \in 1 .. Len(q) - 1 : i + 1 \in 1 .. Len(q) /\ i + 1 # 1 BY <1>1
<1>3. 1 \in 1 .. Len(q) BY <1>1
<1>4. Head(q) \in Works \cup {NULL} /\ In(q, Head(q)) BY <1>1, <1>3 DEF In, Queued
<1>5. NoRepeat(Tail(q))
  <2>1. SUFFICES ASSUME NEW i \in 1 .. Len(q) - 1, NEW j \in 1 .. Len(q) - 1,
                        Tail(q)[i] = Tail(q)[j], Tail(q)[i] # NULL
                 PROVE  i = j
    BY <1>1 DEF NoRepeat
  <2>2. i + 1 = j + 1 BY <1>1, <1>2, <2>1 DEF NoRepeat
  <2>3. QED BY <2>2
<1>6. ASSUME NEW w, In(Tail(q), w) PROVE In(q, w) /\ (w # NULL => w # Head(q))
  <2>1. PICK i \in 1 .. Len(q) - 1 : Tail(q)[i] = w BY <1>1, <1>6 DEF In
  <2>2. QED BY <1>1, <1>2, <1>3, <2>1 DEF In, NoRepeat
<1>7. ASSUME NEW w, In(q, w), w # Head(q) PROVE In(Tail(q), w)
  <2>1. PICK i \in 1 .. Len(q) : q[i] = w BY <1>1, <1>7 DEF In
  <2>2. i # 1 BY <1>1, <1>7, <2>1
  <2>3. i - 1 \in 1 .. Len(q) - 1 /\ (i - 1) + 1 = i BY <1>1, <2>2
  <2>4. Tail(q)[i - 1] = w BY <1>1, <2>1, <2>3
  <2>5. QED BY <1>1, <2>3, <2>4 DEF In
<1>8. QED BY <1>1, <1>4, <1>5, <1>6, <1>7

-----------------------------------------------------------------------------
(* A thread holds a work exactly where its code has one in a variable.     *)
Hands ==
  /\ file_thread.work = NULL <=> file_thread.at \in {"pop", "exited"}
  /\ compression_thread.work = NULL <=> compression_thread.at \in {"pop", "exited"}
  /\ client.work = NULL <=>
       client.at \notin {"push file", "push compression", "wait", "destroy"}

(* The state is typed and the hands fit: the two go together, as typing a  *)
(* step needs the work in hand to be a work.                               *)
WorkType == [phase : {"none", "live", "freed"}, op : {"read", "write"},
             path : Paths, use_compression : BOOLEAN, heap : Heaps \cup {FsHeap},
             buffer : Content, result : {0, -1}, done : BOOLEAN]

QueuesTyped ==
  /\ file_queue \in Queued /\ Len(file_queue) <= Capacity
  /\ compression_queue \in Queued /\ Len(compression_queue) <= Capacity
FilePlaces        == {"pop", "open", "write", "read", "push", "signal", "exited"}
CompressionPlaces == {"pop", "code", "push", "signal", "exited"}
ClientPlaces      == {"idle", "push file", "push compression", "wait", "destroy", "stop file",
                      "stop compression", "join file", "join compression", "closed"}
ThreadsTyped ==
  /\ file_thread \in ThreadAt(FilePlaces)
  /\ compression_thread \in ThreadAt(CompressionPlaces)
  /\ client \in ThreadAt(ClientPlaces)
RestTyped ==
  /\ destroyed \in SUBSET {"file_queue", "compression_queue"}
  /\ disk \in [Paths -> Content]
  /\ order \in Seq(Works)
  /\ doneBefore \in [Works -> SUBSET Works]

Typed == QueuesTyped /\ ThreadsTyped /\ work \in [Works -> WorkType] /\ RestTyped /\ Hands

LEMMA TypedParts == Typed => TypeOK
BY DEF Typed, QueuesTyped, ThreadsTyped, RestTyped, WorkType, Queued, TypeOK,
       FilePlaces, CompressionPlaces, ClientPlaces

LEMMA InitTyped == Init => Typed
<1> SUFFICES ASSUME Init PROVE Typed OBVIOUS
<1>1. (CHOOSE p \in Paths : TRUE) \in Paths BY HeapsAssumption
<1>2. work \in [Works -> WorkType]
  BY <1>1 DEF Init, Content, Codings, None, WorkType
<1>3. RestTyped BY DEF Init, Content, Codings, None, Earlier, RestTyped
<1>4. QueuesTyped BY CapacityAssumption DEF Init, QueuesTyped, Queued
<1>5. ThreadsTyped /\ Hands 
  BY DEF Init, ThreadsTyped, Hands, ThreadAt, At, FilePlaces, CompressionPlaces, ClientPlaces
<1>6. QED BY <1>2, <1>3, <1>4, <1>5 DEF Typed

LEMMA AtFields == \A place, w : At(place, w).at = place /\ At(place, w).work = w
BY DEF At

(* A thread moves on, with a work in hand or not. *)
LEMMA Moves ==
  ASSUME ThreadsTyped, Hands, NEW place, NEW w \in Works \cup {NULL}
  PROVE  /\ /\ UNCHANGED <<file_thread, compression_thread>> /\ client' = At(place, w)
            /\ place \in ClientPlaces
            /\ w = NULL <=> place \notin {"push file", "push compression", "wait", "destroy"}
            => ThreadsTyped' /\ Hands'
         /\ /\ UNCHANGED <<compression_thread, client>> /\ file_thread' = At(place, w)
            /\ place \in FilePlaces
            /\ w = NULL <=> place \in {"pop", "exited"}
            => ThreadsTyped' /\ Hands'
         /\ /\ UNCHANGED <<file_thread, client>> /\ compression_thread' = At(place, w)
            /\ place \in CompressionPlaces
            /\ w = NULL <=> place \in {"pop", "exited"}
            => ThreadsTyped' /\ Hands'
<1>1. /\ At(place, w).at = place /\ At(place, w).work = w
      /\ place \in FilePlaces => At(place, w) \in ThreadAt(FilePlaces)
      /\ place \in CompressionPlaces => At(place, w) \in ThreadAt(CompressionPlaces)
      /\ place \in ClientPlaces => At(place, w) \in ThreadAt(ClientPlaces)
  BY DEF At, ThreadAt
<1>2. QED BY <1>1 DEF ThreadsTyped, Hands

(* What is pushed fits. *)
LEMMA PushTyped ==
  ASSUME QueuesTyped, NEW w \in Works \cup {NULL}, PushFile(w) \/ PushCompression(w)
  PROVE  QueuesTyped'
<1>1. Len(file_queue) \in Nat /\ Len(compression_queue) \in Nat BY DEF QueuesTyped, Queued
<1>2. /\ Append(file_queue, w) \in Queued
      /\ Len(Append(file_queue, w)) = Len(file_queue) + 1
      /\ Append(compression_queue, w) \in Queued
      /\ Len(Append(compression_queue, w)) = Len(compression_queue) + 1
  BY AppendIn DEF QueuesTyped
<1>3. CASE PushFile(w)
  BY <1>1, <1>2, <1>3, CapacityAssumption DEF QueuesTyped, PushFile
<1>4. CASE PushCompression(w)
  BY <1>1, <1>2, <1>4, CapacityAssumption DEF QueuesTyped, PushCompression
<1>5. QED BY <1>3, <1>4

(* A new work is well formed. *)
LEMMA CreateTyped ==
  ASSUME Typed, NEW w \in Works, NEW op \in {"read", "write"}, NEW p \in Paths,
         NEW z \in Modes, NEW h \in Heaps \cup {FsHeap}, Create(w, op, p, z, h)
  PROVE  /\ work' \in [Works -> WorkType] /\ RestTyped'
         /\ UNCHANGED <<file_queue, compression_queue, file_thread, compression_thread>>
<1>1. <<"raw", w>> \in Content /\ None \in Content BY DEF Content, Codings, None
<1>2. z \in BOOLEAN BY ModesAssumption
<1>3. work \in [Works -> WorkType] BY DEF Typed
<1>4. work' \in [Works -> WorkType] BY <1>1, <1>2, <1>3 DEF Create, WorkType
<1>5. RestTyped' BY DEF Typed, RestTyped, Create
<1>6. QED BY <1>4, <1>5 DEF Create, queues, threads

(* Setting one field of a work, where there is one, keeps it a work.       *)
LEMMA FieldTyped ==
  ASSUME work \in [Works -> WorkType], NEW w
  PROVE  /\ [work EXCEPT ![w].done = TRUE] \in [Works -> WorkType]
         /\ [work EXCEPT ![w].phase = "freed"] \in [Works -> WorkType]
<1>1. CASE w \in Works
  <2>1. work[w] \in WorkType BY <1>1
  <2>2. [work[w] EXCEPT !.done = TRUE] \in WorkType BY <2>1 DEF WorkType
  <2>3. [work[w] EXCEPT !.phase = "freed"] \in WorkType BY <2>1 DEF WorkType
  <2>4. QED BY <2>2, <2>3
<1>2. CASE w \notin Works BY <1>2
<1>3. QED BY <1>1, <1>2

LEMMA ClientTyped ==
  ASSUME Typed, Client \/ Returning \/ Closed
  PROVE  Typed'
<1> USE DEF Typed
<1>1. CASE Submit
  <2>1. PICK w \in Works, p \in Paths, z \in Modes :
          \/ \E h \in Heaps : FsRead(w, p, z, h)
          \/ FsWrite(w, p, z)
    BY <1>1 DEF Submit
  <2>2. \E op \in {"read", "write"}, h \in Heaps \cup {FsHeap} : Create(w, op, p, z, h)
    BY <2>1 DEF FsRead, FsWrite
  <2>3. client' \in {At("push file", w), At("push compression", w)}
    BY <2>1 DEF FsRead, FsWrite
  <2>4. /\ work' \in [Works -> WorkType] /\ RestTyped'
        /\ UNCHANGED <<file_queue, compression_queue, file_thread, compression_thread>>
    BY <2>2, CreateTyped
  <2>5. ThreadsTyped' /\ Hands'
    BY <2>3, <2>4, Moves, WorksAssumption DEF ClientPlaces
  <2>6. QED BY <2>4, <2>5 DEF QueuesTyped
<1>2. CASE \E w \in Works : WorkWait(w) \/ WorkDestroy(w)
  <2>1. PICK w \in Works, place \in {"wait", "destroy"} : Wait(w, place)
    BY <1>2 DEF WorkWait, WorkDestroy
  <2>2. ThreadsTyped' /\ Hands'
    BY <2>1, Moves, WorksAssumption DEF ClientPlaces, Wait, threads
  <2>3. QED BY <2>1, <2>2 DEF Wait, QueuesTyped, RestTyped, queues, history
<1>3. CASE FsDestroy
  <2>1. ThreadsTyped' /\ Hands'
    BY <1>3, Moves DEF ClientPlaces, FsDestroy, threads
  <2>2. QED BY <1>3, <2>1 DEF FsDestroy, QueuesTyped, RestTyped, queues, history
<1>4. CASE Submitted \/ StopFileThread \/ StopCompressionThread
  <2>1. \E w \in Works \cup {NULL} : PushFile(w) \/ PushCompression(w)
    BY <1>4 DEF Submitted, StopFileThread, StopCompressionThread, ThreadsTyped, ThreadAt
  <2>2. QueuesTyped' BY <2>1, PushTyped
  <2>3. ThreadsTyped' /\ Hands'
    BY <1>4, Moves
    DEF ClientPlaces, Submitted, StopFileThread, StopCompressionThread, threads
  <2>4. QED
    BY <1>4, <2>2, <2>3
    DEF Submitted, StopFileThread, StopCompressionThread, RestTyped, history
<1>5. CASE Waited
  <2>1. ThreadsTyped' /\ Hands'
    BY <1>5, Moves DEF ClientPlaces, Waited, threads
  <2>2. QED BY <1>5, <2>1 DEF Waited, QueuesTyped, RestTyped, queues, history
<1>6. CASE WorkDestroyed
  <2>1. ThreadsTyped' /\ Hands'
    BY <1>6, Moves DEF ClientPlaces, WorkDestroyed, threads
  <2>2. work' \in [Works -> WorkType] BY <1>6, FieldTyped DEF WorkDestroyed
  <2>3. QED BY <1>6, <2>1, <2>2 DEF WorkDestroyed, QueuesTyped, RestTyped, queues, history
<1>7. CASE JoinFileThread \/ JoinCompressionThread
  <2>1. ThreadsTyped' /\ Hands'
    BY <1>7, Moves
    DEF ClientPlaces, JoinFileThread, JoinCompressionThread, threads
  <2>2. destroyed' \in SUBSET {"file_queue", "compression_queue"}
    BY <1>7 DEF RestTyped, JoinFileThread, JoinCompressionThread
  <2>3. QED
    BY <1>7, <2>1, <2>2
    DEF JoinFileThread, JoinCompressionThread, QueuesTyped, RestTyped, queues, history
<1>8. CASE Closed
  BY <1>8 DEF Closed, vars, queues, threads, history, memory,
              QueuesTyped, ThreadsTyped, RestTyped, Hands
<1>9. QED
  BY <1>1, <1>2, <1>3, <1>4, <1>5, <1>6, <1>7, <1>8 DEF Client, Returning, Stopping

(* The work in hand is a work. *)
LEMMA InHand ==
  ASSUME Typed
  PROVE  /\ file_thread.at \notin {"pop", "exited"} => file_thread.work \in Works
         /\ compression_thread.at \notin {"pop", "exited"} => compression_thread.work \in Works
         /\ client.at \in {"push file", "push compression", "wait", "destroy"}
              => client.work \in Works
BY DEF Typed, ThreadsTyped, Hands, ThreadAt

(* A step of the file thread inside file_read or file_write. *)
LEMMA GotoTyped ==
  ASSUME Typed, NEW from \in FilePlaces \ {"pop", "exited"},
         NEW to \in FilePlaces \ {"pop", "exited"}, FileGoto(from, to)
  PROVE  /\ file_thread.work \in Works
         /\ QueuesTyped' /\ ThreadsTyped' /\ Hands'
         /\ UNCHANGED <<destroyed, order, doneBefore>>
<1>1. file_thread.work \in Works BY InHand DEF FileGoto
<1>2. ThreadsTyped' /\ Hands'
  BY <1>1, Moves, WorksAssumption DEF FileGoto, Typed
<1>3. QED BY <1>1, <1>2 DEF FileGoto, Typed, QueuesTyped, queues, history

LEMMA FileThreadTyped ==
  ASSUME Typed, FileThread
  PROVE  Typed'
<1> USE DEF Typed
<1>1. CASE FilePop
  <2>1. /\ file_queue \in Queued /\ file_queue # <<>> BY <1>1 DEF QueuesTyped, FilePop
  <2>2. /\ Head(file_queue) \in Works \cup {NULL}
        /\ Tail(file_queue) \in Queued /\ Len(Tail(file_queue)) <= Len(file_queue)
    BY <2>1 DEF Queued
  <2>3. QueuesTyped'
    BY <1>1, <2>1, <2>2, CapacityAssumption DEF QueuesTyped, FilePop, Queued
  <2>4. ThreadsTyped' /\ Hands'
    <3>1. CASE Head(file_queue) = NULL
      BY <1>1, <3>1, Moves DEF FilePop, FilePlaces
    <3>2. CASE Head(file_queue) # NULL
      BY <1>1, <2>2, <3>2, Moves DEF FilePop, FilePlaces
    <3>3. QED BY <3>1, <3>2
  <2>5. QED BY <1>1, <2>3, <2>4 DEF FilePop, RestTyped, history
<1>2. CASE FilePush
  <2>1. file_thread.work \in Works BY <1>2, InHand DEF FilePush
  <2>2. QueuesTyped' BY <1>2, <2>1, PushTyped DEF FilePush
  <2>3. ThreadsTyped' /\ Hands' BY <1>2, Moves DEF FilePush, FilePlaces
  <2>4. QED BY <1>2, <2>2, <2>3 DEF FilePush, RestTyped, history
<1>3. CASE FileSignal
  <2>1. work' \in [Works -> WorkType] BY <1>3, FieldTyped DEF FileSignal
  <2>2. ThreadsTyped' /\ Hands' BY <1>3, Moves DEF FileSignal, FilePlaces
  <2>3. QED
    BY <1>3, <2>1, <2>2 DEF FileSignal, QueuesTyped, RestTyped, queues, history
<1>4. CASE FileOpenFails \/ FileWriteFails \/ FileReadFails
  <2>1. \E from, to \in FilePlaces \ {"pop", "exited"} : FileGoto(from, to)
    BY <1>4 DEF FileOpenFails, FileWriteFails, FileReadFails, FilePlaces
  <2>2. <<"junk", NULL>> \in Content BY DEF Content, Codings
  <2>3. work' \in [Works -> WorkType]
    BY <1>4, <2>2 DEF FileOpenFails, FileWriteFails, FileReadFails, WorkType
  <2>4. QED
    BY <1>4, <2>1, <2>3, GotoTyped
    DEF FileOpenFails, FileWriteFails, FileReadFails, RestTyped
<1>5. CASE FileCreate \/ FileWrite
  <2>1. \E from, to \in FilePlaces \ {"pop", "exited"} : FileGoto(from, to)
    BY <1>5 DEF FileCreate, FileWrite, FilePlaces
  <2>2. file_thread.work \in Works BY <2>1, GotoTyped
  <2>3. <<"empty", file_thread.work>> \in Content /\ work[file_thread.work].buffer \in Content
    BY <2>2 DEF Content, Codings, WorkType
  <2>4. disk' \in [Paths -> Content] BY <1>5, <2>3 DEF FileCreate, FileWrite, RestTyped
  <2>5. QED
    BY <1>5, <2>1, <2>4, GotoTyped DEF FileCreate, FileWrite, RestTyped
<1>6. CASE FileOpen \/ FileRead
  <2>1. \E from, to \in FilePlaces \ {"pop", "exited"} : FileGoto(from, to)
    BY <1>6 DEF FileOpen, FileRead, FilePlaces
  <2>2. file_thread.work \in Works BY <2>1, GotoTyped
  <2>3. disk[work[file_thread.work].path] \in Content BY <2>2 DEF WorkType, RestTyped
  <2>4. work' \in [Works -> WorkType] BY <1>6, <2>3 DEF FileOpen, FileRead, WorkType
  <2>5. QED
    BY <1>6, <2>1, <2>4, GotoTyped DEF FileOpen, FileRead, RestTyped
<1>7. QED BY <1>1, <1>2, <1>3, <1>4, <1>5, <1>6 DEF FileThread

LEMMA CompressionThreadTyped ==
  ASSUME Typed, CompressionThread
  PROVE  Typed'
<1> USE DEF Typed
<1>1. CASE CompressionPop
  <2>1. /\ compression_queue \in Queued /\ compression_queue # <<>>
    BY <1>1 DEF QueuesTyped, CompressionPop
  <2>2. /\ Head(compression_queue) \in Works \cup {NULL}
        /\ Tail(compression_queue) \in Queued
        /\ Len(Tail(compression_queue)) <= Len(compression_queue)
    BY <2>1 DEF Queued
  <2>3. QueuesTyped'
    BY <1>1, <2>1, <2>2, CapacityAssumption DEF QueuesTyped, CompressionPop, Queued
  <2>4. ThreadsTyped' /\ Hands'
    <3>1. CASE Head(compression_queue) = NULL
      BY <1>1, <3>1, Moves DEF CompressionPop, CompressionPlaces
    <3>2. CASE Head(compression_queue) # NULL
      BY <1>1, <2>2, <3>2, Moves DEF CompressionPop, CompressionPlaces
    <3>3. QED BY <3>1, <3>2
  <2>5. QED BY <1>1, <2>3, <2>4 DEF CompressionPop, RestTyped, history
<1>2. CASE CompressionPush
  <2>1. compression_thread.work \in Works BY <1>2, InHand DEF CompressionPush
  <2>2. QueuesTyped' BY <1>2, <2>1, PushTyped DEF CompressionPush
  <2>3. ThreadsTyped' /\ Hands' BY <1>2, Moves DEF CompressionPush, CompressionPlaces
  <2>4. QED BY <1>2, <2>2, <2>3 DEF CompressionPush, RestTyped, history
<1>3. CASE CompressionSignal
  <2>1. work' \in [Works -> WorkType] BY <1>3, FieldTyped DEF CompressionSignal
  <2>2. ThreadsTyped' /\ Hands' BY <1>3, Moves DEF CompressionSignal, CompressionPlaces
  <2>3. QED
    BY <1>3, <2>1, <2>2 DEF CompressionSignal, QueuesTyped, RestTyped, queues, history
<1>4. CASE Decompress \/ Compress
  <2>1. compression_thread.work \in Works BY <1>4, InHand DEF Decompress, Compress
  <2>2. work[compression_thread.work].buffer \in Content BY <2>1 DEF WorkType
  <2>3. /\ Decompressed(work[compression_thread.work].buffer) \in Content
        /\ <<"lz4", work[compression_thread.work].buffer[2]>> \in Content
    BY <2>2 DEF Content, Codings, Decompressed
  <2>4. work' \in [Works -> WorkType]
    BY <1>4, <2>1, <2>3 DEF Decompress, Compress, WorkType
  <2>5. ThreadsTyped' /\ Hands'
    BY <1>4, <2>1, Moves, WorksAssumption DEF Decompress, Compress, CompressionPlaces
  <2>6. QED
    BY <1>4, <2>4, <2>5 DEF Decompress, Compress, QueuesTyped, RestTyped, queues, history
<1>5. QED BY <1>1, <1>2, <1>3, <1>4 DEF CompressionThread

LEMMA StepTyped == Typed /\ [Next]_vars => Typed'
<1> SUFFICES ASSUME Typed, [Next]_vars PROVE Typed' OBVIOUS
<1>1. CASE UNCHANGED vars
  BY <1>1 DEF Typed, QueuesTyped, ThreadsTyped, RestTyped, Hands,
              vars, queues, threads, memory, history
<1>2. CASE Next
  BY <1>2, ClientTyped, FileThreadTyped, CompressionThreadTyped DEF Next
<1>3. QED BY <1>1, <1>2

(* Types, for any number of works and any capacity.                        *)
THEOREM FsTyped == Spec => []TypeOK
<1>1. Typed /\ [Next]_vars => Typed' BY StepTyped
<1>2. QED BY <1>1, InitTyped, TypedParts, PTL DEF Spec

-----------------------------------------------------------------------------
(* Where a work is.  The client holds one while it waits in queue_push.    *)
Submitting(w)  == client.at \in {"push file", "push compression"} /\ client.work = w
Outstanding(w) == Live(w) /\ ~Done(w)

Held(w) == \/ In(file_queue, w) \/ In(compression_queue, w)
           \/ file_thread.work = w \/ compression_thread.work = w
           \/ Submitting(w)

(* An outstanding work is in exactly one place, any other in none.         *)
Places ==
  /\ NoRepeat(file_queue) /\ NoRepeat(compression_queue)
  /\ \A w \in Works :
       /\ Outstanding(w) <=> Held(w)
       /\ In(file_queue, w) => /\ ~In(compression_queue, w) /\ ~Submitting(w)
                               /\ file_thread.work # w /\ compression_thread.work # w
       /\ In(compression_queue, w) => /\ ~Submitting(w)
                                      /\ file_thread.work # w /\ compression_thread.work # w
       /\ file_thread.work = w => compression_thread.work # w /\ ~Submitting(w)
       /\ compression_thread.work = w => ~Submitting(w)

(* A work is freed only when it is done, and not done before it exists.    *)
Phases == \A w \in Works : /\ work[w].phase = "freed" => Done(w)
                           /\ work[w].phase = "none" => ~Done(w)

(* Inside fs_destroy every work is done; only then are queues destroyed    *)
(* and threads told to stop.                                               *)
Closing == client.at \in {"stop file", "stop compression", "join file", "join compression",
                          "closed"}
Shutdown ==
  /\ Closing => \A w \in Works : ~Outstanding(w)
  /\ In(file_queue, NULL) \/ In(compression_queue, NULL) => Closing
  /\ "file_queue" \in destroyed => Closing /\ file_thread.at = "exited"
  /\ "compression_queue" \in destroyed => Closing /\ compression_thread.at = "exited"

FsInv == Typed /\ Places /\ Phases /\ Shutdown

LEMMA InitFsInv == Init => FsInv
<1> SUFFICES ASSUME Init PROVE FsInv OBVIOUS
<1>1. \A w : ~In(<<>>, w) BY DEF In
<1>2. NoRepeat(<<>>) BY DEF NoRepeat
<1>3. file_queue = <<>> /\ compression_queue = <<>> BY DEF Init
<1>4. Places
  BY <1>1, <1>2, <1>3, WorksAssumption
  DEF Init, Places, Outstanding, Held, Live, Submitting, At
<1>5. Phases BY DEF Init, Phases, Done
<1>6. Shutdown BY <1>1, <1>3 DEF Init, Shutdown, Closing, At
<1>7. QED BY <1>4, <1>5, <1>6, InitTyped DEF FsInv

(* Done work is in no queue and in no hand, so the client may free it.     *)
LEMMA FsInvDone == FsInv => DoneIsFinal
BY DEF FsInv, Places, Held, Outstanding, DoneIsFinal, Touched, In, Live, Done

(* A thread that is about to push holds a work, so nothing is shut down.   *)
LEMMA FsInvQueues == FsInv => QueuesOutliveUsers
<1> SUFFICES ASSUME FsInv PROVE QueuesOutliveUsers OBVIOUS
<1>1. /\ file_thread.at = "push" => file_thread.work \in Works
      /\ compression_thread.at = "push" => compression_thread.work \in Works
  BY InHand DEF FsInv
<1>2. file_thread.at = "push" \/ compression_thread.at = "push" => ~Closing
  BY <1>1 DEF FsInv, Places, Held, Outstanding, Shutdown
<1>3. QED BY <1>2 DEF FsInv, Shutdown, QueuesOutliveUsers

(* Steps that move no work and signal none. *)
LEMMA StillPlaces ==
  ASSUME Places, Phases, UNCHANGED <<file_queue, compression_queue>>,
         file_thread'.work = file_thread.work,
         compression_thread'.work = compression_thread.work,
         \A w \in Works : Submitting(w)' <=> Submitting(w),
         \A w \in Works : /\ work'[w].phase = work[w].phase
                          /\ work'[w].done = work[w].done
  PROVE  Places' /\ Phases'
BY DEF Places, Phases, Outstanding, Held, Live, Done

LEMMA SubmitPlaces ==
  ASSUME FsInv, Submit
  PROVE  Places' /\ Phases'
<1>1. PICK w \in Works, p \in Paths, z \in Modes :
        \/ \E h \in Heaps : FsRead(w, p, z, h)
        \/ FsWrite(w, p, z)
  BY DEF Submit
<1>2. \E op \in {"read", "write"}, h \in Heaps \cup {FsHeap} : Create(w, op, p, z, h)
  BY <1>1 DEF FsRead, FsWrite
<1>3. client' = At("push file", w) \/ client' = At("push compression", w)
  BY <1>1 DEF FsRead, FsWrite
<1>4. work \in [Works -> WorkType] BY DEF FsInv, Typed
<1>5. /\ UNCHANGED <<file_queue, compression_queue, file_thread, compression_thread>>
      /\ client.at = "idle" /\ work[w].phase = "none"
      /\ work'[w].phase = "live" /\ work'[w].done = FALSE
      /\ \A v \in Works : v # w => work'[v] = work[v]
  BY <1>2, <1>4 DEF Create, queues, threads
<1>6. \A v \in Works : ~Submitting(v) /\ (Submitting(v)' <=> v = w)
  <2>1. client'.at \in {"push file", "push compression"} /\ client'.work = w
    BY <1>3, AtFields
  <2>2. QED BY <1>5, <2>1 DEF Submitting
<1>7. ~Held(w) BY <1>5 DEF FsInv, Places, Outstanding, Live
<1>8. QED
  BY <1>5, <1>6, <1>7 DEF FsInv, Places, Phases, Outstanding, Held, Live, Done

LEMMA SubmittedPlaces ==
  ASSUME FsInv, Submitted
  PROVE  Places' /\ Phases'
<1>1. PICK w \in Works : w = client.work BY InHand DEF FsInv, Submitted
<1>2. w \in Works \cup {NULL} /\ w # NULL BY WorksAssumption
<1>3. /\ file_queue \in Queued /\ compression_queue \in Queued
      /\ NoRepeat(file_queue) /\ NoRepeat(compression_queue)
  BY DEF FsInv, Typed, QueuesTyped, Places
<1>4. Submitting(w) /\ \A v \in Works : v # w => ~Submitting(v)
  BY <1>1 DEF Submitting, Submitted
<1>5. \A v \in Works : ~Submitting(v)' BY DEF Submitted, Submitting, At
<1>6. ~In(file_queue, w) /\ ~In(compression_queue, w) BY <1>4 DEF FsInv, Places
<1>7. UNCHANGED <<file_thread, compression_thread, work>> BY DEF Submitted, threads
<1>8. CASE PushFile(w)
  <2>1. /\ NoRepeat(file_queue') /\ compression_queue' = compression_queue
        /\ \A v : In(file_queue', v) <=> In(file_queue, v) \/ v = w
    BY <1>2, <1>3, <1>6, <1>8, AppendIn, AppendNoRepeat DEF PushFile
  <2>2. QED
    BY <1>4, <1>5, <1>7, <2>1 DEF FsInv, Places, Phases, Outstanding, Held, Live, Done
<1>9. CASE PushCompression(w)
  <2>1. /\ NoRepeat(compression_queue') /\ file_queue' = file_queue
        /\ \A v : In(compression_queue', v) <=> In(compression_queue, v) \/ v = w
    BY <1>2, <1>3, <1>6, <1>9, AppendIn, AppendNoRepeat DEF PushCompression
  <2>2. QED
    BY <1>4, <1>5, <1>7, <2>1 DEF FsInv, Places, Phases, Outstanding, Held, Live, Done
<1>10. QED BY <1>1, <1>8, <1>9 DEF Submitted

(* fs_destroy pushes NULL, which is no work. *)
LEMMA StopPlaces ==
  ASSUME FsInv, StopFileThread \/ StopCompressionThread
  PROVE  Places' /\ Phases'
<1>1. /\ file_queue \in Queued /\ compression_queue \in Queued
      /\ NoRepeat(file_queue) /\ NoRepeat(compression_queue)
  BY DEF FsInv, Typed, QueuesTyped, Places
<1>2. UNCHANGED <<file_thread, compression_thread, work>>
      /\ \A w \in Works : ~Submitting(w) /\ ~Submitting(w)'
  <2>1. /\ client.at = "stop file" \/ client.at = "stop compression"
        /\ client'.at = "stop compression" \/ client'.at = "join file"
    BY AtFields DEF StopFileThread, StopCompressionThread
  <2>2. QED BY <2>1 DEF StopFileThread, StopCompressionThread, threads, Submitting
<1>3. \A w \in Works : w # NULL BY WorksAssumption
<1>4. /\ NoRepeat(file_queue') /\ NoRepeat(compression_queue')
      /\ \A w \in Works : /\ In(file_queue', w) <=> In(file_queue, w)
                          /\ In(compression_queue', w) <=> In(compression_queue, w)
  <2>1. PushFile(NULL) \/ PushCompression(NULL)
    BY DEF StopFileThread, StopCompressionThread
  <2>2. CASE PushFile(NULL)
    BY <1>1, <1>3, <2>2, AppendIn, AppendNoRepeat DEF PushFile
  <2>3. CASE PushCompression(NULL)
    BY <1>1, <1>3, <2>3, AppendIn, AppendNoRepeat DEF PushCompression
  <2>4. QED BY <2>1, <2>2, <2>3
<1>5. QED
  BY <1>2, <1>4 DEF FsInv, Places, Phases, Outstanding, Held, Live, Done

LEMMA ClientKeepsPlaces ==
  ASSUME FsInv, Client \/ Returning \/ Closed
  PROVE  Places' /\ Phases'
<1>1. Places /\ Phases BY DEF FsInv
<1>2. CASE \E w \in Works : WorkWait(w) \/ WorkDestroy(w)
  <2>1. PICK w \in Works, place \in {"wait", "destroy"} : Wait(w, place)
    BY <1>2 DEF WorkWait, WorkDestroy
  <2>2. \A v \in Works : ~Submitting(v) /\ ~Submitting(v)'
    BY <2>1 DEF Wait, Submitting, At
  <2>3. QED BY <1>1, <2>1, <2>2, StillPlaces DEF Wait, queues, threads
<1>3. CASE FsDestroy
  <2>1. \A v \in Works : ~Submitting(v) /\ ~Submitting(v)'
    BY <1>3 DEF FsDestroy, Submitting, At
  <2>2. QED BY <1>1, <1>3, <2>1, StillPlaces DEF FsDestroy, queues, threads
<1>4. CASE Waited
  <2>1. \A v \in Works : ~Submitting(v) /\ ~Submitting(v)'
    BY <1>4 DEF Waited, Submitting, At
  <2>2. QED BY <1>1, <1>4, <2>1, StillPlaces DEF Waited, queues, threads
<1>5. CASE JoinFileThread \/ JoinCompressionThread
  <2>1. \A v \in Works : ~Submitting(v) /\ ~Submitting(v)'
    <3>1. /\ client.at = "join file" \/ client.at = "join compression"
          /\ client'.at = "join compression" \/ client'.at = "closed"
      BY <1>5, AtFields DEF JoinFileThread, JoinCompressionThread
    <3>2. QED BY <3>1 DEF Submitting
  <2>2. QED
    BY <1>1, <1>5, <2>1, StillPlaces DEF JoinFileThread, JoinCompressionThread, queues, threads
<1>6. CASE WorkDestroyed
  <2>1. PICK w \in Works : w = client.work BY <1>6, InHand DEF FsInv, WorkDestroyed
  <2>2. work \in [Works -> WorkType] BY DEF FsInv, Typed
  <2>3. /\ work[w].done /\ work'[w].phase = "freed" /\ work'[w].done
        /\ \A v \in Works : v # w => work'[v] = work[v]
    BY <1>6, <2>1, <2>2 DEF WorkDestroyed, Done, WorkType
  <2>4. UNCHANGED <<file_queue, compression_queue, file_thread, compression_thread>>
        /\ \A v \in Works : ~Submitting(v) /\ ~Submitting(v)'
    BY <1>6 DEF WorkDestroyed, queues, threads, Submitting, At
  <2>5. QED BY <1>1, <2>3, <2>4 DEF Places, Phases, Outstanding, Held, Live, Done
<1>7. CASE Closed
  BY <1>1, <1>7, StillPlaces DEF Closed, vars, queues, threads, Submitting
<1>8. QED
  BY <1>2, <1>3, <1>4, <1>5, <1>6, <1>7, SubmitPlaces, SubmittedPlaces, StopPlaces
  DEF Client, Returning, Stopping

(* A thread takes a work out of its queue, or NULL. *)
LEMMA PopPlaces ==
  ASSUME FsInv, FilePop \/ CompressionPop
  PROVE  Places' /\ Phases'
<1>1. /\ file_queue \in Queued /\ compression_queue \in Queued
      /\ NoRepeat(file_queue) /\ NoRepeat(compression_queue)
  BY DEF FsInv, Typed, QueuesTyped, Places
<1>2. \A w \in Works : w # NULL BY WorksAssumption
<1>3. UNCHANGED <<client, work>> /\ \A w \in Works : Submitting(w)' <=> Submitting(w)
  BY DEF FilePop, CompressionPop, Submitting
<1>4. CASE FilePop
  <2>1. /\ NoRepeat(file_queue') /\ In(file_queue, Head(file_queue))
        /\ \A w \in Works : In(file_queue', w) <=> In(file_queue, w) /\ w # Head(file_queue)
    BY <1>1, <1>2, <1>4, TailIn DEF FilePop
  <2>2. /\ file_thread.work = NULL /\ file_thread'.work = Head(file_queue)
        /\ UNCHANGED <<compression_queue, compression_thread>>
    <3>1. file_thread'.work = Head(file_queue)
      <4>1. CASE Head(file_queue) = NULL BY <1>4, <4>1, AtFields DEF FilePop
      <4>2. CASE Head(file_queue) # NULL BY <1>4, <4>2, AtFields DEF FilePop
      <4>3. QED BY <4>1, <4>2
    <3>2. file_thread.at = "pop" /\ UNCHANGED <<compression_queue, compression_thread>>
      BY <1>4 DEF FilePop
    <3>3. QED BY <3>1, <3>2 DEF FsInv, Typed, Hands
  <2>3. QED
    BY <1>2, <1>3, <2>1, <2>2 DEF FsInv, Places, Phases, Outstanding, Held, Live, Done
<1>5. CASE CompressionPop
  <2>1. /\ NoRepeat(compression_queue') /\ In(compression_queue, Head(compression_queue))
        /\ \A w \in Works : In(compression_queue', w) <=>
                              In(compression_queue, w) /\ w # Head(compression_queue)
    BY <1>1, <1>2, <1>5, TailIn DEF CompressionPop
  <2>2. /\ compression_thread.work = NULL
        /\ compression_thread'.work = Head(compression_queue)
        /\ UNCHANGED <<file_queue, file_thread>>
    <3>1. compression_thread'.work = Head(compression_queue)
      <4>1. CASE Head(compression_queue) = NULL BY <1>5, <4>1, AtFields DEF CompressionPop
      <4>2. CASE Head(compression_queue) # NULL BY <1>5, <4>2, AtFields DEF CompressionPop
      <4>3. QED BY <4>1, <4>2
    <3>2. compression_thread.at = "pop" /\ UNCHANGED <<file_queue, file_thread>>
      BY <1>5 DEF CompressionPop
    <3>3. QED BY <3>1, <3>2 DEF FsInv, Typed, Hands
  <2>3. QED
    BY <1>2, <1>3, <2>1, <2>2 DEF FsInv, Places, Phases, Outstanding, Held, Live, Done
<1>6. QED BY <1>4, <1>5

(* A thread pushes its work into the other's queue. *)
LEMMA HandOverPlaces ==
  ASSUME FsInv, FilePush \/ CompressionPush
  PROVE  Places' /\ Phases'
<1>1. /\ file_queue \in Queued /\ compression_queue \in Queued
      /\ NoRepeat(file_queue) /\ NoRepeat(compression_queue)
  BY DEF FsInv, Typed, QueuesTyped, Places
<1>2. \A w \in Works : w # NULL BY WorksAssumption
<1>3. UNCHANGED <<client, work>> /\ \A w \in Works : Submitting(w)' <=> Submitting(w)
  BY DEF FilePush, CompressionPush, Submitting
<1>4. CASE FilePush
  <2>1. PICK w \in Works : w = file_thread.work BY <1>4, InHand DEF FsInv, FilePush
  <2>2. ~In(compression_queue, w) BY <2>1 DEF FsInv, Places
  <2>3. /\ NoRepeat(compression_queue') /\ UNCHANGED <<file_queue, compression_thread>>
        /\ \A v : In(compression_queue', v) <=> In(compression_queue, v) \/ v = w
    BY <1>1, <1>4, <2>1, <2>2, AppendIn, AppendNoRepeat DEF FilePush, PushCompression
  <2>4. file_thread'.work = NULL BY <1>4, AtFields DEF FilePush
  <2>5. QED
    BY <1>2, <1>3, <2>1, <2>3, <2>4 DEF FsInv, Places, Phases, Outstanding, Held, Live, Done
<1>5. CASE CompressionPush
  <2>1. PICK w \in Works : w = compression_thread.work
    BY <1>5, InHand DEF FsInv, CompressionPush
  <2>2. ~In(file_queue, w) BY <2>1 DEF FsInv, Places
  <2>3. /\ NoRepeat(file_queue') /\ UNCHANGED <<compression_queue, file_thread>>
        /\ \A v : In(file_queue', v) <=> In(file_queue, v) \/ v = w
    BY <1>1, <1>5, <2>1, <2>2, AppendIn, AppendNoRepeat DEF CompressionPush, PushFile
  <2>4. compression_thread'.work = NULL BY <1>5, AtFields DEF CompressionPush
  <2>5. QED
    BY <1>2, <1>3, <2>1, <2>3, <2>4 DEF FsInv, Places, Phases, Outstanding, Held, Live, Done
<1>6. QED BY <1>4, <1>5

(* event_signal: the work is done and out of the thread's hands. *)
LEMMA SignalPlaces ==
  ASSUME FsInv, FileSignal \/ CompressionSignal
  PROVE  Places' /\ Phases'
<1>1. /\ UNCHANGED <<file_queue, compression_queue, client>>
      /\ \A w \in Works : Submitting(w)' <=> Submitting(w)
  BY DEF FileSignal, CompressionSignal, queues, Submitting
<1>2. \A w \in Works : w # NULL BY WorksAssumption
<1>3. work \in [Works -> WorkType] BY DEF FsInv, Typed
<1>4. PICK w \in Works :
        /\ work' = [work EXCEPT ![w].done = TRUE]
        /\ \/ /\ w = file_thread.work /\ file_thread'.work = NULL
              /\ compression_thread' = compression_thread
           \/ /\ w = compression_thread.work /\ compression_thread'.work = NULL
              /\ file_thread' = file_thread
  <2>1. CASE FileSignal BY <2>1, InHand, AtFields DEF FsInv, FileSignal
  <2>2. CASE CompressionSignal BY <2>2, InHand, AtFields DEF FsInv, CompressionSignal
  <2>3. QED BY <2>1, <2>2
<1>5. /\ work'[w].done /\ work'[w].phase = work[w].phase
      /\ \A v \in Works : v # w => work'[v] = work[v]
  BY <1>3, <1>4 DEF WorkType
<1>6. work[w].phase = "live"
  BY <1>4 DEF FsInv, Places, Held, Outstanding, Live
<1>7. QED
  BY <1>1, <1>2, <1>4, <1>5, <1>6 DEF FsInv, Places, Phases, Outstanding, Held, Live, Done

(* Steps of a thread on the work in its hands. *)
Inside == \/ FileOpenFails \/ FileCreate \/ FileWrite \/ FileWriteFails
          \/ FileOpen \/ FileRead \/ FileReadFails \/ Decompress \/ Compress

(* What a thread never changes of a work; only event_signal sets done. *)
LEMMA ThreadsKeep ==
  ASSUME work \in [Works -> WorkType], FileThread \/ CompressionThread, NEW w \in Works
  PROVE  /\ work'[w].phase = work[w].phase /\ work'[w].op = work[w].op
         /\ work'[w].path = work[w].path /\ work'[w].heap = work[w].heap
         /\ work'[w].use_compression = work[w].use_compression
         /\ work[w].done => work'[w].done
         /\ Inside => work'[w].done = work[w].done
<1> DEFINE Keeps == /\ work'[w].phase = work[w].phase /\ work'[w].op = work[w].op
                    /\ work'[w].path = work[w].path /\ work'[w].heap = work[w].heap
                    /\ work'[w].use_compression = work[w].use_compression
                    /\ work[w].done => work'[w].done
<1>0. work[w] \in WorkType OBVIOUS
<1>1. ASSUME UNCHANGED work PROVE Keeps /\ work'[w].done = work[w].done BY <1>1
<1>2. ASSUME NEW v, work' = [work EXCEPT ![v].done = TRUE] PROVE Keeps
  BY <1>0, <1>2 DEF WorkType
<1>3. ASSUME NEW v, NEW x, work' = [work EXCEPT ![v].result = x]
      PROVE  Keeps /\ work'[w].done = work[w].done
  BY <1>0, <1>3 DEF WorkType
<1>4. ASSUME NEW v, NEW x, work' = [work EXCEPT ![v].buffer = x]
      PROVE  Keeps /\ work'[w].done = work[w].done
  BY <1>0, <1>4 DEF WorkType
<1>5. ASSUME NEW v, NEW x, NEW y, work' = [work EXCEPT ![v].result = x, ![v].buffer = y]
      PROVE  Keeps /\ work'[w].done = work[w].done
  BY <1>0, <1>5 DEF WorkType
<1> HIDE DEF Keeps
<1>6. ASSUME FilePop \/ FilePush \/ CompressionPop \/ CompressionPush PROVE Keeps
  BY <1>1, <1>6 DEF FilePop, FilePush, CompressionPop, CompressionPush
<1>7. ASSUME FileSignal PROVE Keeps BY <1>2, <1>7 DEF FileSignal
<1>8. ASSUME CompressionSignal PROVE Keeps BY <1>2, <1>8 DEF CompressionSignal
<1>9. ASSUME Inside PROVE Keeps /\ work'[w].done = work[w].done
  <2>1. CASE FileCreate \/ FileWrite \/ FileOpen BY <1>1, <2>1 DEF FileCreate, FileWrite, FileOpen
  <2>2. CASE FileOpenFails BY <1>3, <2>2 DEF FileOpenFails
  <2>3. CASE FileWriteFails BY <1>3, <2>3 DEF FileWriteFails
  <2>4. CASE FileRead BY <1>4, <2>4 DEF FileRead
  <2>5. CASE FileReadFails BY <1>5, <2>5 DEF FileReadFails
  <2>6. CASE Compress BY <1>4, <2>6 DEF Compress
  <2>7. CASE Decompress BY <1>4, <2>7 DEF Decompress
  <2>8. QED BY <1>9, <2>1, <2>2, <2>3, <2>4, <2>5, <2>6, <2>7 DEF Inside
<1>10. Keeps BY <1>6, <1>7, <1>8, <1>9 DEF Inside, FileThread, CompressionThread
<1>11. QED BY <1>9, <1>10 DEF Keeps

(* Steps on the work in hand that keep it there. *)
LEMMA InsidePlaces ==
  ASSUME FsInv, Inside
  PROVE  Places' /\ Phases'
<1>1. work \in [Works -> WorkType] /\ Places /\ Phases BY DEF FsInv, Typed
<1>0. \A w \in Works : work'[w].phase = work[w].phase /\ work'[w].done = work[w].done
  BY <1>1, ThreadsKeep DEF Inside, FileThread, CompressionThread
<1>2. CASE \/ FileOpenFails \/ FileCreate \/ FileWrite \/ FileWriteFails
           \/ FileOpen \/ FileRead \/ FileReadFails
  <2>1. \E from, to : FileGoto(from, to)
    BY <1>2
    DEF FileOpenFails, FileCreate, FileWrite, FileWriteFails, FileOpen, FileRead, FileReadFails
  <2>2. /\ UNCHANGED <<file_queue, compression_queue, compression_thread, client>>
        /\ file_thread'.work = file_thread.work
        /\ \A w \in Works : Submitting(w)' <=> Submitting(w)
    BY <2>1, AtFields DEF FileGoto, queues, Submitting
  <2>3. QED BY <1>0, <1>1, <2>2, StillPlaces
<1>3. CASE Decompress \/ Compress
  <2>1. /\ UNCHANGED <<file_queue, compression_queue, file_thread, client>>
        /\ compression_thread'.work = compression_thread.work
        /\ \A w \in Works : Submitting(w)' <=> Submitting(w)
    <3>1. CASE Decompress BY <3>1, AtFields DEF Decompress, queues, Submitting
    <3>2. CASE Compress BY <3>2, AtFields DEF Compress, queues, Submitting
    <3>3. QED BY <1>3, <3>1, <3>2
  <2>2. QED BY <1>0, <1>1, <2>1, StillPlaces
<1>4. QED BY <1>2, <1>3 DEF Inside

LEMMA StepPlaces == FsInv /\ [Next]_vars => Places' /\ Phases'
<1> SUFFICES ASSUME FsInv, [Next]_vars PROVE Places' /\ Phases' OBVIOUS
<1>1. CASE UNCHANGED vars
  BY <1>1, StillPlaces DEF FsInv, vars, queues, threads, Submitting
<1>2. CASE Next
  BY <1>2, ClientKeepsPlaces, PopPlaces, HandOverPlaces, SignalPlaces, InsidePlaces
  DEF Next, FileThread, CompressionThread, Inside
<1>3. QED BY <1>1, <1>2

-----------------------------------------------------------------------------
(* While fs_destroy runs there is nothing left that a thread could push,   *)
(* so the shutdown conditions can only come to hold in its own order.      *)
LEMMA StepShutdown == FsInv /\ [Next]_vars => Shutdown'
<1> SUFFICES ASSUME FsInv, [Next]_vars PROVE Shutdown' OBVIOUS
<1>1. /\ Shutdown /\ Places
      /\ file_queue \in Queued /\ compression_queue \in Queued
      /\ work \in [Works -> WorkType]
  BY DEF FsInv, Typed, QueuesTyped
<1>2. \A w \in Works : w # NULL BY WorksAssumption
<1>3. CASE UNCHANGED vars \/ Closed
  BY <1>1, <1>3 DEF Closed, vars, queues, threads, Shutdown, Closing, Outstanding, Live, Done
<1>4. CASE Submit
  <2>1. PICK w \in Works, p \in Paths, z \in Modes :
          \/ \E h \in Heaps : FsRead(w, p, z, h)
          \/ FsWrite(w, p, z)
    BY <1>4 DEF Submit
  <2>2. \E op \in {"read", "write"}, h \in Heaps \cup {FsHeap} : Create(w, op, p, z, h)
    BY <2>1 DEF FsRead, FsWrite
  <2>3. client' = At("push file", w) \/ client' = At("push compression", w)
    BY <2>1 DEF FsRead, FsWrite
  <2>4. ~Closing /\ ~Closing'
    <3>1. client.at = "idle" BY <2>2 DEF Create
    <3>2. client'.at = "push file" \/ client'.at = "push compression" BY <2>3, AtFields
    <3>3. QED BY <3>1, <3>2 DEF Closing
  <2>5. QED BY <1>1, <2>2, <2>4 DEF Create, queues, Shutdown
<1>5. CASE \E w \in Works : WorkWait(w) \/ WorkDestroy(w)
  <2>1. PICK w \in Works, place \in {"wait", "destroy"} : Wait(w, place)
    BY <1>5 DEF WorkWait, WorkDestroy
  <2>2. ~Closing /\ ~Closing' BY <2>1, AtFields DEF Wait, Closing
  <2>3. QED BY <1>1, <2>1, <2>2 DEF Wait, queues, Shutdown
<1>6. CASE Waited \/ WorkDestroyed
  <2>1. ~Closing /\ ~Closing'
    <3>1. /\ client.at = "wait" \/ client.at = "destroy"
          /\ client'.at = "idle"
      BY <1>6, AtFields DEF Waited, WorkDestroyed
    <3>2. QED BY <3>1 DEF Closing
  <2>2. QED BY <1>1, <1>6, <2>1 DEF Waited, WorkDestroyed, queues, Shutdown
<1>7. CASE Submitted
  <2>1. PICK w \in Works : w = client.work BY <1>7, InHand DEF FsInv, Submitted
  <2>2. ~Closing /\ ~Closing' BY <1>7, AtFields DEF Submitted, Closing
  <2>3. /\ In(file_queue', NULL) => In(file_queue, NULL)
        /\ In(compression_queue', NULL) => In(compression_queue, NULL)
    <3>1. CASE PushFile(w) BY <1>1, <1>2, <2>1, <3>1, AppendIn DEF PushFile
    <3>2. CASE PushCompression(w)
      BY <1>1, <1>2, <2>1, <3>2, AppendIn DEF PushCompression
    <3>3. QED BY <1>7, <2>1, <3>1, <3>2 DEF Submitted
  <2>4. QED BY <1>1, <1>7, <2>2, <2>3 DEF Submitted, Shutdown
<1>8. CASE FsDestroy
  <2>1. ~Closing /\ Closing' BY <1>8, AtFields DEF FsDestroy, Closing
  <2>2. QED BY <1>1, <1>8, <2>1 DEF FsDestroy, queues, threads, Shutdown, Outstanding, Live, Done
<1>9. CASE Stopping
  <2>1. Closing /\ Closing' /\ UNCHANGED <<work, file_thread, compression_thread>>
    <3>1. CASE StopFileThread BY <3>1, AtFields DEF StopFileThread, Closing, threads
    <3>2. CASE StopCompressionThread
      BY <3>2, AtFields DEF StopCompressionThread, Closing, threads
    <3>3. CASE JoinFileThread BY <3>3, AtFields DEF JoinFileThread, Closing, threads
    <3>4. CASE JoinCompressionThread
      BY <3>4, AtFields DEF JoinCompressionThread, Closing, threads
    <3>5. QED BY <1>9, <3>1, <3>2, <3>3, <3>4 DEF Stopping
  <2>2. /\ "file_queue" \in destroyed' =>
             "file_queue" \in destroyed \/ file_thread.at = "exited"
        /\ "compression_queue" \in destroyed' =>
             "compression_queue" \in destroyed \/ compression_thread.at = "exited"
    BY <1>9
    DEF Stopping, StopFileThread, StopCompressionThread, JoinFileThread, JoinCompressionThread
  <2>3. QED BY <1>1, <2>1, <2>2 DEF Shutdown, Outstanding, Live, Done
<1>10. CASE FileThread \/ CompressionThread
  <2>1. UNCHANGED <<client, destroyed>> /\ (Closing' <=> Closing)
    BY <1>10
    DEF FileThread, FilePop, FilePush, FileSignal, FileOpenFails, FileCreate, FileWrite,
        FileWriteFails, FileOpen, FileRead, FileReadFails, FileGoto,
        CompressionThread, CompressionPop, Decompress, Compress, CompressionPush,
        CompressionSignal, Closing
  <2>2. \A w \in Works : Outstanding(w)' => Outstanding(w)
    <3> SUFFICES ASSUME NEW w \in Works, Outstanding(w)' PROVE Outstanding(w) OBVIOUS
    <3>1. Live(w)' <=> Live(w) BY <1>1, <1>10, ThreadsKeep DEF Live
    <3>2. Done(w) => Done(w)' BY <1>1, <1>10, ThreadsKeep DEF Done
    <3>3. QED BY <3>1, <3>2 DEF Outstanding
  <2>3. /\ In(file_queue', NULL) => In(file_queue, NULL)
        /\ In(compression_queue', NULL) => In(compression_queue, NULL)
    <3>1. NoRepeat(file_queue) /\ NoRepeat(compression_queue) BY <1>1 DEF Places
    <3>2. CASE FilePop BY <1>1, <3>1, <3>2, TailIn DEF FilePop
    <3>3. CASE CompressionPop BY <1>1, <3>1, <3>3, TailIn DEF CompressionPop
    <3>4. CASE FilePush
      BY <1>1, <1>2, <3>4, InHand, AppendIn DEF FsInv, FilePush, PushCompression
    <3>5. CASE CompressionPush
      BY <1>1, <1>2, <3>5, InHand, AppendIn DEF FsInv, CompressionPush, PushFile
    <3>6. CASE ~(FilePop \/ CompressionPop \/ FilePush \/ CompressionPush)
      BY <1>10, <3>6
      DEF FileThread, FileSignal, FileOpenFails, FileCreate, FileWrite,
          FileWriteFails, FileOpen, FileRead, FileReadFails, FileGoto,
          CompressionThread, Decompress, Compress, CompressionSignal, queues
    <3>7. QED BY <3>2, <3>3, <3>4, <3>5, <3>6
  <2>4. /\ file_thread.at = "exited" => file_thread'.at = "exited"
        /\ compression_thread.at = "exited" => compression_thread'.at = "exited"
    BY <1>10
    DEF FileThread, FilePop, FilePush, FileSignal, FileOpenFails, FileCreate, FileWrite,
        FileWriteFails, FileOpen, FileRead, FileReadFails, FileGoto,
        CompressionThread, CompressionPop, Decompress, Compress, CompressionPush,
        CompressionSignal
  <2>5. QED BY <1>1, <2>1, <2>2, <2>3, <2>4 DEF Shutdown
<1>11. QED
  BY <1>3, <1>4, <1>5, <1>6, <1>7, <1>8, <1>9, <1>10 DEF Next, Client, Returning

LEMMA FsInvHolds == Spec => []FsInv
<1>1. FsInv /\ [Next]_vars => FsInv' BY StepTyped, StepPlaces, StepShutdown DEF FsInv
<1>2. QED BY <1>1, InitFsInv, PTL DEF Spec

(* fs.c signals a work as its last access to it: whatever the client sees  *)
(* as done no thread touches again.                                        *)
THEOREM DoneWorkIsFinal == Spec => []DoneIsFinal
BY FsInvHolds, FsInvDone, PTL

(* fs_destroy destroys a queue only when nobody waits on it or pushes into *)
(* it any more.                                                            *)
THEOREM QueuesSafelyDestroyed == Spec => []QueuesOutliveUsers
BY FsInvHolds, FsInvQueues, PTL

-----------------------------------------------------------------------------
(* The jam needs both queues full of works and one more in either hand.    *)
LEMMA JamNeeds ==
  ASSUME FsInv, ~NoCircularWait
  PROVE  Cardinality({w \in Works : Outstanding(w)}) >= 2 * Capacity + 2
<1> DEFINE held == {w \in Works : Outstanding(w)}
           n == 2 * Capacity + 2
           f == [i \in 1 .. n |->
                  IF i <= Capacity THEN file_queue[i]
                  ELSE IF i <= 2 * Capacity THEN compression_queue[i - Capacity]
                  ELSE IF i = 2 * Capacity + 1 THEN file_thread.work
                  ELSE compression_thread.work]
<1>1. Capacity \in Nat /\ n \in Nat BY CapacityAssumption
<1>2. /\ Len(file_queue) = Capacity /\ Len(compression_queue) = Capacity
      /\ file_queue \in Queued /\ compression_queue \in Queued
      /\ DOMAIN file_queue = 1 .. Capacity /\ DOMAIN compression_queue = 1 .. Capacity
  BY DEF NoCircularWait, FsInv, Typed, QueuesTyped, Queued
<1>3. file_thread.work \in Works /\ compression_thread.work \in Works
  BY InHand DEF NoCircularWait, FsInv
<1>4. ~Closing
  BY <1>3 DEF FsInv, Places, Held, Outstanding, Shutdown
<1>5. ~In(file_queue, NULL) /\ ~In(compression_queue, NULL)
  BY <1>4 DEF FsInv, Shutdown
<1>6. \A i \in 1 .. Capacity : /\ file_queue[i] \in Works /\ In(file_queue, file_queue[i])
                               /\ compression_queue[i] \in Works
                               /\ In(compression_queue, compression_queue[i])
  <2>1. \A i \in 1 .. Capacity : /\ file_queue[i] \in Works \cup {NULL}
                                 /\ compression_queue[i] \in Works \cup {NULL}
    BY <1>2 DEF Queued
  <2>2. QED BY <1>2, <1>5, <2>1 DEF In
<1>7. \A i \in 1 .. n :
        \/ i \in 1 .. Capacity /\ f[i] = file_queue[i]
        \/ /\ i - Capacity \in 1 .. Capacity /\ ~(i \in 1 .. Capacity)
           /\ f[i] = compression_queue[i - Capacity]
        \/ i = 2 * Capacity + 1 /\ f[i] = file_thread.work
        \/ i = 2 * Capacity + 2 /\ f[i] = compression_thread.work
  BY <1>1
<1>8. ASSUME NEW i \in 1 .. n PROVE f[i] \in held
  <2>1. f[i] \in Works /\ Held(f[i])
    <3>1. CASE i \in 1 .. Capacity /\ f[i] = file_queue[i]
      BY <1>6, <3>1 DEF Held
    <3>2. CASE i - Capacity \in 1 .. Capacity /\ f[i] = compression_queue[i - Capacity]
      BY <1>6, <3>2 DEF Held
    <3>3. CASE f[i] = file_thread.work \/ f[i] = compression_thread.work
      BY <1>3, <3>3 DEF Held
    <3>4. QED BY <1>7, <1>8, <3>1, <3>2, <3>3
  <2>2. QED BY <2>1 DEF FsInv, Places
<1>9. ASSUME NEW i \in 1 .. n, NEW j \in 1 .. n, f[i] = f[j] PROVE i = j
  <2> HIDE DEF f
  <2>1. NoRepeat(file_queue) /\ NoRepeat(compression_queue) BY DEF FsInv, Places
  <2>2. \A k, l \in 1 .. Capacity : /\ file_queue[k] = file_queue[l] => k = l
                                    /\ compression_queue[k] = compression_queue[l] => k = l
    BY <1>2, <1>6, <2>1, WorksAssumption DEF NoRepeat
  <2>3. \A k, l \in 1 .. Capacity : file_queue[k] # compression_queue[l]
    BY <1>6 DEF FsInv, Places
  <2>4. \A k \in 1 .. Capacity :
          /\ file_queue[k] # file_thread.work /\ file_queue[k] # compression_thread.work
          /\ compression_queue[k] # file_thread.work
          /\ compression_queue[k] # compression_thread.work
    BY <1>6 DEF FsInv, Places
  <2>5. file_thread.work # compression_thread.work BY <1>3 DEF FsInv, Places
  <2>6. CASE i \in 1 .. Capacity /\ f[i] = file_queue[i]
    BY <1>1, <1>7, <1>9, <2>2, <2>3, <2>4, <2>6
  <2>7. CASE /\ i - Capacity \in 1 .. Capacity /\ ~(i \in 1 .. Capacity)
             /\ f[i] = compression_queue[i - Capacity]
    <3>1. CASE j \in 1 .. Capacity /\ f[j] = file_queue[j]
      BY <1>9, <2>3, <2>7, <3>1
    <3>2. CASE /\ j - Capacity \in 1 .. Capacity /\ ~(j \in 1 .. Capacity)
               /\ f[j] = compression_queue[j - Capacity]
      <4>1. i - Capacity = j - Capacity BY <1>9, <2>2, <2>7, <3>2
      <4>2. QED BY <1>1, <4>1
    <3>3. CASE f[j] = file_thread.work \/ f[j] = compression_thread.work
      BY <1>9, <2>4, <2>7, <3>3
    <3>4. QED BY <1>7, <1>9, <3>1, <3>2, <3>3
  <2>8. CASE i = 2 * Capacity + 1 /\ f[i] = file_thread.work
    BY <1>1, <1>7, <1>9, <2>4, <2>5, <2>8
  <2>9. CASE i = 2 * Capacity + 2 /\ f[i] = compression_thread.work
    BY <1>1, <1>7, <1>9, <2>4, <2>5, <2>9
  <2>10. QED BY <1>7, <1>9, <2>6, <2>7, <2>8, <2>9
<1>10. f \in Injection(1 .. n, held)
  <2>1. f \in [1 .. n -> held] BY <1>8
  <2>2. QED BY <1>9, <2>1 DEF Injection, IsInjective
<1>11. IsFiniteSet(held) BY FS_Subset, WorksAssumption
<1>12. Cardinality(1 .. n) = n
  <2> HIDE DEF n
  <2>1. 1 \in Int /\ n \in Int BY <1>1
  <2>2. Cardinality(1 .. n) = IF 1 > n THEN 0 ELSE n - 1 + 1 BY <2>1, FS_Interval
  <2>3. n >= 1 BY <1>1 DEF n
  <2>4. QED BY <1>1, <2>2, <2>3
<1>13. Cardinality(1 .. n) <= Cardinality(held)
  <2> HIDE DEF n, f, held
  <2>1. QED BY <1>10, <1>11, FS_Injection
<1>14. QED
  <2>1. Cardinality(held) \in Nat BY <1>11, FS_CardinalityType
  <2>2. QED BY <1>1, <1>12, <1>13, <2>1

(* While at most 2 * Capacity + 1 works are outstanding the file thread    *)
(* and the compression thread never wait for room in each other's queue    *)
(* at once (fs.c:229 and fs.c:284).  With one more they can: the run       *)
(* fs_circular_wait shows it, so the bound is exact.                       *)
THEOREM FewWorksNeverJam ==
  Spec => [](Cardinality({w \in Works : Outstanding(w)}) <= 2 * Capacity + 1
               => NoCircularWait)
<1>1. FsInv => (Cardinality({w \in Works : Outstanding(w)}) <= 2 * Capacity + 1
                  => NoCircularWait)
  <2>1. IsFiniteSet({w \in Works : Outstanding(w)}) BY FS_Subset, WorksAssumption
  <2>2. Cardinality({w \in Works : Outstanding(w)}) \in Nat BY <2>1, FS_CardinalityType
  <2>3. Capacity \in Nat BY CapacityAssumption
  <2>4. QED BY <2>2, <2>3, JamNeeds
<1>2. QED BY <1>1, FsInvHolds, PTL

-----------------------------------------------------------------------------
(* Order.  v stands ahead of w in a queue, or in the order of submission.  *)
Ahead(q, v, w) == \E i, j \in DOMAIN q : i < j /\ q[i] = v /\ q[j] = w

LEMMA AheadIn == ASSUME NEW q, NEW v, NEW w, Ahead(q, v, w) PROVE In(q, v) /\ In(q, w)
BY DEF Ahead, In

LEMMA AheadAppend ==
  ASSUME NEW q \in Queued, NEW x \in Works \cup {NULL}
  PROVE  \A v, w : Ahead(Append(q, x), v, w) <=> Ahead(q, v, w) \/ (In(q, v) /\ w = x)
<1>1. /\ DOMAIN q = 1 .. Len(q) /\ DOMAIN Append(q, x) = 1 .. Len(q) + 1
      /\ Len(q) \in Nat
      /\ \A i \in 1 .. Len(q) : Append(q, x)[i] = q[i]
      /\ Append(q, x)[Len(q) + 1] = x
  BY DEF Queued
<1>2. SUFFICES ASSUME NEW v, NEW w
               PROVE  Ahead(Append(q, x), v, w) <=> Ahead(q, v, w) \/ (In(q, v) /\ w = x)
  OBVIOUS
<1>3. ASSUME Ahead(Append(q, x), v, w) PROVE Ahead(q, v, w) \/ (In(q, v) /\ w = x)
  <2>1. PICK i, j \in 1 .. Len(q) + 1 :
          i < j /\ Append(q, x)[i] = v /\ Append(q, x)[j] = w
    BY <1>1, <1>3 DEF Ahead
  <2>2. i \in 1 .. Len(q) /\ (j \in 1 .. Len(q) \/ j = Len(q) + 1) BY <1>1, <2>1
  <2>3. QED BY <1>1, <2>1, <2>2 DEF Ahead, In
<1>4. ASSUME Ahead(q, v, w) PROVE Ahead(Append(q, x), v, w)
  <2>1. PICK i, j \in 1 .. Len(q) : i < j /\ q[i] = v /\ q[j] = w BY <1>1, <1>4 DEF Ahead
  <2>2. i \in 1 .. Len(q) + 1 /\ j \in 1 .. Len(q) + 1 BY <1>1
  <2>3. QED BY <1>1, <2>1, <2>2 DEF Ahead
<1>5. ASSUME In(q, v), w = x PROVE Ahead(Append(q, x), v, w)
  <2>1. PICK i \in 1 .. Len(q) : q[i] = v BY <1>1, <1>5 DEF In
  <2>2. i \in 1 .. Len(q) + 1 /\ Len(q) + 1 \in 1 .. Len(q) + 1 /\ i < Len(q) + 1 BY <1>1
  <2>3. QED BY <1>1, <1>5, <2>1, <2>2 DEF Ahead
<1>6. QED BY <1>3, <1>4, <1>5

LEMMA AheadTail ==
  ASSUME NEW q \in Queued, NoRepeat(q), q # <<>>
  PROVE  \A v, w \in Works : Ahead(q, v, w) =>
           /\ w # Head(q)
           /\ v # Head(q) => Ahead(Tail(q), v, w)
<1>1. /\ Len(q) \in Nat /\ Len(q) >= 1
      /\ DOMAIN q = 1 .. Len(q) /\ DOMAIN Tail(q) = 1 .. Len(q) - 1
      /\ \A i \in 1 .. Len(q) - 1 : Tail(q)[i] = q[i + 1]
      /\ Head(q) = q[1]
  BY DEF Queued
<1>2. SUFFICES ASSUME NEW v \in Works, NEW w \in Works, Ahead(q, v, w)
               PROVE  w # Head(q) /\ (v # Head(q) => Ahead(Tail(q), v, w))
  OBVIOUS
<1>3. PICK i, j \in 1 .. Len(q) : i < j /\ q[i] = v /\ q[j] = w BY <1>1, <1>2 DEF Ahead
<1>4. 1 \in 1 .. Len(q) /\ j # 1 BY <1>1, <1>3
<1>5. w # Head(q) BY <1>1, <1>3, <1>4, WorksAssumption DEF NoRepeat
<1>6. ASSUME v # Head(q) PROVE Ahead(Tail(q), v, w)
  <2>1. i # 1 BY <1>1, <1>3, <1>6
  <2>2. /\ i - 1 \in 1 .. Len(q) - 1 /\ j - 1 \in 1 .. Len(q) - 1 /\ i - 1 < j - 1
        /\ (i - 1) + 1 = i /\ (j - 1) + 1 = j
    BY <1>1, <1>3, <1>4, <2>1
  <2>3. Tail(q)[i - 1] = v /\ Tail(q)[j - 1] = w BY <1>1, <1>3, <2>2
  <2>4. QED BY <1>1, <2>2, <2>3 DEF Ahead
<1>7. QED BY <1>5, <1>6

(* A plain work goes nowhere near the compression thread.                  *)
PlainPlaces == \A w \in Works : Plain(w) =>
  /\ ~In(compression_queue, w) /\ compression_thread.work # w
  /\ ~(file_thread.at = "push" /\ file_thread.work = w)
  /\ ~(client.at = "push compression" /\ client.work = w)

(* Of two plain works the earlier, while not done, is ahead in file_queue  *)
(* or in the hands of the file thread, and the later is neither there nor  *)
(* done.                                                                   *)
PlainOrder == \A v, w \in Works :
  Plain(v) /\ Plain(w) /\ Ahead(order, v, w) /\ ~Done(v) =>
    /\ ~Done(w) /\ ~Submitting(v) /\ file_thread.work # w
    /\ In(file_queue, v) /\ In(file_queue, w) => Ahead(file_queue, v, w)

Created == \A w \in Works : In(order, w) <=> work[w].phase # "none"

OrderInv == Created /\ PlainPlaces /\ PlainOrder

LEMMA InitOrder == Init => OrderInv
<1> SUFFICES ASSUME Init PROVE OrderInv OBVIOUS
<1>1. order = <<>> /\ compression_queue = <<>> BY DEF Init
<1>2. (\A w : ~In(<<>>, w)) /\ (\A v, w : ~Ahead(<<>>, v, w)) BY DEF In, Ahead
<1>3. \A w \in Works : w # NULL /\ work[w].phase = "none"
  BY WorksAssumption DEF Init
<1>4. /\ compression_thread.work = NULL /\ file_thread.work = NULL /\ client.work = NULL
  BY DEF Init, At
<1>5. QED BY <1>1, <1>2, <1>3, <1>4 DEF OrderInv, Created, PlainPlaces, PlainOrder

LEMMA OrderImpliesPlainInOrder == OrderInv => PlainInOrder
BY DEF OrderInv, PlainOrder, PlainInOrder, Before, Ahead

(* Where an unfinished plain work with a later one can be. *)
LEMMA WaitsInFileQueue ==
  ASSUME FsInv, OrderInv, NEW v \in Works, NEW w \in Works,
         Plain(v), Plain(w), Ahead(order, v, w), ~Done(v)
  PROVE  In(file_queue, v) \/ file_thread.work = v
<1>1. In(order, v) BY AheadIn
<1>2. work[v].phase # "none" /\ work[v].phase # "freed"
  BY <1>1 DEF OrderInv, Created, FsInv, Phases
<1>3. work[v] \in WorkType BY DEF FsInv, Typed
<1>4. Outstanding(v) BY <1>2, <1>3 DEF Outstanding, Live, WorkType
<1>5. Held(v) BY <1>4 DEF FsInv, Places
<1>6. QED BY <1>5 DEF Held, OrderInv, PlainPlaces, PlainOrder

(* Steps that move no work and signal none. *)
LEMMA StillOrder ==
  ASSUME OrderInv, UNCHANGED <<file_queue, compression_queue, order>>,
         file_thread'.work = file_thread.work,
         compression_thread'.work = compression_thread.work,
         \A w \in Works : Submitting(w)' => Submitting(w),
         client'.at = "push compression" => client' = client,
         file_thread'.at = "push" =>
           file_thread' = file_thread \/ ~Plain(file_thread.work),
         \A w \in Works : /\ work'[w].phase # "none" <=> work[w].phase # "none"
                          /\ work'[w].done = work[w].done
                          /\ work'[w].use_compression = work[w].use_compression
  PROVE  OrderInv'
<1>1. Created' BY DEF OrderInv, Created
<1>2. \A w \in Works : (Plain(w)' <=> Plain(w)) /\ (Done(w)' <=> Done(w)) BY DEF Plain, Done
<1>3. PlainPlaces' BY <1>2 DEF OrderInv, PlainPlaces
<1>4. PlainOrder' BY <1>2 DEF OrderInv, PlainOrder
<1>5. QED BY <1>1, <1>3, <1>4 DEF OrderInv

LEMMA SubmitOrder ==
  ASSUME FsInv, OrderInv, Submit
  PROVE  OrderInv'
<1>1. PICK w \in Works, p \in Paths, z \in Modes :
        \/ \E h \in Heaps : FsRead(w, p, z, h)
        \/ FsWrite(w, p, z)
  BY DEF Submit
<1>2. \E op \in {"read", "write"}, h \in Heaps \cup {FsHeap} : Create(w, op, p, z, h)
  BY <1>1 DEF FsRead, FsWrite
<1>3. /\ client'.work = w
      /\ client'.at = "push file" \/ client'.at = "push compression"
      /\ client'.at = "push compression" => z
  <2>1. \/ client' = At("push file", w)
        \/ client' = At("push compression", w) /\ z
    BY <1>1 DEF FsRead, FsWrite
  <2>2. CASE client' = At("push file", w)
    <3>1. client'.work = w /\ client'.at = "push file" BY <2>2, AtFields
    <3>2. QED BY <3>1
  <2>3. CASE client' = At("push compression", w) /\ z
    <3>1. client'.work = w /\ client'.at = "push compression" BY <2>3, AtFields
    <3>2. QED BY <2>3, <3>1
  <2>4. QED BY <2>1, <2>2, <2>3
<1>4. work \in [Works -> WorkType] BY DEF FsInv, Typed
<1>5. /\ UNCHANGED <<file_queue, compression_queue, file_thread, compression_thread>>
      /\ client.at = "idle" /\ work[w].phase = "none"
      /\ work'[w].phase = "live" /\ ~work'[w].done /\ work'[w].use_compression = z
      /\ \A v \in Works : v # w => work'[v] = work[v]
      /\ order' = Append(order, w)
  BY <1>2, <1>4 DEF Create, queues, threads
<1>6. /\ \A v : In(order', v) <=> In(order, v) \/ v = w
      /\ \A u, v : Ahead(order', u, v) <=> Ahead(order, u, v) \/ (In(order, u) /\ v = w)
  <2>1. order \in Queued BY DEF FsInv, Typed, RestTyped, Queued
  <2>2. QED BY <1>5, <2>1, AppendIn, AheadAppend
<1>7. ~Held(w) /\ ~In(order, w)
  BY <1>5 DEF FsInv, Places, Outstanding, Live, OrderInv, Created
<1>8. Created' BY <1>5, <1>6 DEF OrderInv, Created
<1>9. PlainPlaces'
  BY <1>3, <1>5, <1>7 DEF OrderInv, PlainPlaces, Plain, Held
<1>10. PlainOrder'
  <2>1. SUFFICES ASSUME NEW u \in Works, NEW v \in Works,
                        Plain(u)', Plain(v)', Ahead(order', u, v), ~Done(u)'
                 PROVE  /\ ~Done(v)' /\ ~Submitting(u)' /\ file_thread'.work # v
                        /\ In(file_queue', u) /\ In(file_queue', v) => Ahead(file_queue', u, v)
    BY DEF PlainOrder
  <2>2. u # w
    <3>1. \A x : ~Ahead(order, w, x) BY <1>7, AheadIn
    <3>2. QED BY <1>6, <1>7, <2>1, <3>1
  <2>3. Plain(u) /\ ~Done(u) /\ ~Submitting(u)'
    BY <1>3, <1>5, <2>1, <2>2 DEF Plain, Done, Submitting
  <2>4. CASE v = w
    BY <1>5, <1>7, <2>3, <2>4 DEF Done, Held
  <2>5. CASE v # w
    <3>1. Ahead(order, u, v) /\ Plain(v) /\ (Done(v)' <=> Done(v))
      BY <1>5, <1>6, <2>1, <2>5 DEF Plain, Done
    <3>2. QED BY <1>5, <2>3, <3>1 DEF OrderInv, PlainOrder
  <2>6. QED BY <2>4, <2>5
<1>11. QED BY <1>8, <1>9, <1>10 DEF OrderInv

(* A push into file_queue puts a work behind all that are in it. *)
LEMMA PushFileOrder ==
  ASSUME FsInv, OrderInv, NEW x \in Works, PushFile(x),
         \A v \in Works : Plain(x) /\ Plain(v) /\ Ahead(order, x, v) => Done(x),
         UNCHANGED <<file_thread, work, order>>,
         compression_thread'.work = compression_thread.work
           \/ compression_thread'.work = NULL,
         client' = client \/ client'.at = "idle"
  PROVE  OrderInv'
<1>1. /\ \A v : In(file_queue', v) <=> In(file_queue, v) \/ v = x
      /\ \A u, v : Ahead(file_queue', u, v) <=>
                     Ahead(file_queue, u, v) \/ (In(file_queue, u) /\ v = x)
  BY AppendIn, AheadAppend DEF PushFile, FsInv, Typed, QueuesTyped
<1>2. \A w \in Works : /\ (Plain(w)' <=> Plain(w)) /\ (Done(w)' <=> Done(w))
                       /\ Submitting(w)' => Submitting(w)
  BY DEF Plain, Done, Submitting
<1>3. Created' BY DEF OrderInv, Created
<1>4. PlainPlaces' BY <1>2, WorksAssumption DEF OrderInv, PlainPlaces, PushFile
<1>5. PlainOrder' BY <1>1, <1>2 DEF OrderInv, PlainOrder
<1>6. QED BY <1>3, <1>4, <1>5 DEF OrderInv

(* A push into compression_queue concerns no plain work. *)
LEMMA PushCompressionOrder ==
  ASSUME FsInv, OrderInv, NEW x \in Works, PushCompression(x), ~Plain(x),
         UNCHANGED <<compression_thread, work, order>>,
         file_thread' = file_thread \/ file_thread' = At("pop", NULL),
         client' = client \/ client'.at = "idle"
  PROVE  OrderInv'
<1>1. \A v : In(compression_queue', v) <=> In(compression_queue, v) \/ v = x
  BY AppendIn DEF PushCompression, FsInv, Typed, QueuesTyped
<1>2. \A w \in Works : /\ (Plain(w)' <=> Plain(w)) /\ (Done(w)' <=> Done(w))
                       /\ Submitting(w)' => Submitting(w)
  BY DEF Plain, Done, Submitting
<1>3. Created' BY DEF OrderInv, Created
<1>4. /\ file_thread'.work = file_thread.work \/ file_thread'.work = NULL
      /\ file_thread'.at = "push" => file_thread' = file_thread
  BY AtFields
<1>5. PlainPlaces' BY <1>1, <1>2, <1>4 DEF OrderInv, PlainPlaces
<1>6. PlainOrder' BY <1>2, <1>4, WorksAssumption DEF OrderInv, PlainOrder, PushCompression
<1>7. QED BY <1>3, <1>5, <1>6 DEF OrderInv

LEMMA PopOrder ==
  ASSUME FsInv, OrderInv, FilePop \/ CompressionPop
  PROVE  OrderInv'
<1>1. /\ file_queue \in Queued /\ compression_queue \in Queued
      /\ NoRepeat(file_queue) /\ NoRepeat(compression_queue)
  BY DEF FsInv, Typed, QueuesTyped, Places
<1>2. \A w \in Works : w # NULL BY WorksAssumption
<1>3. /\ UNCHANGED <<client, work, order>>
      /\ \A w \in Works : /\ (Plain(w)' <=> Plain(w)) /\ (Done(w)' <=> Done(w))
                          /\ Submitting(w)' <=> Submitting(w)
  BY DEF FilePop, CompressionPop, history, Plain, Done, Submitting
<1>4. Created' BY <1>3 DEF OrderInv, Created
<1>5. CASE FilePop
  <2>1. /\ \A w \in Works : In(file_queue', w) <=> In(file_queue, w) /\ w # Head(file_queue)
        /\ \A v, w \in Works : Ahead(file_queue, v, w) =>
             /\ w # Head(file_queue)
             /\ v # Head(file_queue) => Ahead(file_queue', v, w)
        /\ In(file_queue, Head(file_queue))
    BY <1>1, <1>2, <1>5, TailIn, AheadTail DEF FilePop
  <2>2. /\ file_thread.work = NULL
        /\ file_thread'.work = NULL \/ file_thread'.work = Head(file_queue)
        /\ file_thread'.at # "push"
        /\ UNCHANGED <<compression_queue, compression_thread>>
    <3>1. \/ file_thread' = At("exited", NULL)
          \/ file_thread' = At("open", Head(file_queue))
      BY <1>5 DEF FilePop
    <3>2. /\ file_thread'.work = NULL \/ file_thread'.work = Head(file_queue)
          /\ file_thread'.at # "push"
      BY <3>1, AtFields
    <3>3. QED BY <1>5, <3>2 DEF FilePop, FsInv, Typed, Hands
  <2>3. PlainPlaces' BY <1>3, <2>2 DEF OrderInv, PlainPlaces
  <2>4. ASSUME NEW v \in Works, NEW w \in Works,
               Plain(v), Plain(w), Ahead(order, v, w), ~Done(v)
        PROVE  file_thread'.work # w
    <3>1. In(file_queue, v) BY <1>2, <2>2, <2>4, WaitsInFileQueue
    <3>2. QED BY <1>2, <2>1, <2>2, <2>4, <3>1 DEF OrderInv, PlainOrder
  <2>5. PlainOrder' BY <1>3, <2>1, <2>4 DEF OrderInv, PlainOrder
  <2>6. QED BY <1>4, <2>3, <2>5 DEF OrderInv
<1>6. CASE CompressionPop
  <2>1. /\ In(compression_queue, Head(compression_queue))
        /\ \A w \in Works : In(compression_queue', w) => In(compression_queue, w)
    BY <1>1, <1>2, <1>6, TailIn DEF CompressionPop
  <2>2. /\ \/ compression_thread'.work = NULL
           \/ compression_thread'.work = Head(compression_queue)
        /\ UNCHANGED <<file_queue, file_thread>>
    BY <1>6, AtFields DEF CompressionPop
  <2>3. PlainPlaces' BY <1>2, <1>3, <2>1, <2>2 DEF OrderInv, PlainPlaces
  <2>4. PlainOrder' BY <1>3, <2>2 DEF OrderInv, PlainOrder
  <2>5. QED BY <1>4, <2>3, <2>4 DEF OrderInv
<1>7. QED BY <1>5, <1>6

(* The file thread signals the work in its hands, which no earlier plain   *)
(* work is waiting behind; the compression thread signals no plain work.   *)
LEMMA SignalOrder ==
  ASSUME FsInv, OrderInv, FileSignal \/ CompressionSignal
  PROVE  OrderInv'
<1>1. work \in [Works -> WorkType] BY DEF FsInv, Typed
<1>2. UNCHANGED <<file_queue, compression_queue, client, order>>
  BY DEF FileSignal, CompressionSignal, queues, history
<1>3. PICK x \in Works :
        /\ work' = [work EXCEPT ![x].done = TRUE]
        /\ \/ /\ x = file_thread.work
              /\ compression_thread' = compression_thread
           \/ /\ x = compression_thread.work
              /\ file_thread' = file_thread
        /\ file_thread' = file_thread \/ (file_thread'.work = NULL /\ file_thread'.at = "pop")
        /\ compression_thread' = compression_thread \/ compression_thread'.work = NULL
  <2>1. CASE FileSignal
    <3>1. file_thread.work \in Works /\ file_thread' = At("pop", NULL)
      BY <2>1, InHand DEF FsInv, FileSignal
    <3>2. file_thread'.work = NULL /\ file_thread'.at = "pop" BY <3>1, AtFields
    <3>3. QED BY <2>1, <3>1, <3>2 DEF FileSignal
  <2>2. CASE CompressionSignal BY <2>2, InHand, AtFields DEF FsInv, CompressionSignal
  <2>3. QED BY <2>1, <2>2
<1>4. /\ work'[x].done
      /\ \A w \in Works : /\ work'[w].phase = work[w].phase
                          /\ work'[w].use_compression = work[w].use_compression
                          /\ w # x => work'[w].done = work[w].done
  BY <1>1, <1>3 DEF WorkType
<1>5. Created' BY <1>2, <1>4 DEF OrderInv, Created
<1>6. \A w \in Works : /\ (Plain(w)' <=> Plain(w)) /\ (Submitting(w)' <=> Submitting(w))
                       /\ ~Done(w)' => ~Done(w)
                       /\ w # x => (Done(w)' <=> Done(w))
  BY <1>2, <1>4 DEF Plain, Submitting, Done
<1>7. PlainPlaces' BY <1>2, <1>3, <1>6, WorksAssumption DEF OrderInv, PlainPlaces
<1>8. PlainOrder'
  <2>1. SUFFICES ASSUME NEW v \in Works, NEW w \in Works,
                        Plain(v), Plain(w), Ahead(order, v, w), ~Done(v)
                 PROVE  w # x
    BY <1>2, <1>3, <1>6, WorksAssumption DEF OrderInv, PlainOrder
  <2>2. QED BY <1>3, <2>1 DEF OrderInv, PlainPlaces, PlainOrder
<1>9. QED BY <1>5, <1>7, <1>8 DEF OrderInv

(* Steps on the work in hand: only a compressed read is taken to the push. *)
LEMMA InsideOrder ==
  ASSUME FsInv, OrderInv,
         \/ FileOpenFails \/ FileCreate \/ FileWrite \/ FileWriteFails
         \/ FileOpen \/ FileRead \/ FileReadFails \/ Decompress \/ Compress
  PROVE  OrderInv'
<1>1. work \in [Works -> WorkType] BY DEF FsInv, Typed
<1>2. CASE \/ FileOpenFails \/ FileCreate \/ FileWrite \/ FileWriteFails
           \/ FileOpen \/ FileRead \/ FileReadFails
  <2>1. \E from, to : FileGoto(from, to) /\ (to = "push" => ~Plain(file_thread.work))
    <3>1. CASE FileRead BY <3>1 DEF FileRead, Plain
    <3>2. CASE FileOpenFails \/ FileCreate \/ FileWrite \/ FileWriteFails
      BY <3>2 DEF FileOpenFails, FileCreate, FileWrite, FileWriteFails
    <3>3. CASE FileOpen \/ FileReadFails BY <3>3 DEF FileOpen, FileReadFails
    <3>4. QED BY <1>2, <3>1, <3>2, <3>3
  <2>2. /\ UNCHANGED <<file_queue, compression_queue, compression_thread, client, order>>
        /\ file_thread'.work = file_thread.work
        /\ file_thread'.at = "push" => ~Plain(file_thread.work)
        /\ \A w \in Works : Submitting(w)' => Submitting(w)
    <3>1. PICK to : /\ file_thread' = At(to, file_thread.work)
                    /\ to = "push" => ~Plain(file_thread.work)
      BY <2>1 DEF FileGoto
    <3>2. file_thread'.work = file_thread.work /\ file_thread'.at = to
      BY <3>1, AtFields
    <3>3. QED BY <2>1, <3>1, <3>2 DEF FileGoto, queues, history, Submitting
  <2>3. \A w \in Works : /\ work'[w].phase = work[w].phase /\ work'[w].done = work[w].done
                         /\ work'[w].use_compression = work[w].use_compression
    BY <1>1, ThreadsKeep DEF Inside, FileThread, CompressionThread
  <2>4. QED BY <2>2, <2>3, StillOrder
<1>3. CASE Decompress \/ Compress
  <2>1. /\ UNCHANGED <<file_queue, compression_queue, file_thread, client, order>>
        /\ compression_thread'.work = compression_thread.work
        /\ \A w \in Works : Submitting(w)' => Submitting(w)
    <3>1. CASE Decompress BY <3>1, AtFields DEF Decompress, queues, history, Submitting
    <3>2. CASE Compress BY <3>2, AtFields DEF Compress, queues, history, Submitting
    <3>3. QED BY <1>3, <3>1, <3>2
  <2>2. \A w \in Works : /\ work'[w].phase = work[w].phase /\ work'[w].done = work[w].done
                         /\ work'[w].use_compression = work[w].use_compression
    BY <1>1, <1>3 DEF Decompress, Compress, WorkType
  <2>3. QED BY <2>1, <2>2, StillOrder
<1>4. QED BY <1>2, <1>3

(* The pushes of the client and of the two threads. *)
LEMMA PushOrder ==
  ASSUME FsInv, OrderInv, Submitted \/ FilePush \/ CompressionPush
  PROVE  OrderInv'
<1>1. CASE Submitted
  <2>1. PICK x \in Works : x = client.work BY <1>1, InHand DEF FsInv, Submitted
  <2>2. /\ UNCHANGED <<file_thread, compression_thread, work, order>> /\ client'.at = "idle"
    BY <1>1, AtFields DEF Submitted, threads, history
  <2>3. CASE client.at = "push file" /\ PushFile(x)
    <3>1. \A v \in Works : Plain(x) /\ Plain(v) /\ Ahead(order, x, v) => Done(x)
      BY <2>1, <2>3 DEF OrderInv, PlainOrder, Submitting
    <3>2. QED BY <2>2, <2>3, <3>1, PushFileOrder
  <2>4. CASE client.at = "push compression" /\ PushCompression(x)
    <3>1. ~Plain(x) BY <2>1, <2>4 DEF OrderInv, PlainPlaces
    <3>2. QED BY <2>2, <2>4, <3>1, PushCompressionOrder
  <2>5. QED BY <1>1, <2>1, <2>3, <2>4 DEF Submitted
<1>2. CASE FilePush
  <2>1. PICK x \in Works : x = file_thread.work BY <1>2, InHand DEF FsInv, FilePush
  <2>2. ~Plain(x) BY <1>2, <2>1 DEF OrderInv, PlainPlaces, FilePush
  <2>3. QED BY <1>2, <2>1, <2>2, PushCompressionOrder DEF FilePush, history
<1>3. CASE CompressionPush
  <2>1. PICK x \in Works : x = compression_thread.work
    BY <1>3, InHand DEF FsInv, CompressionPush
  <2>2. ~Plain(x) BY <2>1 DEF OrderInv, PlainPlaces
  <2>3. QED BY <1>3, <2>1, <2>2, AtFields, PushFileOrder DEF CompressionPush, history
<1>4. QED BY <1>1, <1>2, <1>3

(* The other steps of the client. *)
LEMMA ClientOrder ==
  ASSUME FsInv, OrderInv,
         \/ \E w \in Works : WorkWait(w) \/ WorkDestroy(w)
         \/ FsDestroy \/ Waited \/ WorkDestroyed \/ JoinFileThread \/ JoinCompressionThread
  PROVE  OrderInv'
<1>1. /\ UNCHANGED <<file_queue, compression_queue, order, file_thread, compression_thread>>
      /\ client'.at \notin {"push file", "push compression"}
  <2>1. PICK place \in {"wait", "destroy", "stop file", "idle", "join compression", "closed"} :
          \E w : client' = At(place, w)
    BY DEF WorkWait, WorkDestroy, Wait, FsDestroy, Waited, WorkDestroyed, JoinFileThread,
           JoinCompressionThread
  <2>2. client'.at \notin {"push file", "push compression"}
    <3>1. PICK w : client' = At(place, w) BY <2>1
    <3>2. client'.at = place BY <3>1, AtFields
    <3>3. QED BY <3>2
  <2>3. UNCHANGED <<file_queue, compression_queue, order, file_thread, compression_thread>>
    BY DEF WorkWait, WorkDestroy, Wait, FsDestroy, Waited, WorkDestroyed, JoinFileThread,
           JoinCompressionThread, queues, threads, history
  <2>4. QED BY <2>2, <2>3
<1>2. \A w \in Works : /\ work'[w].phase # "none" <=> work[w].phase # "none"
                       /\ work'[w].done = work[w].done
                       /\ work'[w].use_compression = work[w].use_compression
  <2>1. work \in [Works -> WorkType] BY DEF FsInv, Typed
  <2>2. CASE WorkDestroyed
    <3>1. PICK x \in Works : x = client.work BY <2>2, InHand DEF FsInv, WorkDestroyed
    <3>2. work[x].phase # "none"
      BY <2>2, <3>1 DEF WorkDestroyed, FsInv, Phases
    <3>3. QED BY <2>1, <2>2, <3>1, <3>2 DEF WorkDestroyed, WorkType
  <2>3. CASE ~WorkDestroyed
    BY <2>3
    DEF WorkWait, WorkDestroy, Wait, FsDestroy, Waited, JoinFileThread, JoinCompressionThread
  <2>4. QED BY <2>2, <2>3
<1>3. \A w \in Works : Submitting(w)' => Submitting(w) BY <1>1 DEF Submitting
<1>4. QED BY <1>1, <1>2, <1>3, StillOrder

(* fs_destroy's NULL is behind every work there is: nothing is plain any   *)
(* more and unfinished.                                                    *)
LEMMA StopOrder ==
  ASSUME FsInv, OrderInv, StopFileThread \/ StopCompressionThread
  PROVE  OrderInv'
<1>1. /\ file_queue \in Queued /\ compression_queue \in Queued
  BY DEF FsInv, Typed, QueuesTyped
<1>2. \A w \in Works : w # NULL BY WorksAssumption
<1>3. /\ UNCHANGED <<work, order, file_thread, compression_thread>>
      /\ \A w \in Works : ~Submitting(w)'
      /\ client'.at # "push compression"
  <2>1. client'.at = "stop compression" \/ client'.at = "join file"
    BY AtFields DEF StopFileThread, StopCompressionThread
  <2>2. QED BY <2>1 DEF StopFileThread, StopCompressionThread, threads, history, Submitting
<1>4. \A w \in Works : /\ In(file_queue', w) <=> In(file_queue, w)
                       /\ In(compression_queue', w) <=> In(compression_queue, w)
                       /\ \A v \in Works : Ahead(file_queue, v, w) => Ahead(file_queue', v, w)
  <2>1. PushFile(NULL) \/ PushCompression(NULL)
    BY DEF StopFileThread, StopCompressionThread
  <2>2. CASE PushFile(NULL)
    BY <1>1, <1>2, <2>2, AppendIn, AheadAppend DEF PushFile
  <2>3. CASE PushCompression(NULL)
    BY <1>1, <1>2, <2>3, AppendIn DEF PushCompression
  <2>4. QED BY <2>1, <2>2, <2>3
<1>5. \A w \in Works : (Plain(w)' <=> Plain(w)) /\ (Done(w)' <=> Done(w))
  BY <1>3 DEF Plain, Done
<1>6. Created' BY <1>3 DEF OrderInv, Created
<1>7. PlainPlaces' BY <1>3, <1>4, <1>5 DEF OrderInv, PlainPlaces
<1>8. PlainOrder' BY <1>3, <1>4, <1>5 DEF OrderInv, PlainOrder
<1>9. QED BY <1>6, <1>7, <1>8 DEF OrderInv

LEMMA StepOrder == FsInv /\ OrderInv /\ [Next]_vars => OrderInv'
<1> SUFFICES ASSUME FsInv, OrderInv, [Next]_vars PROVE OrderInv' OBVIOUS
<1>1. CASE UNCHANGED vars \/ Closed
  BY <1>1, StillOrder DEF Closed, vars, queues, threads, history, Submitting
<1>2. CASE Next /\ ~Closed
  BY <1>2, SubmitOrder, PushOrder, PopOrder, SignalOrder, InsideOrder, ClientOrder, StopOrder
  DEF Next, Client, Returning, Stopping, FileThread, CompressionThread
<1>3. QED BY <1>1, <1>2

(* One file thread and one FIFO queue: works that do not use compression   *)
(* complete in the order of their submission, however compressed works are *)
(* mixed in between.                                                       *)
THEOREM PlainWorksInOrder == Spec => []PlainInOrder
<1>1. OrderInv /\ FsInv /\ [Next]_vars => OrderInv' BY StepOrder
<1>2. Spec => []OrderInv BY <1>1, InitOrder, FsInvHolds, PTL DEF Spec
<1>3. QED BY <1>2, OrderImpliesPlainInOrder, PTL

-----------------------------------------------------------------------------
(* What happens to the memory of a work: when every work has been          *)
(* destroyed only the buffers of file_compress are left.  The one          *)
(* assumption is that reads are given the heap of fs_create, as the game   *)
(* does: fs_work_destroy frees a work from the heap of its buffer,         *)
(* wherever it was allocated.                                              *)

OneHeap == Heaps \subseteq {FsHeap}

Has(kind, w) == <<kind, w, FsHeap>> \in blocks
Reads(w)     == work[w].op = "read"

(* w has not been read, or what was read has not been decompressed.        *)
Coming(w) == Submitting(w) \/ In(file_queue, w) \/ file_thread.work = w

(* What was read into w's buffer is on its way to be decompressed.         *)
Carried(w) == \/ file_thread.at \in {"read", "push"} /\ file_thread.work = w
              \/ In(compression_queue, w)
              \/ compression_thread.at = "code" /\ compression_thread.work = w

(* Reads go from the file thread to the compression thread, writes the     *)
(* other way; and the client destroys a work once.                         *)
Routes ==
  /\ client.at = "push compression" => ~Reads(client.work)
  /\ compression_thread.at = "push" => ~Reads(compression_thread.work)
  /\ file_thread.at \in {"read", "push"} => Reads(file_thread.work)
  /\ client.at = "destroy" => Live(client.work)

(* A live work is a block, and so is the one buffer of a read.             *)
WorkBlocks ==
  /\ misfreed = {}
  /\ blocks \subseteq {"work", "read", "decompressed", "compressed"} \X Works \X {FsHeap}
  /\ \A w \in Works : Has("work", w) <=> Live(w)

Buffers ==
  \A w \in Works :
    /\ Has("read", w) \/ Has("decompressed", w) => Live(w) /\ Reads(w)
    /\ ~(Has("read", w) /\ Has("decompressed", w))
    /\ Coming(w) => ~Has("decompressed", w)
    /\ Carried(w) /\ Reads(w) => Has("read", w)

MemoryInv == Routes /\ WorkBlocks /\ Buffers

LEMMA InitMemory == Init => MemoryInv
<1> SUFFICES ASSUME Init PROVE MemoryInv OBVIOUS
<1>1. \A w : ~In(<<>>, w) BY DEF In
<1>2. \A w \in Works : w # NULL BY WorksAssumption
<1>3. Routes BY DEF Init, Routes, At
<1>4. WorkBlocks BY DEF Init, WorkBlocks, Has, Live
<1>5. Buffers BY <1>1, <1>2 DEF Init, Buffers, Has, Coming, Carried, Submitting, At
<1>6. QED BY <1>3, <1>4, <1>5 DEF MemoryInv

(* Steps that allocate and free nothing. *)
LEMMA StillMemory ==
  ASSUME MemoryInv, Routes', UNCHANGED memory,
         \A w \in Works : work'[w].phase = work[w].phase /\ work'[w].op = work[w].op,
         \A w \in Works : Coming(w)' => Coming(w) \/ ~Reads(w),
         \A w \in Works : Carried(w)' => Carried(w) \/ ~Reads(w)
  PROVE  MemoryInv'
<1>1. UNCHANGED <<blocks, misfreed>> BY DEF memory
<1>2. \A w \in Works : /\ Reads(w)' <=> Reads(w)
                       /\ Live(w)' <=> Live(w)
                       /\ \A kind : Has(kind, w)' <=> Has(kind, w)
  BY <1>1 DEF Reads, Live, Has
<1>3. WorkBlocks' BY <1>1, <1>2 DEF MemoryInv, WorkBlocks
<1>4. Buffers' BY <1>2 DEF MemoryInv, Buffers
<1>5. QED BY <1>3, <1>4 DEF MemoryInv

(* Steps on the work in hand keep it there. *)
LEMMA GotoKeeps ==
  ASSUME Typed, NEW from, NEW to, FileGoto(from, to)
  PROVE  /\ file_thread.at = from
         /\ file_thread'.at = to /\ file_thread'.work = file_thread.work
         /\ UNCHANGED <<file_queue, compression_queue, compression_thread, client>>
         /\ \A w \in Works : Coming(w)' <=> Coming(w)
<1>1. file_thread'.at = to /\ file_thread'.work = file_thread.work BY AtFields DEF FileGoto
<1>2. QED BY <1>1 DEF FileGoto, queues, Coming, Submitting

-----------------------------------------------------------------------------
(* fs_read and fs_write allocate the work; a read goes to the file thread  *)
(* first.                                                                  *)
LEMMA SubmitMemory ==
  ASSUME FsInv, MemoryInv, Submit
  PROVE  MemoryInv'
<1>1. PICK x \in Works, p \in Paths, z \in Modes :
        \/ \E h \in Heaps : FsRead(x, p, z, h)
        \/ FsWrite(x, p, z)
  BY DEF Submit
<1>2. PICK op \in {"read", "write"}, h \in Heaps \cup {FsHeap} :
        /\ Create(x, op, p, z, h)
        /\ client' = At("push file", x) \/ (op = "write" /\ client' = At("push compression", x))
  BY <1>1 DEF FsRead, FsWrite
<1>3. work \in [Works -> WorkType] BY DEF FsInv, Typed
<1>4. /\ UNCHANGED <<file_queue, compression_queue, file_thread, compression_thread, misfreed>>
      /\ client.at = "idle" /\ ~Live(x)
      /\ work'[x].phase = "live" /\ work'[x].op = op
      /\ \A w \in Works : w # x => work'[w] = work[w]
      /\ blocks' = blocks \cup {<<"work", x, FsHeap>>}
  BY <1>2, <1>3 DEF Create, queues, threads, Live
<1>5. ~Held(x) BY <1>4 DEF FsInv, Places, Outstanding
<1>6. /\ client'.work = x /\ client'.at \in {"push file", "push compression"}
      /\ client'.at = "push compression" => op = "write"
  <2>1. CASE client' = At("push file", x)
    <3>1. client'.work = x /\ client'.at = "push file" BY <2>1, AtFields
    <3>2. QED BY <3>1
  <2>2. CASE op = "write" /\ client' = At("push compression", x) BY <2>2, AtFields
  <2>3. QED BY <1>2, <2>1, <2>2
<1>7. \A w \in Works : (Coming(w)' <=> Coming(w) \/ w = x) /\ (Carried(w)' <=> Carried(w))
  BY <1>4, <1>6 DEF Coming, Carried, Submitting
<1>8. ~Carried(x) /\ ~Coming(x)
  BY <1>5 DEF Held, Carried, Coming, Submitting
<1>9. \A w \in Works : /\ \A kind : Has(kind, w)' <=> Has(kind, w) \/ (kind = "work" /\ w = x)
                       /\ w # x => (Live(w)' <=> Live(w)) /\ (Reads(w)' <=> Reads(w))
  BY <1>4 DEF Has, Live, Reads
<1>10. Routes'
  <2>1. /\ file_thread.at \in {"read", "push"} =>
             file_thread.work \in Works /\ file_thread.work # x
        /\ compression_thread.at = "push" =>
             compression_thread.work \in Works /\ compression_thread.work # x
    BY <1>5, InHand DEF FsInv, Held
  <2>2. QED BY <1>4, <1>6, <1>9, <2>1 DEF MemoryInv, Routes, Reads
<1>11. WorkBlocks' BY <1>4, <1>9 DEF MemoryInv, WorkBlocks, Live
<1>12. Buffers'
  <2>1. ~Has("read", x) /\ ~Has("decompressed", x) BY <1>4 DEF MemoryInv, Buffers
  <2>2. QED BY <1>7, <1>8, <1>9, <2>1 DEF MemoryInv, Buffers
<1>13. QED BY <1>10, <1>11, <1>12 DEF MemoryInv

(* What the client passes on, it passes to the thread that is to have it.  *)
LEMMA SubmittedMemory ==
  ASSUME FsInv, MemoryInv, Submitted
  PROVE  MemoryInv'
<1>1. PICK x \in Works : x = client.work BY InHand DEF FsInv, Submitted
<1>2. /\ file_queue \in Queued /\ compression_queue \in Queued BY DEF FsInv, Typed, QueuesTyped
<1>3. /\ client'.at = "idle"
      /\ UNCHANGED <<file_thread, compression_thread, work, memory>>
      /\ Submitting(x) /\ \A w \in Works : ~Submitting(w)'
  <2>1. client'.at = "idle" BY AtFields DEF Submitted
  <2>2. UNCHANGED <<file_thread, compression_thread, work, memory>> BY DEF Submitted, threads
  <2>3. Submitting(x) BY <1>1 DEF Submitted, Submitting
  <2>4. QED BY <2>1, <2>2, <2>3 DEF Submitting
<1>4. Routes' BY <1>3 DEF MemoryInv, Routes, Reads
<1>5. CASE client.at = "push file" /\ PushFile(x)
  <2>1. \A w \in Works : In(file_queue', w) <=> In(file_queue, w) \/ w = x
    BY <1>2, <1>5, AppendIn DEF PushFile
  <2>2. \A w \in Works : (Coming(w)' => Coming(w)) /\ (Carried(w)' <=> Carried(w))
    BY <1>3, <1>5, <2>1 DEF Coming, Carried, PushFile
  <2>3. QED BY <1>3, <1>4, <2>2, StillMemory
<1>6. CASE client.at = "push compression" /\ PushCompression(x)
  <2>1. \A w \in Works : In(compression_queue', w) <=> In(compression_queue, w) \/ w = x
    BY <1>2, <1>6, AppendIn DEF PushCompression
  <2>2. ~Reads(x) BY <1>1, <1>6 DEF MemoryInv, Routes
  <2>3. \A w \in Works : (Coming(w)' => Coming(w)) /\ (Carried(w)' => Carried(w) \/ ~Reads(w))
    BY <1>3, <1>6, <2>1, <2>2 DEF Coming, Carried, PushCompression
  <2>4. QED BY <1>3, <1>4, <2>3, StillMemory
<1>7. QED BY <1>1, <1>5, <1>6 DEF Submitted

(* fs_work_destroy frees the work, after the client has freed the buffer:  *)
(* the work is in no thread's hands.                                       *)
LEMMA WorkDestroyedMemory ==
  ASSUME OneHeap, FsInv, MemoryInv, WorkDestroyed
  PROVE  MemoryInv'
<1>1. PICK x \in Works : x = client.work BY InHand DEF FsInv, WorkDestroyed
<1>2. work \in [Works -> WorkType] BY DEF FsInv, Typed
<1>3. work[x].heap = FsHeap BY <1>2 DEF OneHeap, WorkType
<1>4. Live(x) /\ Done(x) BY <1>1 DEF MemoryInv, Routes, WorkDestroyed
<1>5. ~Held(x) BY <1>4 DEF FsInv, Places, Outstanding
<1>6. Has("work", x) BY <1>4 DEF MemoryInv, WorkBlocks
<1>7. misfreed' = {}
  BY <1>1, <1>3, <1>6 DEF WorkDestroyed, Misfree, Has, MemoryInv, WorkBlocks
<1>8. blocks' = (blocks \ {<<"work", x, FsHeap>>}) \ BufferBlock(x)
  BY <1>1, <1>3 DEF WorkDestroyed, Freed
<1>9. \A w \in Works : \A kind : w # x => (Has(kind, w)' <=> Has(kind, w))
  BY <1>3, <1>8 DEF Has, BufferBlock
<1>10. ~Has("work", x)' /\ ~Has("read", x)' /\ ~Has("decompressed", x)'
  <2>1. BufferBlock(x) = IF ~Reads(x) THEN {}
                         ELSE IF Has("decompressed", x) THEN {<<"decompressed", x, FsHeap>>}
                         ELSE {<<"read", x, FsHeap>>}
    BY <1>2, <1>3 DEF BufferBlock, Has, Reads, WorkType
  <2>2. QED BY <1>8, <2>1 DEF Has, MemoryInv, Buffers
<1>11. /\ UNCHANGED <<file_queue, compression_queue, file_thread, compression_thread>>
       /\ client'.at = "idle"
       /\ work'[x].phase = "freed" /\ work'[x].op = work[x].op
       /\ \A w \in Works : w # x => work'[w] = work[w]
  BY <1>1, <1>2, AtFields DEF WorkDestroyed, queues, threads, WorkType
<1>12. \A w \in Works : /\ w # x => (Live(w)' <=> Live(w))
                        /\ Reads(w)' <=> Reads(w)
                        /\ Coming(w)' => Coming(w)
                        /\ Carried(w)' <=> Carried(w)
  BY <1>11 DEF Live, Reads, Coming, Carried, Submitting
<1>13. ~Live(x)' /\ ~Coming(x)' /\ ~Carried(x)'
  BY <1>5, <1>11, <1>12 DEF Live, Held, Coming, Carried, Submitting
<1>14. Routes'
  <2>1. /\ file_thread.at \in {"read", "push"} => file_thread.work \in Works
        /\ compression_thread.at = "push" => compression_thread.work \in Works
    BY InHand DEF FsInv
  <2>2. QED BY <1>11, <1>12, <2>1 DEF MemoryInv, Routes, Reads
<1>15. WorkBlocks' BY <1>7, <1>8, <1>9, <1>10, <1>12, <1>13 DEF MemoryInv, WorkBlocks
<1>16. Buffers' BY <1>9, <1>10, <1>12, <1>13 DEF MemoryInv, Buffers
<1>17. QED BY <1>14, <1>15, <1>16 DEF MemoryInv

(* The client's other steps; it destroys a work that is live. *)
LEMMA ClientMemory ==
  ASSUME FsInv, MemoryInv,
         \/ \E w \in Works : WorkWait(w) \/ WorkDestroy(w)
         \/ FsDestroy \/ Waited \/ JoinFileThread \/ JoinCompressionThread
  PROVE  MemoryInv'
<1>1. UNCHANGED <<file_queue, compression_queue, file_thread, compression_thread, work, memory>>
  BY DEF WorkWait, WorkDestroy, Wait, FsDestroy, Waited, JoinFileThread, JoinCompressionThread,
         queues, threads
<1>2. PICK place \in {"wait", "destroy", "stop file", "idle", "join compression", "closed"},
             x \in Works \cup {NULL} :
        client' = At(place, x) /\ (place = "destroy" => Live(x))
  BY DEF WorkWait, WorkDestroy, Wait, FsDestroy, Waited, JoinFileThread, JoinCompressionThread
<1>3. client'.at = place /\ client'.work = x BY <1>2, AtFields
<1>4. Routes' BY <1>1, <1>2, <1>3 DEF MemoryInv, Routes, Reads, Live
<1>5. \A w \in Works : (Coming(w)' => Coming(w)) /\ (Carried(w)' => Carried(w))
  BY <1>1, <1>3 DEF Coming, Carried, Submitting
<1>6. QED BY <1>1, <1>4, <1>5, StillMemory

(* fs_destroy's NULLs are no works. *)
LEMMA StopMemory ==
  ASSUME FsInv, MemoryInv, StopFileThread \/ StopCompressionThread
  PROVE  MemoryInv'
<1>1. /\ file_queue \in Queued /\ compression_queue \in Queued BY DEF FsInv, Typed, QueuesTyped
<1>2. \A w \in Works : w # NULL BY WorksAssumption
<1>3. /\ UNCHANGED <<file_thread, compression_thread, work, memory>>
      /\ client'.at = "stop compression" \/ client'.at = "join file"
  BY AtFields DEF StopFileThread, StopCompressionThread, threads
<1>4. PushFile(NULL) \/ PushCompression(NULL) BY DEF StopFileThread, StopCompressionThread
<1>5. \A w \in Works : /\ In(file_queue', w) <=> In(file_queue, w)
                       /\ In(compression_queue', w) <=> In(compression_queue, w)
  <2>1. CASE PushFile(NULL) BY <1>1, <1>2, <2>1, AppendIn DEF PushFile
  <2>2. CASE PushCompression(NULL) BY <1>1, <1>2, <2>2, AppendIn DEF PushCompression
  <2>3. QED BY <1>4, <2>1, <2>2
<1>6. Routes' BY <1>3 DEF MemoryInv, Routes, Reads
<1>7. \A w \in Works : (Coming(w)' => Coming(w)) /\ (Carried(w)' => Carried(w))
  BY <1>3, <1>5 DEF Coming, Carried, Submitting
<1>8. QED BY <1>3, <1>6, <1>7, StillMemory

-----------------------------------------------------------------------------
(* The two threads *)

LEMMA PopMemory ==
  ASSUME FsInv, MemoryInv, FilePop \/ CompressionPop
  PROVE  MemoryInv'
<1>1. /\ file_queue \in Queued /\ compression_queue \in Queued
      /\ NoRepeat(file_queue) /\ NoRepeat(compression_queue)
  BY DEF FsInv, Typed, QueuesTyped, Places
<1>2. \A w \in Works : w # NULL BY WorksAssumption
<1>3. UNCHANGED <<client, work, memory>> BY DEF FilePop, CompressionPop
<1>4. CASE FilePop
  <2>1. /\ In(file_queue, Head(file_queue))
        /\ \A w \in Works : In(file_queue', w) => In(file_queue, w)
        /\ UNCHANGED <<compression_queue, compression_thread>>
    BY <1>1, <1>2, <1>4, TailIn DEF FilePop
  <2>2. /\ file_thread'.at \in {"exited", "open"}
        /\ file_thread'.work = Head(file_queue)
    BY <1>4, AtFields DEF FilePop
  <2>3. Routes' BY <1>3, <2>1, <2>2 DEF MemoryInv, Routes, Reads, Live
  <2>4. \A w \in Works : (Coming(w)' => Coming(w)) /\ (Carried(w)' => Carried(w))
    BY <1>2, <1>3, <2>1, <2>2 DEF Coming, Carried, Submitting
  <2>5. QED BY <1>3, <2>3, <2>4, StillMemory
<1>5. CASE CompressionPop
  <2>1. /\ In(compression_queue, Head(compression_queue))
        /\ \A w \in Works : In(compression_queue', w) => In(compression_queue, w)
        /\ UNCHANGED <<file_queue, file_thread>>
    BY <1>1, <1>2, <1>5, TailIn DEF CompressionPop
  <2>2. /\ compression_thread'.at \in {"exited", "code"}
        /\ compression_thread'.work = Head(compression_queue)
    BY <1>5, AtFields DEF CompressionPop
  <2>3. Routes' BY <1>3, <2>1, <2>2 DEF MemoryInv, Routes, Reads, Live
  <2>4. \A w \in Works : (Coming(w)' => Coming(w)) /\ (Carried(w)' => Carried(w))
    BY <1>2, <1>3, <2>1, <2>2 DEF Coming, Carried, Submitting
  <2>5. QED BY <1>3, <2>3, <2>4, StillMemory
<1>6. QED BY <1>4, <1>5

(* The file thread hands over a read with its buffer, the compression      *)
(* thread a write.                                                         *)
LEMMA HandOverMemory ==
  ASSUME FsInv, MemoryInv, FilePush \/ CompressionPush
  PROVE  MemoryInv'
<1>1. /\ file_queue \in Queued /\ compression_queue \in Queued BY DEF FsInv, Typed, QueuesTyped
<1>2. \A w \in Works : w # NULL BY WorksAssumption
<1>3. UNCHANGED <<client, work, memory>> BY DEF FilePush, CompressionPush
<1>4. CASE FilePush
  <2>1. PICK x \in Works : x = file_thread.work BY <1>4, InHand DEF FsInv, FilePush
  <2>2. /\ UNCHANGED <<file_queue, compression_thread>>
        /\ \A v : In(compression_queue', v) <=> In(compression_queue, v) \/ v = x
    BY <1>1, <1>4, <2>1, AppendIn DEF FilePush, PushCompression
  <2>3. file_thread'.work = NULL /\ file_thread'.at = "pop" BY <1>4, AtFields DEF FilePush
  <2>4. Carried(x) BY <1>4, <2>1 DEF Carried, FilePush
  <2>5. Routes' BY <1>3, <2>2, <2>3 DEF MemoryInv, Routes, Reads, Live
  <2>6. \A w \in Works : (Coming(w)' => Coming(w)) /\ (Carried(w)' => Carried(w))
    BY <1>2, <1>3, <2>2, <2>3, <2>4 DEF Coming, Carried, Submitting
  <2>7. QED BY <1>3, <2>5, <2>6, StillMemory
<1>5. CASE CompressionPush
  <2>1. PICK x \in Works : x = compression_thread.work
    BY <1>5, InHand DEF FsInv, CompressionPush
  <2>2. /\ UNCHANGED <<compression_queue, file_thread>>
        /\ \A v : In(file_queue', v) <=> In(file_queue, v) \/ v = x
    BY <1>1, <1>5, <2>1, AppendIn DEF CompressionPush, PushFile
  <2>3. compression_thread'.work = NULL /\ compression_thread'.at = "pop"
    BY <1>5, AtFields DEF CompressionPush
  <2>4. ~Reads(x) BY <1>5, <2>1 DEF CompressionPush, MemoryInv, Routes
  <2>5. Routes' BY <1>3, <2>2, <2>3 DEF MemoryInv, Routes, Reads, Live
  <2>6. \A w \in Works : (Coming(w)' => Coming(w) \/ ~Reads(w)) /\ (Carried(w)' => Carried(w))
    BY <1>2, <1>3, <2>2, <2>3, <2>4 DEF Coming, Carried, Submitting
  <2>7. QED BY <1>3, <2>5, <2>6, StillMemory
<1>6. QED BY <1>4, <1>5

LEMMA SignalMemory ==
  ASSUME FsInv, MemoryInv, FileSignal \/ CompressionSignal
  PROVE  MemoryInv'
<1>1. work \in [Works -> WorkType] BY DEF FsInv, Typed
<1>2. UNCHANGED <<file_queue, compression_queue, client, memory>>
  BY DEF FileSignal, CompressionSignal, queues
<1>3. \A w \in Works : w # NULL BY WorksAssumption
<1>4. \A w \in Works : work'[w].phase = work[w].phase /\ work'[w].op = work[w].op
  BY <1>1 DEF FileSignal, CompressionSignal, WorkType
<1>5. /\ file_thread' = file_thread \/ (file_thread'.at = "pop" /\ file_thread'.work = NULL)
      /\ compression_thread' = compression_thread
           \/ (compression_thread'.at = "pop" /\ compression_thread'.work = NULL)
  BY AtFields DEF FileSignal, CompressionSignal
<1>6. Routes'
  <2>1. /\ file_thread.at \in {"read", "push"} => file_thread.work \in Works
        /\ compression_thread.at = "push" => compression_thread.work \in Works
        /\ client.at \in {"push compression", "destroy"} => client.work \in Works
    BY InHand DEF FsInv
  <2>2. QED BY <1>2, <1>4, <1>5, <2>1 DEF MemoryInv, Routes, Reads, Live
<1>7. \A w \in Works : (Coming(w)' => Coming(w)) /\ (Carried(w)' => Carried(w))
  BY <1>2, <1>3, <1>5 DEF Coming, Carried, Submitting
<1>8. QED BY <1>2, <1>4, <1>6, <1>7, StillMemory

(* The steps of file_read and file_write that keep to the same blocks.     *)
LEMMA InsideMemory ==
  ASSUME FsInv, MemoryInv,
         FileOpenFails \/ FileCreate \/ FileWrite \/ FileWriteFails \/ FileRead \/ FileReadFails
  PROVE  MemoryInv'
<1>1. work \in [Works -> WorkType] BY DEF FsInv, Typed
<1>2. /\ \A w \in Works : work'[w].phase = work[w].phase /\ work'[w].op = work[w].op
      /\ UNCHANGED memory
  BY <1>1
  DEF FileOpenFails, FileCreate, FileWrite, FileWriteFails, FileRead, FileReadFails, WorkType
<1>3. PICK from, to : /\ FileGoto(from, to)
                      /\ to \in {"read", "push"} => from = "read" /\ to = "push"
  <2>1. CASE FileRead BY <2>1 DEF FileRead
  <2>2. CASE FileOpenFails \/ FileCreate \/ FileWrite \/ FileWriteFails
    BY <2>2 DEF FileOpenFails, FileCreate, FileWrite, FileWriteFails
  <2>3. CASE FileReadFails BY <2>3 DEF FileReadFails
  <2>4. QED BY <2>1, <2>2, <2>3
<1>4. /\ file_thread.at = from
      /\ file_thread'.at = to /\ file_thread'.work = file_thread.work
      /\ UNCHANGED <<file_queue, compression_queue, compression_thread, client>>
      /\ \A w \in Works : Coming(w)' <=> Coming(w)
  BY <1>3, GotoKeeps DEF FsInv
<1>5. Routes'
  <2>1. /\ file_thread.at = "read" => file_thread.work \in Works
        /\ compression_thread.at = "push" => compression_thread.work \in Works
        /\ client.at \in {"push compression", "destroy"} => client.work \in Works
    BY InHand DEF FsInv
  <2>2. QED BY <1>2, <1>3, <1>4, <2>1 DEF MemoryInv, Routes, Reads, Live
<1>6. \A w \in Works : Carried(w)' => Carried(w) BY <1>3, <1>4 DEF Carried
<1>7. QED BY <1>2, <1>4, <1>5, <1>6, StillMemory

(* Steps of either thread that replace blocks of the work x in hand.       *)
LEMMA BlocksOfOne ==
  ASSUME MemoryInv, Routes', WorkBlocks', NEW x \in Works,
         \A w \in Works : /\ Live(w)' <=> Live(w)
                          /\ Reads(w)' <=> Reads(w)
                          /\ w # x => /\ \A kind : Has(kind, w)' <=> Has(kind, w)
                                      /\ Coming(w)' => Coming(w)
                                      /\ Carried(w)' => Carried(w),
         /\ Has("read", x)' \/ Has("decompressed", x)' => Live(x) /\ Reads(x)
         /\ ~(Has("read", x) /\ Has("decompressed", x))'
         /\ Coming(x)' => ~Has("decompressed", x)'
         /\ Carried(x)' /\ Reads(x) => Has("read", x)'
  PROVE  MemoryInv'
BY DEF MemoryInv, Buffers

(* file_read allocates a buffer of the size of the file. *)
LEMMA FileOpenMemory ==
  ASSUME OneHeap, FsInv, MemoryInv, FileOpen
  PROVE  MemoryInv'
<1>1. PICK x \in Works : x = file_thread.work BY InHand DEF FsInv, FileOpen, FileGoto
<1>2. work \in [Works -> WorkType] BY DEF FsInv, Typed
<1>3. work[x].heap = FsHeap BY <1>2 DEF OneHeap, WorkType
<1>4. /\ Reads(x) /\ UNCHANGED <<work, misfreed>>
      /\ blocks' = blocks \cup {<<"read", x, FsHeap>>}
      /\ FileGoto("open", "read")
  BY <1>1, <1>3 DEF FileOpen, Reads
<1>5. /\ file_thread'.at = "read" /\ file_thread'.work = x
      /\ UNCHANGED <<file_queue, compression_queue, compression_thread, client>>
      /\ \A w \in Works : Coming(w)' <=> Coming(w)
  BY <1>1, <1>4, GotoKeeps DEF FsInv
<1>6. Routes' BY <1>4, <1>5 DEF MemoryInv, Routes, Reads, Live
<1>7. Coming(x) /\ Held(x) BY <1>1 DEF Coming, Held
<1>8. Live(x) BY <1>7 DEF FsInv, Places, Outstanding
<1>9. \A w \in Works : /\ \A kind : Has(kind, w)' <=> Has(kind, w) \/ (kind = "read" /\ w = x)
                       /\ (Live(w)' <=> Live(w)) /\ (Reads(w)' <=> Reads(w))
  BY <1>4 DEF Has, Live, Reads
<1>10. WorkBlocks' BY <1>4, <1>9 DEF MemoryInv, WorkBlocks
<1>11. \A w \in Works : w # x => (Carried(w)' => Carried(w)) BY <1>5 DEF Carried
<1>12. ~Has("decompressed", x) BY <1>7 DEF MemoryInv, Buffers
<1>13. QED BY <1>4, <1>5, <1>6, <1>8, <1>9, <1>10, <1>11, <1>12, BlocksOfOne

(* file_decompress frees what was read and allocates what it becomes;      *)
(* file_compress allocates a buffer that is never freed.                   *)
LEMMA CodeMemory ==
  ASSUME OneHeap, FsInv, MemoryInv, Decompress \/ Compress
  PROVE  MemoryInv'
<1>1. PICK x \in Works : x = compression_thread.work
  BY InHand DEF FsInv, Decompress, Compress
<1>2. work \in [Works -> WorkType] BY DEF FsInv, Typed
<1>3. work[x].heap = FsHeap BY <1>2 DEF OneHeap, WorkType
<1>4. /\ UNCHANGED <<file_queue, compression_queue, file_thread, client>>
      /\ compression_thread.at = "code" /\ compression_thread'.work = x
      /\ compression_thread'.at = "push" => ~Reads(x)
      /\ compression_thread'.at \in {"push", "signal"}
  <2>1. CASE Decompress
    <3>1. compression_thread' = At("signal", x) BY <1>1, <2>1 DEF Decompress
    <3>2. QED BY <2>1, <3>1, AtFields DEF Decompress, queues
  <2>2. CASE Compress
    <3>1. compression_thread' = At("push", x) /\ ~Reads(x) BY <1>1, <2>2 DEF Compress, Reads
    <3>2. QED BY <2>2, <3>1, AtFields DEF Compress, queues
  <2>3. QED BY <2>1, <2>2
<1>5. \A w \in Works : (Live(w)' <=> Live(w)) /\ (Reads(w)' <=> Reads(w))
  BY <1>2 DEF Decompress, Compress, Live, Reads, WorkType
<1>6. Carried(x) /\ Held(x) BY <1>1, <1>4 DEF Carried, Held
<1>7. Live(x) BY <1>6 DEF FsInv, Places, Outstanding
<1>8. ~Coming(x)' /\ ~Carried(x)'
  BY <1>1, <1>4 DEF FsInv, Places, Coming, Carried, Submitting
<1>9. \A w \in Works : w # x => (Coming(w)' => Coming(w)) /\ (Carried(w)' => Carried(w))
  BY <1>4 DEF Coming, Carried, Submitting
<1>10. Routes'
  <2>1. /\ file_thread.at \in {"read", "push"} => file_thread.work \in Works
        /\ client.at \in {"push compression", "destroy"} => client.work \in Works
    BY InHand DEF FsInv
  <2>2. QED BY <1>4, <1>5, <2>1 DEF MemoryInv, Routes
<1>11. CASE Decompress
  <2>1. Reads(x) BY <1>1, <1>11 DEF Decompress, Reads
  <2>2. Has("read", x) BY <1>6, <2>1 DEF MemoryInv, Buffers
  <2>3. /\ misfreed' = {}
        /\ blocks' = (blocks \ {<<"read", x, FsHeap>>}) \cup {<<"decompressed", x, FsHeap>>}
    BY <1>1, <1>3, <1>11, <2>2 DEF Decompress, Misfree, Has, MemoryInv, WorkBlocks
  <2>4. \A w \in Works : \A kind : w # x => (Has(kind, w)' <=> Has(kind, w))
    <3>1. SUFFICES ASSUME NEW w \in Works, NEW kind, w # x PROVE Has(kind, w)' <=> Has(kind, w)
      OBVIOUS
    <3>2. <<kind, w, FsHeap>> # <<"read", x, FsHeap>> BY <3>1
    <3>3. <<kind, w, FsHeap>> # <<"decompressed", x, FsHeap>> BY <3>1
    <3>4. QED BY <2>3, <3>2, <3>3 DEF Has
  <2>5. (Has("work", x)' <=> Has("work", x)) /\ ~Has("read", x)' BY <2>3 DEF Has
  <2>6. WorkBlocks'
    <3>1. \A w \in Works : Has("work", w)' <=> Has("work", w) BY <2>4, <2>5
    <3>2. QED BY <1>5, <2>3, <3>1 DEF MemoryInv, WorkBlocks
  <2>7. QED BY <1>5, <1>7, <1>8, <1>9, <1>10, <2>1, <2>4, <2>5, <2>6, BlocksOfOne
<1>12. CASE Compress
  <2>1. /\ misfreed' = misfreed
        /\ blocks' = blocks \cup {<<"compressed", x, FsHeap>>}
    BY <1>1, <1>3, <1>12 DEF Compress
  <2>2. \A w \in Works : \A kind \in {"work", "read", "decompressed"} :
                           Has(kind, w)' <=> Has(kind, w)
    BY <2>1 DEF Has
  <2>3. WorkBlocks' BY <1>5, <2>1, <2>2 DEF MemoryInv, WorkBlocks
  <2>4. Buffers' BY <1>5, <1>8, <1>9, <2>2 DEF MemoryInv, Buffers
  <2>5. QED BY <1>10, <2>3, <2>4 DEF MemoryInv
<1>13. QED BY <1>11, <1>12

-----------------------------------------------------------------------------
LEMMA StepMemory ==
  ASSUME OneHeap, FsInv, MemoryInv, [Next]_vars
  PROVE  MemoryInv'
<1>1. CASE UNCHANGED vars \/ Closed
  <2>1. UNCHANGED <<file_queue, compression_queue, file_thread, compression_thread, client, work,
                    memory>>
    BY <1>1 DEF Closed, vars, queues, threads
  <2>2. Routes' BY <2>1 DEF MemoryInv, Routes, Reads, Live
  <2>3. \A w \in Works : (Coming(w)' <=> Coming(w)) /\ (Carried(w)' <=> Carried(w))
    BY <2>1 DEF Coming, Carried, Submitting
  <2>4. QED BY <2>1, <2>2, <2>3, StillMemory
<1>2. CASE Next /\ ~Closed
  BY <1>2, SubmitMemory, SubmittedMemory, WorkDestroyedMemory, ClientMemory, StopMemory, PopMemory,
     HandOverMemory, SignalMemory, InsideMemory, FileOpenMemory, CodeMemory
  DEF Next, Client, Returning, Stopping, FileThread, CompressionThread
<1>3. QED BY <1>1, <1>2

(* Every block is freed once and to its own heap, and when fs_destroy has  *)
(* returned the blocks left are file_compress's and those of works the     *)
(* client has not destroyed.                                               *)
(* (fs.c:150, 175, 254, 282)                                               *)
THEOREM NothingElseLeaks ==
  ASSUME Heaps \subseteq {FsHeap}
  PROVE  Spec => []OnlyCompressedLeaks
<1>1. FsInv /\ MemoryInv => OnlyCompressedLeaks
  <2> SUFFICES ASSUME FsInv, MemoryInv PROVE OnlyCompressedLeaks OBVIOUS
  <2>1. ASSUME NEW b \in blocks PROVE b[1] = "compressed" \/ Live(b[2])
    <3>1. PICK kind \in {"work", "read", "decompressed", "compressed"}, w \in Works :
            b = <<kind, w, FsHeap>>
      BY DEF MemoryInv, WorkBlocks
    <3>2. Has(kind, w) BY <3>1 DEF Has
    <3>3. kind = "compressed" \/ Live(w) BY <3>2 DEF MemoryInv, WorkBlocks, Buffers
    <3>4. QED BY <3>1, <3>3
  <2>2. QED BY <2>1 DEF OnlyCompressedLeaks, MemoryInv, WorkBlocks
<1>2. FsInv /\ MemoryInv /\ [Next]_vars => MemoryInv' BY StepMemory DEF OneHeap
<1>3. Spec => []MemoryInv BY <1>2, InitMemory, FsInvHolds, PTL DEF Spec
<1>4. QED BY <1>1, <1>3, FsInvHolds, PTL

-----------------------------------------------------------------------------
(* Content.  A read's buffer holds what the file thread read (Fetched),    *)
(* and then what it was decoded to (Decoded); a write's buffer is coded    *)
(* before the file thread has it (Coded).                                  *)
Fetched(w) == \/ file_thread.at = "push" /\ file_thread.work = w
              \/ In(compression_queue, w)
              \/ compression_thread.at = "code" /\ compression_thread.work = w
Decoded(w) == \/ file_thread.at = "signal" /\ file_thread.work = w
              \/ compression_thread.at = "signal" /\ compression_thread.work = w
              \/ Done(w)
Coded(w)   == \/ In(file_queue, w) \/ file_thread.work = w
              \/ compression_thread.at = "push" /\ compression_thread.work = w

(* Which works are where: a write is never in the hands of file_read, nor  *)
(* a read in those of file_write.                                          *)
Ways ==
  /\ client.at = "push compression" => ~Reads(client.work)
  /\ client.at = "push file" => Reads(client.work) \/ Plain(client.work)
  /\ file_thread.at = "write" => ~Reads(file_thread.work)
  /\ file_thread.at \in {"read", "push"} => Reads(file_thread.work)
  /\ compression_thread.at = "push" => ~Reads(compression_thread.work)
  /\ compression_thread.at = "signal" => Reads(compression_thread.work)

LEMMA InitWays == Init => Ways
BY DEF Init, Ways, At

(* Who holds a work keeps it, or has none; only the client, the file       *)
(* thread and the compression thread at their own steps take another.      *)
LEMMA StepWays == FsInv /\ Ways /\ [Next]_vars => Ways'
<1> SUFFICES ASSUME FsInv, Ways, [Next]_vars PROVE Ways' OBVIOUS
<1>1. work \in [Works -> WorkType] BY DEF FsInv, Typed
<1>2. /\ file_thread.at \notin {"pop", "exited"} => file_thread.work \in Works
      /\ compression_thread.at \notin {"pop", "exited"} => compression_thread.work \in Works
      /\ client.at \in {"push file", "push compression", "wait", "destroy"}
           => client.work \in Works
  BY InHand DEF FsInv
<1>3. CASE UNCHANGED vars \/ Closed
  <2>1. UNCHANGED <<client, file_thread, compression_thread, work>>
    BY <1>3 DEF Closed, vars, threads
  <2>2. QED BY <2>1 DEF Ways, Reads, Plain
<1>4. CASE Submit
  <2>1. PICK x \in Works, p \in Paths, z \in Modes :
          \/ \E h \in Heaps : FsRead(x, p, z, h)
          \/ FsWrite(x, p, z)
    BY <1>4 DEF Submit
  <2>2. PICK op \in {"read", "write"}, h \in Heaps \cup {FsHeap} :
          /\ Create(x, op, p, z, h)
          /\ \/ client' = At("push file", x) /\ (op = "read" \/ ~z)
             \/ client' = At("push compression", x) /\ op = "write"
    BY <2>1 DEF FsRead, FsWrite
  <2>3. /\ UNCHANGED <<file_thread, compression_thread>>
        /\ work[x].phase = "none"
        /\ work'[x].op = op /\ work'[x].use_compression = z
        /\ \A w \in Works : w # x => work'[w] = work[w]
    BY <1>1, <2>2 DEF Create, threads
  <2>4. ~Held(x) BY <2>3 DEF FsInv, Places, Outstanding, Live
  <2>5. \/ client'.at = "push file" /\ client'.work = x /\ (op = "read" \/ ~z)
        \/ client'.at = "push compression" /\ client'.work = x /\ op = "write"
    <3>1. CASE client' = At("push file", x) /\ (op = "read" \/ ~z) BY <3>1, AtFields
    <3>2. CASE client' = At("push compression", x) /\ op = "write" BY <3>2, AtFields
    <3>3. QED BY <2>2, <3>1, <3>2
  <2>6. \A w \in Works : w # x => (Reads(w)' <=> Reads(w)) BY <2>3 DEF Reads
  <2>7. (op = "write" => ~Reads(x)') /\ (op = "read" => Reads(x)') /\ (~z => Plain(x)')
    BY <2>3 DEF Reads, Plain
  <2>8. QED BY <1>2, <2>3, <2>4, <2>5, <2>6, <2>7 DEF Ways, Held
<1>5. CASE (Client /\ ~Submit) \/ Returning
  <2>1. /\ UNCHANGED <<file_thread, compression_thread>>
        /\ client'.at \notin {"push file", "push compression"}
    <3>1. PICK place \in {"wait", "destroy", "stop file", "idle", "stop compression",
                          "join file", "join compression", "closed"} :
            \E w : client' = At(place, w)
      BY <1>5
      DEF Client, Returning, Stopping, WorkWait, WorkDestroy, Wait, FsDestroy, Submitted, Waited,
          WorkDestroyed, StopFileThread, StopCompressionThread, JoinFileThread,
          JoinCompressionThread
    <3>2. client'.at = place BY <3>1, AtFields
    <3>3. UNCHANGED <<file_thread, compression_thread>>
      BY <1>5
      DEF Client, Returning, Stopping, WorkWait, WorkDestroy, Wait, FsDestroy, Submitted, Waited,
          WorkDestroyed, StopFileThread, StopCompressionThread, JoinFileThread,
          JoinCompressionThread, threads
    <3>4. QED BY <3>2, <3>3
  <2>2. \A w \in Works : Reads(w)' <=> Reads(w)
    <3>1. CASE WorkDestroyed BY <1>1, <3>1 DEF WorkDestroyed, Reads, WorkType
    <3>2. CASE ~WorkDestroyed
      BY <1>5, <3>2
      DEF Client, Returning, Stopping, WorkWait, WorkDestroy, Wait, FsDestroy, Submitted, Waited,
          StopFileThread, StopCompressionThread, JoinFileThread, JoinCompressionThread, Reads
    <3>3. QED BY <3>1, <3>2
  <2>3. QED BY <1>2, <2>1, <2>2 DEF Ways
<1>6. CASE FileThread \/ CompressionThread
  <2>1. \A w \in Works : (Reads(w)' <=> Reads(w)) /\ (Plain(w)' <=> Plain(w))
    BY <1>1, <1>6, ThreadsKeep DEF Reads, Plain
  <2>2. client' = client
    BY <1>6
    DEF FileThread, FilePop, FilePush, FileSignal, FileOpenFails, FileCreate, FileWrite,
        FileWriteFails, FileOpen, FileRead, FileReadFails, FileGoto,
        CompressionThread, CompressionPop, Decompress, Compress, CompressionPush,
        CompressionSignal
  <2>3. CASE FileThread
    <3>1. compression_thread' = compression_thread
      BY <2>3
      DEF FileThread, FilePop, FilePush, FileSignal, FileOpenFails, FileCreate, FileWrite,
          FileWriteFails, FileOpen, FileRead, FileReadFails, FileGoto
    <3>2. /\ file_thread'.at = "write" => file_thread'.work \in Works /\ ~Reads(file_thread'.work)
          /\ file_thread'.at \in {"read", "push"} =>
               file_thread'.work \in Works /\ Reads(file_thread'.work)
      <4>1. CASE FilePop \/ FilePush \/ FileSignal
        <5>1. PICK place \in {"exited", "open", "pop"} : \E w : file_thread' = At(place, w)
          BY <4>1 DEF FilePop, FilePush, FileSignal
        <5>2. QED BY <5>1, AtFields
      <4>2. CASE FileCreate
        <5>1. /\ file_thread' = At("write", file_thread.work) /\ ~Reads(file_thread.work)
              /\ file_thread.at = "open"
          BY <4>2 DEF FileCreate, FileGoto, Reads
        <5>2. file_thread'.at = "write" /\ file_thread'.work = file_thread.work
          BY <5>1, AtFields
        <5>3. QED BY <1>2, <5>1, <5>2
      <4>3. CASE FileOpen
        <5>1. /\ file_thread' = At("read", file_thread.work) /\ Reads(file_thread.work)
              /\ file_thread.at = "open"
          BY <4>3 DEF FileOpen, FileGoto, Reads
        <5>2. file_thread'.at = "read" /\ file_thread'.work = file_thread.work
          BY <5>1, AtFields
        <5>3. QED BY <1>2, <5>1, <5>2
      <4>4. CASE FileRead
        <5>1. /\ file_thread.at = "read" /\ file_thread'.work = file_thread.work
              /\ file_thread'.at = "push" \/ file_thread'.at = "signal"
          BY <4>4, AtFields DEF FileRead, FileGoto
        <5>2. QED BY <1>2, <5>1 DEF Ways
      <4>5. CASE FileOpenFails \/ FileWrite \/ FileWriteFails \/ FileReadFails
        <5>1. file_thread' = At("signal", file_thread.work)
          BY <4>5 DEF FileOpenFails, FileWrite, FileWriteFails, FileReadFails, FileGoto
        <5>2. QED BY <5>1, AtFields
      <4>6. QED BY <2>3, <4>1, <4>2, <4>3, <4>4, <4>5 DEF FileThread
    <3>3. QED BY <1>2, <2>1, <2>2, <3>1, <3>2 DEF Ways
  <2>4. CASE CompressionThread
    <3>1. file_thread' = file_thread
      BY <2>4
      DEF CompressionThread, CompressionPop, Decompress, Compress, CompressionPush,
          CompressionSignal
    <3>2. /\ compression_thread'.at = "push" =>
               compression_thread'.work \in Works /\ ~Reads(compression_thread'.work)
          /\ compression_thread'.at = "signal" =>
               compression_thread'.work \in Works /\ Reads(compression_thread'.work)
      <4>1. CASE CompressionPop \/ CompressionPush \/ CompressionSignal
        <5>1. PICK place \in {"exited", "code", "pop"} :
                \E w : compression_thread' = At(place, w)
          BY <4>1 DEF CompressionPop, CompressionPush, CompressionSignal
        <5>2. QED BY <5>1, AtFields
      <4>2. CASE Decompress
        <5>1. /\ compression_thread' = At("signal", compression_thread.work)
              /\ Reads(compression_thread.work) /\ compression_thread.at = "code"
          BY <4>2 DEF Decompress, Reads
        <5>2. compression_thread'.at = "signal" /\ compression_thread'.work = compression_thread.work
          BY <5>1, AtFields
        <5>3. QED BY <1>2, <5>1, <5>2
      <4>3. CASE Compress
        <5>1. /\ compression_thread' = At("push", compression_thread.work)
              /\ ~Reads(compression_thread.work) /\ compression_thread.at = "code"
          BY <4>3 DEF Compress, Reads
        <5>2. compression_thread'.at = "push" /\ compression_thread'.work = compression_thread.work
          BY <5>1, AtFields
        <5>3. QED BY <1>2, <5>1, <5>2
      <4>4. QED BY <2>4, <4>1, <4>2, <4>3 DEF CompressionThread
    <3>3. QED BY <1>2, <2>1, <2>2, <3>1, <3>2 DEF Ways
  <2>5. QED BY <1>6, <2>3, <2>4
<1>7. QED BY <1>3, <1>4, <1>5, <1>6 DEF Next, Client

(* What a work is about and what it has come to. *)
SameData(w) == /\ work'[w].op = work[w].op /\ work'[w].path = work[w].path
               /\ work'[w].use_compression = work[w].use_compression
               /\ work'[w].buffer = work[w].buffer /\ work'[w].result = work[w].result

(* Steps that only carry works about and signal them. *)
Carrying == \/ Client /\ ~Submit
            \/ Returning
            \/ FilePop \/ FilePush \/ FileSignal \/ FileOpen
            \/ CompressionPop \/ CompressionPush \/ CompressionSignal
            \/ Closed \/ UNCHANGED vars

(* What all those keep: a read is where its data goes, and a write is with *)
(* the file thread only when it is coded.                                  *)
KeptAside == UNCHANGED <<disk, order, doneBefore>>
KeptWorks == \A w \in Works : /\ SameData(w)
                              /\ work'[w].phase # "none" <=> work[w].phase # "none"
                              /\ Done(w) => Done(w)'
KeptPlaces ==
  /\ \A w \in Works : /\ Fetched(w)' => Fetched(w) \/ ~Reads(w)
                      /\ Decoded(w)' => Decoded(w)
                      /\ Coded(w)' => Coded(w) \/ Reads(w) \/ Plain(w)
  /\ file_thread.at = "write" => file_thread' = file_thread
  /\ file_thread'.at = "read" =>
       \/ file_thread' = file_thread
       \/ file_thread'.work \in Works /\ disk[work[file_thread'.work].path] # None

LEMMA CarryingKeepsWorks ==
  ASSUME FsInv, Carrying
  PROVE  KeptAside /\ KeptWorks
<1>1. work \in [Works -> WorkType] /\ Phases BY DEF FsInv, Typed
<1>2. CASE UNCHANGED <<work, disk, history>>
  BY <1>2 DEF KeptAside, KeptWorks, SameData, Done, history
<1>3. CASE WorkDestroyed
  <2>1. PICK x \in Works : x = client.work BY <1>3, InHand DEF FsInv, WorkDestroyed
  <2>2. work[x].phase # "none" BY <1>1, <1>3, <2>1 DEF WorkDestroyed, Phases
  <2>3. work' = [work EXCEPT ![x].phase = "freed"] BY <1>3, <2>1 DEF WorkDestroyed
  <2>4. /\ work'[x] = [work[x] EXCEPT !.phase = "freed"]
        /\ \A w \in Works : w # x => work'[w] = work[w]
    BY <1>1, <2>3
  <2>5. work[x] \in WorkType BY <1>1
  <2>6. SameData(x) /\ work'[x].phase = "freed" /\ work'[x].done = work[x].done
    BY <2>4, <2>5 DEF SameData, WorkType
  <2>7. KeptWorks BY <2>2, <2>4, <2>6 DEF KeptWorks, SameData, Done
  <2>8. QED BY <1>3, <2>7 DEF KeptAside, WorkDestroyed, history
<1>4. CASE FileSignal \/ CompressionSignal
  <2>1. PICK x \in Works : work' = [work EXCEPT ![x].done = TRUE]
    BY <1>4, InHand DEF FsInv, FileSignal, CompressionSignal
  <2>2. /\ work'[x] = [work[x] EXCEPT !.done = TRUE]
        /\ \A w \in Works : w # x => work'[w] = work[w]
    BY <1>1, <2>1
  <2>3. work[x] \in WorkType BY <1>1
  <2>4. SameData(x) /\ work'[x].phase = work[x].phase /\ work'[x].done = TRUE
    BY <2>2, <2>3 DEF SameData, WorkType
  <2>5. KeptWorks BY <2>2, <2>4 DEF KeptWorks, SameData, Done
  <2>6. QED BY <1>4, <2>5 DEF KeptAside, FileSignal, CompressionSignal, history
<1>5. CASE Carrying /\ ~WorkDestroyed /\ ~FileSignal /\ ~CompressionSignal
  <2>1. CASE Client /\ ~Submit
    BY <1>2, <2>1 DEF Client, WorkWait, WorkDestroy, Wait, FsDestroy
  <2>2. CASE Returning
    BY <1>2, <1>5, <2>2
    DEF Returning, Submitted, Waited, Stopping, StopFileThread, StopCompressionThread,
        JoinFileThread, JoinCompressionThread
  <2>3. CASE FilePop \/ FilePush \/ CompressionPop \/ CompressionPush
    BY <1>2, <2>3 DEF FilePop, FilePush, CompressionPop, CompressionPush
  <2>4. CASE FileOpen BY <1>2, <2>4 DEF FileOpen, FileGoto
  <2>5. CASE Closed \/ UNCHANGED vars BY <1>2, <2>5 DEF Closed, vars
  <2>6. QED BY <1>5, <2>1, <2>2, <2>3, <2>4, <2>5 DEF Carrying
<1>6. QED BY <1>3, <1>4, <1>5

(* Steps of the client, and of one thread at a time. *)
LEMMA ClientKeepsWhere ==
  ASSUME FsInv, Ways, KeptWorks,
         (Client /\ ~Submit) \/ Returning \/ Closed \/ UNCHANGED vars
  PROVE  KeptPlaces
<1>1. \A w \in Works : Done(w)' => Done(w)
  <2>1. work \in [Works -> WorkType] BY DEF FsInv, Typed
  <2>2. CASE WorkDestroyed BY <2>1, <2>2 DEF WorkDestroyed, Done, WorkType
  <2>3. CASE ~WorkDestroyed
    BY <2>3
    DEF Client, WorkWait, WorkDestroy, Wait, FsDestroy, Returning, Submitted, Waited, Stopping,
        StopFileThread, StopCompressionThread, JoinFileThread, JoinCompressionThread, Closed,
        vars, Done
  <2>4. QED BY <2>2, <2>3
<1>2. UNCHANGED <<file_thread, compression_thread>>
  BY DEF Client, WorkWait, WorkDestroy, Wait, FsDestroy, Returning, Submitted, Waited,
         WorkDestroyed, Stopping, StopFileThread, StopCompressionThread, JoinFileThread,
         JoinCompressionThread, Closed, vars, threads
<1>3. \A w \in Works : /\ In(file_queue', w) => In(file_queue, w) \/ Reads(w) \/ Plain(w)
                       /\ In(compression_queue', w) => In(compression_queue, w) \/ ~Reads(w)
  <2>1. /\ file_queue \in Queued /\ compression_queue \in Queued
        /\ \A w \in Works : w # NULL
    BY WorksAssumption DEF FsInv, Typed, QueuesTyped
  <2>2. CASE StopFileThread \/ StopCompressionThread
    <3>1. PushFile(NULL) \/ PushCompression(NULL)
      BY <2>2 DEF StopFileThread, StopCompressionThread
    <3>2. CASE PushFile(NULL) BY <2>1, <3>2, AppendIn DEF PushFile
    <3>3. CASE PushCompression(NULL) BY <2>1, <3>3, AppendIn DEF PushCompression
    <3>4. QED BY <3>1, <3>2, <3>3
  <2>3. CASE Submitted
    <3>1. PICK x \in Works : x = client.work BY <2>3, InHand DEF FsInv, Submitted
    <3>2. CASE client.at = "push file" /\ PushFile(x)
      <4>1. Reads(x) \/ Plain(x) BY <3>1, <3>2 DEF Ways
      <4>2. QED BY <2>1, <3>2, <4>1, AppendIn DEF PushFile
    <3>3. CASE client.at = "push compression" /\ PushCompression(x)
      <4>1. ~Reads(x) BY <3>1, <3>3 DEF Ways
      <4>2. /\ file_queue' = file_queue
            /\ \A v : In(compression_queue', v) <=> In(compression_queue, v) \/ v = x
        BY <2>1, <3>3, AppendIn DEF PushCompression
      <4>3. QED BY <4>1, <4>2
    <3>4. QED BY <2>3, <3>1, <3>2, <3>3 DEF Submitted
  <2>4. CASE ~StopFileThread /\ ~StopCompressionThread /\ ~Submitted
    BY <2>4
    DEF Client, WorkWait, WorkDestroy, Wait, FsDestroy, Returning, Waited, WorkDestroyed,
        Stopping, JoinFileThread, JoinCompressionThread, Closed, vars, queues
  <2>5. QED BY <2>2, <2>3, <2>4
<1>4. QED BY <1>1, <1>2, <1>3 DEF KeptPlaces, Fetched, Decoded, Coded

LEMMA FileThreadKeepsWhere ==
  ASSUME FsInv, Ways, KeptWorks, FilePop \/ FilePush \/ FileSignal \/ FileOpen
  PROVE  KeptPlaces
<1>1. /\ file_queue \in Queued /\ compression_queue \in Queued
      /\ NoRepeat(file_queue) /\ NoRepeat(compression_queue)
      /\ work \in [Works -> WorkType]
  BY DEF FsInv, Typed, QueuesTyped, Places
<1>2. \A w \in Works : w # NULL BY WorksAssumption
<1>3. compression_thread' = compression_thread
  BY DEF FilePop, FilePush, FileSignal, FileOpen, FileGoto
<1>4. CASE FilePop
  <2>1. /\ In(file_queue, Head(file_queue)) /\ compression_queue' = compression_queue
        /\ \A w \in Works : In(file_queue', w) => In(file_queue, w)
    BY <1>1, <1>2, <1>4, TailIn DEF FilePop
  <2>2. file_thread'.at \in {"exited", "open"} /\ file_thread'.work = Head(file_queue)
    BY <1>4, AtFields DEF FilePop
  <2>3. file_thread.at = "pop" /\ \A w \in Works : Done(w)' <=> Done(w)
    BY <1>4 DEF FilePop, Done
  <2>4. QED BY <1>3, <2>1, <2>2, <2>3 DEF KeptPlaces, Fetched, Decoded, Coded
<1>5. CASE FilePush
  <2>1. PICK x \in Works : x = file_thread.work BY <1>5, InHand DEF FsInv, FilePush
  <2>2. /\ file_queue' = file_queue
        /\ \A v : In(compression_queue', v) <=> In(compression_queue, v) \/ v = x
    BY <1>1, <1>5, <2>1, AppendIn DEF FilePush, PushCompression
  <2>3. file_thread'.at = "pop" /\ file_thread'.work = NULL BY <1>5, AtFields DEF FilePush
  <2>4. file_thread.at = "push" /\ \A w \in Works : Done(w)' <=> Done(w)
    BY <1>5 DEF FilePush, Done
  <2>5. QED BY <1>2, <1>3, <2>1, <2>2, <2>3, <2>4 DEF KeptPlaces, Fetched, Decoded, Coded
<1>6. CASE FileSignal
  <2>1. PICK x \in Works : x = file_thread.work BY <1>6, InHand DEF FsInv, FileSignal
  <2>2. UNCHANGED <<file_queue, compression_queue>> /\ file_thread.at = "signal"
    BY <1>6 DEF FileSignal, queues
  <2>3. file_thread'.at = "pop" /\ file_thread'.work = NULL BY <1>6, AtFields DEF FileSignal
  <2>4. \A w \in Works : Done(w)' => Done(w) \/ w = x
    BY <1>1, <1>6, <2>1 DEF FileSignal, Done
  <2>5. QED BY <1>2, <1>3, <2>1, <2>2, <2>3, <2>4 DEF KeptPlaces, Fetched, Decoded, Coded
<1>7. CASE FileOpen
  <2>1. /\ UNCHANGED <<file_queue, compression_queue, work>> /\ file_thread.at = "open"
        /\ disk[work[file_thread.work].path] # None
        /\ file_thread' = At("read", file_thread.work)
    BY <1>7 DEF FileOpen, FileGoto, queues
  <2>2. /\ file_thread'.at = "read" /\ file_thread'.work = file_thread.work
        /\ file_thread.work \in Works
    BY <2>1, AtFields, InHand DEF FsInv
  <2>3. \A w \in Works : Done(w)' <=> Done(w) BY <2>1 DEF Done
  <2>4. QED BY <1>3, <2>1, <2>2, <2>3 DEF KeptPlaces, Fetched, Decoded, Coded
<1>8. QED BY <1>4, <1>5, <1>6, <1>7

LEMMA CompressionThreadKeepsWhere ==
  ASSUME FsInv, Ways, KeptWorks, CompressionPop \/ CompressionPush \/ CompressionSignal
  PROVE  KeptPlaces
<1>1. /\ file_queue \in Queued /\ compression_queue \in Queued
      /\ NoRepeat(file_queue) /\ NoRepeat(compression_queue)
      /\ work \in [Works -> WorkType]
  BY DEF FsInv, Typed, QueuesTyped, Places
<1>2. \A w \in Works : w # NULL BY WorksAssumption
<1>3. file_thread' = file_thread BY DEF CompressionPop, CompressionPush, CompressionSignal
<1>4. CASE CompressionPop
  <2>1. /\ In(compression_queue, Head(compression_queue)) /\ file_queue' = file_queue
        /\ \A w \in Works : In(compression_queue', w) => In(compression_queue, w)
    BY <1>1, <1>2, <1>4, TailIn DEF CompressionPop
  <2>2. /\ compression_thread'.at \in {"exited", "code"}
        /\ compression_thread'.work = Head(compression_queue)
    BY <1>4, AtFields DEF CompressionPop
  <2>3. \A w \in Works : Done(w)' <=> Done(w) BY <1>4 DEF CompressionPop, Done
  <2>4. QED BY <1>3, <2>1, <2>2, <2>3 DEF KeptPlaces, Fetched, Decoded, Coded
<1>5. CASE CompressionPush
  <2>1. PICK x \in Works : x = compression_thread.work
    BY <1>5, InHand DEF FsInv, CompressionPush
  <2>2. /\ compression_queue' = compression_queue
        /\ \A v : In(file_queue', v) <=> In(file_queue, v) \/ v = x
    BY <1>1, <1>5, <2>1, AppendIn DEF CompressionPush, PushFile
  <2>3. compression_thread'.at = "pop" /\ compression_thread'.work = NULL
    BY <1>5, AtFields DEF CompressionPush
  <2>4. compression_thread.at = "push" /\ \A w \in Works : Done(w)' <=> Done(w)
    BY <1>5 DEF CompressionPush, Done
  <2>5. QED BY <1>2, <1>3, <2>1, <2>2, <2>3, <2>4 DEF KeptPlaces, Fetched, Decoded, Coded
<1>6. CASE CompressionSignal
  <2>1. PICK x \in Works : x = compression_thread.work
    BY <1>6, InHand DEF FsInv, CompressionSignal
  <2>2. UNCHANGED <<file_queue, compression_queue>> /\ compression_thread.at = "signal"
    BY <1>6 DEF CompressionSignal, queues
  <2>3. compression_thread'.at = "pop" /\ compression_thread'.work = NULL
    BY <1>6, AtFields DEF CompressionSignal
  <2>4. \A w \in Works : Done(w)' => Done(w) \/ w = x
    BY <1>1, <1>6, <2>1 DEF CompressionSignal, Done
  <2>5. QED BY <1>2, <1>3, <2>1, <2>2, <2>3, <2>4 DEF KeptPlaces, Fetched, Decoded, Coded
<1>7. QED BY <1>4, <1>5, <1>6

LEMMA CarryingKeeps ==
  ASSUME FsInv, Ways, Carrying
  PROVE  KeptAside /\ KeptWorks /\ KeptPlaces
BY CarryingKeepsWorks, ClientKeepsWhere, FileThreadKeepsWhere, CompressionThreadKeepsWhere
DEF Carrying

-----------------------------------------------------------------------------
(* Stale data.  Once write d is in the file, the file holds the data of    *)
(* some write that was not complete when d was submitted; and so does the  *)
(* buffer of a read that d precedes.                                       *)
Past(r)        == Fetched(r) \/ Decoded(r)
Written(d)     == ~Reads(d) /\ work[d].result = 0 /\ Decoded(d)
FreshFor(d, c) == c[2] \in Works \ doneBefore[d]

DoneFirst == \A v, w \in Works : v \in doneBefore[w] => Done(v)
OwnBuffer == \A w \in Works : ~Reads(w) => work[w].buffer[2] = w
DiskFresh == \A d \in Works : Written(d) => FreshFor(d, disk[work[d].path])
ReadFresh == \A r, d \in Works :
               /\ Reads(r) /\ work[r].result = 0 /\ Past(r)
               /\ Written(d) /\ work[r].path = work[d].path /\ Precedes(d, r)
               => FreshFor(d, work[r].buffer)

Fresh == DoneFirst /\ OwnBuffer /\ DiskFresh /\ ReadFresh

LEMMA InitFresh == Init => Fresh
<1> SUFFICES ASSUME Init PROVE Fresh OBVIOUS
<1>1. \A w : ~In(<<>>, w) BY DEF In
<1>2. \A w \in Works : w # NULL BY WorksAssumption
<1>3. \A w \in Works : Reads(w) /\ ~Past(w)
  BY <1>1, <1>2 DEF Init, Reads, Past, Fetched, Decoded, Done, At
<1>4. \A w \in Works : doneBefore[w] = {} BY DEF Init
<1>5. QED
  BY <1>3, <1>4 DEF Fresh, DoneFirst, OwnBuffer, DiskFresh, ReadFresh, Written

(* What precedes a read whose data has been fetched is complete: a plain   *)
(* write is done before the file thread turns to a later plain read.       *)
LEMMA PrecedesIsDone ==
  ASSUME FsInv, OrderInv, DoneFirst, NEW r \in Works, NEW d \in Works, Precedes(d, r), Past(r)
  PROVE  Done(d)
<1>1. CASE d \in doneBefore[r] BY <1>1 DEF DoneFirst
<1>2. CASE Plain(d) /\ Plain(r) /\ Before(d, r)
  <2>1. SUFFICES ASSUME ~Done(d) PROVE FALSE OBVIOUS
  <2>2. Ahead(order, d, r) BY <1>2 DEF Before, Ahead
  <2>3. ~Done(r) /\ file_thread.work # r BY <1>2, <2>1, <2>2 DEF OrderInv, PlainOrder
  <2>4. ~In(compression_queue, r) /\ compression_thread.work # r
    BY <1>2 DEF OrderInv, PlainPlaces
  <2>5. QED BY <2>3, <2>4 DEF Past, Fetched, Decoded
<1>3. QED BY <1>1, <1>2 DEF Precedes

(* Steps that write nothing and read nothing. *)
LEMMA QuietFresh ==
  ASSUME Fresh, UNCHANGED <<disk, order, doneBefore>>,
         \A w \in Works :
           /\ work'[w].op = work[w].op /\ work'[w].path = work[w].path
           /\ work'[w].use_compression = work[w].use_compression
           /\ Done(w) => Done(w)'
           /\ Written(w)' => Written(w)
           /\ ~Reads(w) => work'[w].buffer[2] = work[w].buffer[2]
           /\ Reads(w) /\ work'[w].result = 0 /\ Past(w)' =>
                work[w].result = 0 /\ Past(w) /\ work'[w].buffer[2] = work[w].buffer[2]
  PROVE  Fresh'
<1>1. \A w \in Works : (Reads(w)' <=> Reads(w)) /\ (Plain(w)' <=> Plain(w))
  BY DEF Reads, Plain
<1>2. \A d, r \in Works : Precedes(d, r)' <=> Precedes(d, r) BY <1>1 DEF Precedes, Before
<1>4. DoneFirst' BY DEF Fresh, DoneFirst
<1>5. OwnBuffer' BY <1>1 DEF Fresh, OwnBuffer
<1>6. DiskFresh' BY DEF Fresh, DiskFresh, FreshFor
<1>7. ReadFresh'
  <2>1. SUFFICES ASSUME NEW r \in Works, NEW d \in Works,
                        Reads(r)', work'[r].result = 0, Past(r)', Written(d)',
                        work'[r].path = work'[d].path, Precedes(d, r)'
                 PROVE  work'[r].buffer[2] \in Works \ doneBefore'[d]
    BY DEF ReadFresh, FreshFor
  <2>2. /\ Reads(r) /\ work[r].result = 0 /\ Past(r) /\ Written(d) /\ Precedes(d, r)
        /\ work[r].path = work[d].path
    BY <1>1, <1>2, <2>1
  <2>3. work'[r].buffer[2] = work[r].buffer[2] BY <2>1, <2>2
  <2>4. work[r].buffer[2] \in Works \ doneBefore[d] BY <2>2 DEF Fresh, ReadFresh, FreshFor
  <2>5. QED BY <2>3, <2>4
<1>8. QED BY <1>4, <1>5, <1>6, <1>7 DEF Fresh

LEMMA CarryingFresh ==
  ASSUME FsInv, Ways, Fresh, Carrying
  PROVE  Fresh'
<1>1. KeptAside /\ KeptWorks /\ KeptPlaces BY CarryingKeeps
<1>2. \A w \in Works : Reads(w)' <=> Reads(w) BY <1>1 DEF KeptWorks, SameData, Reads
<1>3. \A w \in Works : Written(w)' => Written(w)
  BY <1>1, <1>2 DEF KeptWorks, KeptPlaces, SameData, Written
<1>4. \A w \in Works : Reads(w) /\ Past(w)' => Past(w) BY <1>1 DEF KeptPlaces, Past
<1>5. QED BY <1>1, <1>3, <1>4, QuietFresh DEF KeptAside, KeptWorks, SameData

(* A new work is nowhere yet. *)
LEMMA SubmitFresh ==
  ASSUME FsInv, Fresh, Submit
  PROVE  Fresh'
<1>1. PICK x \in Works, p \in Paths, z \in Modes :
        \/ \E h \in Heaps : FsRead(x, p, z, h)
        \/ FsWrite(x, p, z)
  BY DEF Submit
<1>2. PICK op \in {"read", "write"}, h \in Heaps \cup {FsHeap} : Create(x, op, p, z, h)
  BY <1>1 DEF FsRead, FsWrite
<1>3. work \in [Works -> WorkType] /\ order \in Queued /\ doneBefore \in [Works -> SUBSET Works]
  BY DEF FsInv, Typed, RestTyped, Queued
<1>4. /\ UNCHANGED <<file_queue, compression_queue, file_thread, compression_thread, disk>>
      /\ work[x].phase = "none"
      /\ work'[x].op = op /\ ~work'[x].done
      /\ op = "write" => work'[x].buffer = <<"raw", x>>
      /\ \A w \in Works : w # x => work'[w] = work[w]
      /\ order' = Append(order, x)
      /\ doneBefore'[x] = {v \in Works : Done(v)}
      /\ \A w \in Works : w # x => doneBefore'[w] = doneBefore[w]
  BY <1>2, <1>3 DEF Create, queues, threads
<1>5. ~Done(x) /\ ~Held(x) BY <1>4 DEF FsInv, Phases, Places, Outstanding, Live
<1>6. \A w \in Works : w # x => /\ Reads(w)' <=> Reads(w)
                                /\ Plain(w)' <=> Plain(w)
                                /\ Done(w)' <=> Done(w)
  BY <1>4 DEF Reads, Plain, Done
<1>7. \A w \in Works : w # x => /\ Past(w)' <=> Past(w)
                                /\ Written(w)' <=> Written(w)
  BY <1>4, <1>6 DEF Past, Written, Fetched, Decoded
<1>8. ~Past(x)' /\ ~Written(x)'
  BY <1>4, <1>5 DEF Past, Written, Fetched, Decoded, Held, Done
<1>9. \A d, r \in Works : d # x /\ r # x => (Precedes(d, r)' <=> Precedes(d, r))
  <2>1. ASSUME NEW d \in Works, NEW r \in Works, d # x, r # x
        PROVE  Precedes(d, r)' <=> Precedes(d, r)
    <3>1. Ahead(order', d, r) <=> Ahead(order, d, r) BY <1>3, <1>4, <2>1, AheadAppend
    <3>2. Before(d, r)' <=> Before(d, r) BY <3>1 DEF Before, Ahead
    <3>3. QED BY <1>4, <1>6, <2>1, <3>2 DEF Precedes
  <2>2. QED BY <2>1
<1>10. DoneFirst'
  <2>1. ASSUME NEW v \in Works, NEW w \in Works, v \in doneBefore'[w] PROVE Done(v)'
    <3>1. Done(v) BY <1>4, <2>1 DEF Fresh, DoneFirst
    <3>2. QED BY <1>5, <1>6, <3>1
  <2>2. QED BY <2>1 DEF DoneFirst
<1>11. OwnBuffer' BY <1>4, <1>6 DEF Fresh, OwnBuffer, Reads
<1>12. DiskFresh' BY <1>4, <1>7, <1>8 DEF Fresh, DiskFresh, FreshFor
<1>13. ReadFresh'
  <2>1. SUFFICES ASSUME NEW r \in Works, NEW d \in Works,
                        Reads(r)', work'[r].result = 0, Past(r)', Written(d)',
                        work'[r].path = work'[d].path, Precedes(d, r)'
                 PROVE  work'[r].buffer[2] \in Works \ doneBefore'[d]
    BY DEF ReadFresh, FreshFor
  <2>2. r # x /\ d # x BY <1>8, <2>1
  <2>3. /\ Reads(r) /\ Past(r) /\ Written(d) /\ Precedes(d, r)
        /\ work'[r] = work[r] /\ work'[d] = work[d] /\ doneBefore'[d] = doneBefore[d]
    BY <1>4, <1>6, <1>7, <1>9, <2>1, <2>2
  <2>4. QED BY <2>1, <2>3 DEF Fresh, ReadFresh, FreshFor
<1>14. QED BY <1>10, <1>11, <1>12, <1>13 DEF Fresh

(* A step inside file_read or file_write on x: the others are where they   *)
(* were.                                                                   *)
FileStep(x, from, to) ==
  /\ x = file_thread.work /\ file_thread.at = from
  /\ file_thread'.at = to /\ file_thread'.work = x
  /\ Outstanding(x) /\ UNCHANGED <<order, doneBefore>>
  /\ \A w \in Works : /\ Reads(w)' <=> Reads(w)
                      /\ Plain(w)' <=> Plain(w)
                      /\ Done(w)' <=> Done(w)
                      /\ work'[w].path = work[w].path
                      /\ work'[w].phase = work[w].phase
                      /\ Coded(w)' <=> Coded(w)
                      /\ w # x => (Fetched(w)' <=> Fetched(w))
                      /\ w # x => (Decoded(w)' <=> Decoded(w))
  /\ ~In(compression_queue, x) /\ compression_thread.work # x
  /\ Fetched(x)' <=> to = "push"
  /\ Decoded(x)' <=> to = "signal"

LEMMA FileStepPlaces ==
  ASSUME FsInv, NEW from, NEW to, FileGoto(from, to), from \notin {"pop", "exited"},
         FileThread, Inside
  PROVE  \E x \in Works : FileStep(x, from, to)
<1>1. work \in [Works -> WorkType] BY DEF FsInv, Typed
<1>2. PICK x \in Works : x = file_thread.work BY InHand DEF FsInv, FileGoto
<1>3. /\ file_thread.at = from /\ file_thread'.at = to /\ file_thread'.work = x
      /\ UNCHANGED <<file_queue, compression_queue, compression_thread, order, doneBefore>>
  BY <1>2, AtFields DEF FileGoto, queues, history
<1>4. Held(x) BY <1>2 DEF Held
<1>5. Outstanding(x) /\ ~In(compression_queue, x) /\ compression_thread.work # x
  BY <1>2, <1>4 DEF FsInv, Places
<1>6. \A w \in Works : /\ Reads(w)' <=> Reads(w)
                       /\ Plain(w)' <=> Plain(w)
                       /\ Done(w)' <=> Done(w)
                       /\ work'[w].path = work[w].path
                       /\ work'[w].phase = work[w].phase
  BY <1>1, ThreadsKeep DEF Reads, Plain, Done
<1>7. \A w \in Works : /\ Coded(w)' <=> Coded(w)
                       /\ w # x => (Fetched(w)' <=> Fetched(w)) /\ (Decoded(w)' <=> Decoded(w))
  BY <1>2, <1>3, <1>6 DEF Fetched, Decoded, Coded
<1>8. ~Done(x)' BY <1>5, <1>6 DEF Outstanding
<1>9. (Fetched(x)' <=> to = "push") /\ (Decoded(x)' <=> to = "signal")
  BY <1>3, <1>5, <1>8 DEF Fetched, Decoded
<1>10. QED BY <1>2, <1>3, <1>5, <1>6, <1>7, <1>9 DEF FileStep

(* The file is emptied, or written: what it holds is of a write that is    *)
(* not complete.                                                           *)
LEMMA FileWriteFresh ==
  ASSUME FsInv, OrderInv, Ways, Fresh, FileCreate \/ FileWrite
  PROVE  Fresh'
<1>1. PICK from \in {"open", "write"}, to \in {"write", "signal"} : FileGoto(from, to)
  BY DEF FileCreate, FileWrite
<1>2. FileThread /\ Inside BY DEF FileThread, Inside
<1>3. PICK x \in Works : FileStep(x, from, to) BY <1>1, <1>2, FileStepPlaces
<1> USE DEF FileStep
<1>4. ~Reads(x)
  <2>1. CASE FileCreate BY <1>3, <2>1 DEF FileCreate, Reads
  <2>2. CASE FileWrite BY <1>3, <2>2 DEF FileWrite, FileGoto, Ways
  <2>3. QED BY <2>1, <2>2
<1>5. disk \in [Paths -> Content] /\ work \in [Works -> WorkType]
  BY DEF FsInv, Typed, RestTyped
<1>6. PICK c : disk' = [disk EXCEPT ![work[x].path] = c] /\ c[2] = x
  <2>1. CASE FileCreate
    <3>1. disk' = [disk EXCEPT ![work[x].path] = <<"empty", x>>]
      BY <1>3, <2>1 DEF FileCreate
    <3>2. <<"empty", x>>[2] = x OBVIOUS
    <3>3. QED BY <3>1, <3>2
  <2>2. CASE FileWrite
    <3>1. disk' = [disk EXCEPT ![work[x].path] = work[x].buffer]
      BY <1>3, <2>2 DEF FileWrite
    <3>2. work[x].buffer[2] = x BY <1>4 DEF Fresh, OwnBuffer
    <3>3. QED BY <3>1, <3>2
  <2>3. QED BY <2>1, <2>2
<1>7. work' = work BY DEF FileCreate, FileWrite
<1>8. \A d \in Works : x \notin doneBefore[d]
  BY <1>3 DEF Fresh, DoneFirst, Outstanding
<1>9. \A d \in Works : d # x => (Written(d)' <=> Written(d)) BY <1>3, <1>7 DEF Written
<1>10. \A r \in Works : Reads(r) => (Past(r)' <=> Past(r)) BY <1>3, <1>4 DEF Past
<1>11. \A d, r \in Works : Precedes(d, r)' <=> Precedes(d, r)
  BY <1>3 DEF Precedes, Before
<1>12. DoneFirst' BY <1>3 DEF Fresh, DoneFirst
<1>13. OwnBuffer' BY <1>3, <1>7 DEF Fresh, OwnBuffer
<1>14. DiskFresh'
  <2>1. SUFFICES ASSUME NEW d \in Works, Written(d)'
                 PROVE  disk'[work[d].path][2] \in Works \ doneBefore[d]
    BY <1>3, <1>7 DEF DiskFresh, FreshFor
  <2>2. work[d].path \in Paths BY <1>5 DEF WorkType
  <2>3. CASE work[d].path = work[x].path
    <3>1. disk'[work[d].path] = c BY <1>5, <1>6, <2>2, <2>3
    <3>2. QED BY <1>6, <1>8, <3>1
  <2>4. CASE work[d].path # work[x].path
    <3>1. disk'[work[d].path] = disk[work[d].path] BY <1>5, <1>6, <2>2, <2>4
    <3>2. Written(d) BY <1>9, <2>1, <2>4
    <3>3. QED BY <3>1, <3>2 DEF Fresh, DiskFresh, FreshFor
  <2>5. QED BY <2>3, <2>4
<1>15. ReadFresh'
  <2>1. SUFFICES ASSUME NEW r \in Works, NEW d \in Works,
                        Reads(r)', work'[r].result = 0, Past(r)', Written(d)',
                        work'[r].path = work'[d].path, Precedes(d, r)'
                 PROVE  work'[r].buffer[2] \in Works \ doneBefore'[d]
    BY DEF ReadFresh, FreshFor
  <2>2. Reads(r) /\ Past(r) /\ Precedes(d, r) BY <1>3, <1>10, <1>11, <2>1
  <2>3. d # x
    <3>1. Done(d) BY <2>2, PrecedesIsDone DEF Fresh
    <3>2. QED BY <1>3, <3>1 DEF Outstanding
  <2>4. Written(d) BY <1>9, <2>1, <2>3
  <2>5. QED BY <1>3, <1>7, <2>1, <2>2, <2>4 DEF Fresh, ReadFresh, FreshFor
<1>16. QED BY <1>12, <1>13, <1>14, <1>15 DEF Fresh

(* What fails has a result that says so. *)
LEMMA FailsFresh ==
  ASSUME FsInv, Ways, Fresh, FileOpenFails \/ FileWriteFails \/ FileReadFails
  PROVE  Fresh'
<1>1. PICK from \in {"open", "write", "read"} : FileGoto(from, "signal")
  BY DEF FileOpenFails, FileWriteFails, FileReadFails
<1>2. FileThread /\ Inside BY DEF FileThread, Inside
<1>3. PICK x \in Works : FileStep(x, from, "signal") BY <1>1, <1>2, FileStepPlaces
<1> USE DEF FileStep
<1>4. work \in [Works -> WorkType] BY DEF FsInv, Typed
<1>5. /\ work'[x].result = -1 /\ disk' = disk
      /\ ~Reads(x) => work'[x].buffer = work[x].buffer
      /\ \A w \in Works : w # x => work'[w] = work[w]
  <2>1. CASE FileOpenFails BY <1>3, <1>4, <2>1 DEF FileOpenFails, WorkType
  <2>2. CASE FileWriteFails BY <1>3, <1>4, <2>2 DEF FileWriteFails, WorkType
  <2>3. CASE FileReadFails
    <3>1. Reads(x) BY <1>3, <2>3 DEF FileReadFails, FileGoto, Ways
    <3>2. QED BY <1>3, <1>4, <2>3, <3>1 DEF FileReadFails, WorkType
  <2>4. QED BY <2>1, <2>2, <2>3
<1>6. \A w \in Works : work'[w].op = work[w].op /\ work'[w].path = work[w].path
                       /\ work'[w].use_compression = work[w].use_compression
  BY <1>2, <1>4, ThreadsKeep
<1>7. \A w \in Works : Written(w)' => Written(w) BY <1>3, <1>5 DEF Written
<1>8. \A w \in Works : Reads(w) /\ work'[w].result = 0 /\ Past(w)' =>
                         /\ work[w].result = 0 /\ Past(w)
                         /\ work'[w].buffer[2] = work[w].buffer[2]
  BY <1>3, <1>5 DEF Past
<1>9. \A w \in Works : ~Reads(w) => work'[w].buffer[2] = work[w].buffer[2] BY <1>5
<1>10. \A w \in Works : Done(w) => Done(w)' BY <1>3
<1>11. QED BY <1>3, <1>5, <1>6, <1>7, <1>8, <1>9, <1>10, QuietFresh

(* A read takes what the file holds. *)
LEMMA FileReadFresh ==
  ASSUME FsInv, Ways, Fresh, FileRead
  PROVE  Fresh'
<1>1. PICK to \in {"push", "signal"} : FileGoto("read", to) BY DEF FileRead
<1>2. FileThread /\ Inside BY DEF FileThread, Inside
<1>3. PICK x \in Works : FileStep(x, "read", to) BY <1>1, <1>2, FileStepPlaces
<1> USE DEF FileStep
<1>4. work \in [Works -> WorkType] BY DEF FsInv, Typed
<1>5. /\ disk' = disk /\ Reads(x)
      /\ work'[x].buffer = disk[work[x].path]
      /\ \A w \in Works : w # x => work'[w] = work[w]
  <2>1. Reads(x) BY <1>3 DEF Ways
  <2>2. QED BY <1>3, <1>4, <2>1 DEF FileRead, WorkType
<1>6. \A w \in Works : Written(w)' <=> Written(w) BY <1>3, <1>5 DEF Written
<1>7. \A d, r \in Works : Precedes(d, r)' <=> Precedes(d, r) BY <1>3 DEF Precedes, Before
<1>8. DoneFirst' BY <1>3 DEF Fresh, DoneFirst
<1>9. OwnBuffer' BY <1>3, <1>5 DEF Fresh, OwnBuffer
<1>10. DiskFresh' BY <1>3, <1>5, <1>6 DEF Fresh, DiskFresh, FreshFor
<1>11. ReadFresh'
  <2>1. SUFFICES ASSUME NEW r \in Works, NEW d \in Works,
                        Reads(r)', work'[r].result = 0, Past(r)', Written(d)',
                        work'[r].path = work'[d].path, Precedes(d, r)'
                 PROVE  work'[r].buffer[2] \in Works \ doneBefore[d]
    BY <1>3 DEF ReadFresh, FreshFor
  <2>2. Written(d) /\ Precedes(d, r) /\ work[r].path = work[d].path
    BY <1>3, <1>6, <1>7, <2>1
  <2>3. CASE r = x BY <1>5, <2>2, <2>3 DEF Fresh, DiskFresh, FreshFor
  <2>4. CASE r # x
    <3>1. Reads(r) /\ Past(r) /\ work'[r] = work[r] BY <1>3, <1>5, <2>1, <2>4 DEF Past
    <3>2. QED BY <2>1, <2>2, <3>1 DEF Fresh, ReadFresh, FreshFor
  <2>5. QED BY <2>3, <2>4
<1>12. QED BY <1>8, <1>9, <1>10, <1>11 DEF Fresh

(* A step of the compression thread on the work in hand. *)
CodeStep(x) ==
  /\ x = compression_thread.work /\ compression_thread.at = "code"
  /\ Outstanding(x) /\ UNCHANGED <<disk, order, doneBefore, file_thread>>
  /\ compression_thread'.work = x /\ compression_thread'.at \in {"signal", "push"}
  /\ \A w \in Works : /\ Reads(w)' <=> Reads(w)
                      /\ Plain(w)' <=> Plain(w)
                      /\ Done(w)' <=> Done(w)
                      /\ work'[w].path = work[w].path
                      /\ work'[w].phase = work[w].phase
                      /\ work'[w].result = work[w].result
                      /\ w # x => /\ work'[w] = work[w]
                                  /\ Coded(w)' <=> Coded(w)
                                  /\ Fetched(w)' <=> Fetched(w)
                                  /\ Decoded(w)' <=> Decoded(w)
  /\ Fetched(x) /\ ~Fetched(x)' /\ ~Coded(x)
  /\ Coded(x)' => compression_thread'.at = "push"
  /\ Decompress => /\ Reads(x) /\ compression_thread'.at = "signal"
                   /\ work'[x].buffer = Decompressed(work[x].buffer)
  /\ Compress => /\ ~Reads(x) /\ compression_thread'.at = "push"
                 /\ work'[x].buffer = <<"lz4", work[x].buffer[2]>>

LEMMA CodeStepPlaces ==
  ASSUME FsInv, Decompress \/ Compress
  PROVE  \E x \in Works : CodeStep(x)
<1>1. work \in [Works -> WorkType] BY DEF FsInv, Typed
<1>2. PICK x \in Works : x = compression_thread.work
  BY InHand DEF FsInv, Decompress, Compress
<1>3. compression_thread.at = "code" BY DEF Decompress, Compress
<1>4. UNCHANGED <<file_queue, compression_queue, file_thread, disk, order, doneBefore>>
  BY DEF Decompress, Compress, queues, history
<1>5. Held(x) BY <1>2 DEF Held
<1>6. Outstanding(x) /\ ~In(compression_queue, x) /\ file_thread.work # x /\ ~In(file_queue, x)
  BY <1>2, <1>5 DEF FsInv, Places
<1>7. \A w \in Works : /\ Reads(w)' <=> Reads(w)
                       /\ Plain(w)' <=> Plain(w)
                       /\ Done(w)' <=> Done(w)
                       /\ work'[w].path = work[w].path
                       /\ work'[w].phase = work[w].phase
  BY <1>1, ThreadsKeep DEF Inside, CompressionThread, Reads, Plain, Done
<1>8. /\ \A w \in Works : w # x => work'[w] = work[w]
      /\ work'[x].result = work[x].result
  <2>1. work[x] \in WorkType BY <1>1
  <2>2. PICK b : work' = [work EXCEPT ![x].buffer = b] BY <1>2 DEF Decompress, Compress
  <2>3. work'[x] = [work[x] EXCEPT !.buffer = b] BY <1>1, <2>2
  <2>4. QED BY <1>1, <2>1, <2>2, <2>3 DEF WorkType
<1>9. Decompress => /\ Reads(x) /\ compression_thread'.at = "signal"
                    /\ compression_thread'.work = x
                    /\ work'[x].buffer = Decompressed(work[x].buffer)
  <2>1. SUFFICES ASSUME Decompress
                 PROVE  /\ Reads(x) /\ compression_thread'.at = "signal"
                        /\ compression_thread'.work = x
                        /\ work'[x].buffer = Decompressed(work[x].buffer)
    OBVIOUS
  <2>2. compression_thread' = At("signal", x) /\ Reads(x) BY <1>2, <2>1 DEF Decompress, Reads
  <2>3. work[x] \in WorkType BY <1>1
  <2>4. work'[x] = [work[x] EXCEPT !.buffer = Decompressed(work[x].buffer)]
    BY <1>1, <1>2, <2>1 DEF Decompress
  <2>5. work'[x].buffer = Decompressed(work[x].buffer) BY <2>3, <2>4 DEF WorkType
  <2>6. QED BY <2>2, <2>5, AtFields
<1>10. Compress => /\ ~Reads(x) /\ compression_thread'.at = "push"
                   /\ compression_thread'.work = x
                   /\ work'[x].buffer = <<"lz4", work[x].buffer[2]>>
  <2>1. SUFFICES ASSUME Compress
                 PROVE  /\ ~Reads(x) /\ compression_thread'.at = "push"
                        /\ compression_thread'.work = x
                        /\ work'[x].buffer = <<"lz4", work[x].buffer[2]>>
    OBVIOUS
  <2>2. compression_thread' = At("push", x) /\ ~Reads(x) BY <1>2, <2>1 DEF Compress, Reads
  <2>3. work[x] \in WorkType BY <1>1
  <2>4. work'[x] = [work[x] EXCEPT !.buffer = <<"lz4", work[x].buffer[2]>>]
    BY <1>1, <1>2, <2>1 DEF Compress
  <2>5. work'[x].buffer = <<"lz4", work[x].buffer[2]>> BY <2>3, <2>4 DEF WorkType
  <2>6. QED BY <2>2, <2>5, AtFields
<1>11. compression_thread'.work = x /\ compression_thread'.at \in {"signal", "push"}
  BY <1>9, <1>10
<1>12. \A w \in Works : w # x => /\ Coded(w)' <=> Coded(w)
                                 /\ Fetched(w)' <=> Fetched(w)
                                 /\ Decoded(w)' <=> Decoded(w)
  BY <1>2, <1>4, <1>7, <1>11 DEF Coded, Fetched, Decoded
<1>13. /\ Fetched(x) /\ ~Fetched(x)' /\ ~Coded(x)
       /\ Coded(x)' => compression_thread'.at = "push"
  BY <1>2, <1>3, <1>4, <1>6, <1>11 DEF Coded, Fetched
<1>14. QED
  BY <1>2, <1>3, <1>4, <1>6, <1>7, <1>8, <1>9, <1>10, <1>11, <1>12, <1>13 DEF CodeStep

(* Coding changes no data. *)
LEMMA CodeFresh ==
  ASSUME FsInv, Fresh, Decompress \/ Compress
  PROVE  Fresh'
<1>1. PICK x \in Works : CodeStep(x) BY CodeStepPlaces
<1> USE DEF CodeStep
<1>2. work \in [Works -> WorkType] BY DEF FsInv, Typed
<1>3. \A w \in Works : work'[w].op = work[w].op
                       /\ work'[w].use_compression = work[w].use_compression
  BY <1>2, ThreadsKeep DEF CompressionThread
<1>4. work'[x].buffer[2] = work[x].buffer[2] BY <1>1 DEF Decompressed
<1>5. \A w \in Works : work'[w].buffer[2] = work[w].buffer[2] BY <1>1, <1>4
<1>6. ~Reads(x) => ~Decoded(x)'
  <2>1. SUFFICES ASSUME ~Reads(x) PROVE ~Decoded(x)' OBVIOUS
  <2>2. compression_thread'.at = "push" /\ ~Done(x)' BY <1>1, <2>1 DEF Outstanding
  <2>3. file_thread'.work # x BY <1>1 DEF Coded
  <2>4. QED BY <2>2, <2>3 DEF Decoded
<1>7. \A w \in Works : Written(w)' => Written(w) BY <1>1, <1>6 DEF Written
<1>8. \A w \in Works : Past(w)' => Past(w) BY <1>1 DEF Past
<1>9. QED BY <1>1, <1>3, <1>5, <1>7, <1>8, QuietFresh

LEMMA StepFresh == FsInv /\ OrderInv /\ Ways /\ Fresh /\ [Next]_vars => Fresh'
<1> SUFFICES ASSUME FsInv, OrderInv, Ways, Fresh, [Next]_vars PROVE Fresh' OBVIOUS
<1>1. CASE Submit BY <1>1, SubmitFresh
<1>2. CASE Carrying BY <1>2, CarryingFresh
<1>3. CASE Inside /\ ~FileOpen
  BY <1>3, FileWriteFresh, FailsFresh, FileReadFresh, CodeFresh DEF Inside
<1>4. QED
  BY <1>1, <1>2, <1>3 DEF Next, Carrying, Client, FileThread, CompressionThread, Inside

(* A read never returns what was overwritten before it was submitted: by a *)
(* write that had completed, or, both being plain, by a write submitted    *)
(* first and perhaps still queued.                                         *)
THEOREM NoReadIsStale == Spec => []NoStaleRead
<1>1. Fresh => NoStaleRead
  BY DEF Fresh, ReadFresh, FreshFor, NoStaleRead, Written, Past, Decoded, Reads, Succeeded, FsInv,
         Typed, WorkType
<1>2. Spec => []OrderInv BY StepOrder, InitOrder, FsInvHolds, PTL DEF Spec
<1>3. Spec => []Ways BY StepWays, InitWays, FsInvHolds, PTL DEF Spec
<1>4. Spec => []Fresh BY <1>2, <1>3, StepFresh, InitFresh, FsInvHolds, PTL DEF Spec
<1>5. QED BY <1>1, <1>4, PTL

-----------------------------------------------------------------------------
(* What is read back, when every call uses compression.  A file holds what *)
(* an earlier run or a write of this one left in it: its data, coded, or   *)
(* nothing if the write failed after the file was emptied.                 *)
OfWrite(c, p) == \E w \in Works :
                   /\ work[w].phase # "none" /\ ~Reads(w) /\ work[w].path = p
                   /\ c = <<"lz4", w>> \/ (c = <<"empty", w>> /\ work[w].result # 0)
Good(c, p)      == c = Earlier \/ OfWrite(c, p)
BeingWritten(p) == /\ file_thread.at = "write" /\ work[file_thread.work].path = p
                   /\ disk[p] = <<"empty", file_thread.work>>

Compressing == \A w \in Works : work[w].phase # "none" => ~Plain(w)
WriteCoded  == \A w \in Works : ~Reads(w) /\ Coded(w) => work[w].buffer = <<"lz4", w>>
Opened      == file_thread.at = "read" => disk[work[file_thread.work].path] # None
DiskCoded   == \A p \in Paths : disk[p] = None \/ Good(disk[p], p) \/ BeingWritten(p)
ReadCoded   ==
  \A r \in Works : Reads(r) /\ work[r].result = 0 =>
    /\ Fetched(r) => Good(work[r].buffer, work[r].path)
    /\ Decoded(r) => \E c \in Content : /\ work[r].buffer = Decompressed(c)
                                        /\ Good(c, work[r].path)

Contents == Compressing /\ WriteCoded /\ Opened /\ DiskCoded /\ ReadCoded

LEMMA InitContents == Init => Contents
<1> SUFFICES ASSUME Init PROVE Contents OBVIOUS
<1>1. \A w : ~In(<<>>, w) BY DEF In
<1>2. \A w \in Works : w # NULL BY WorksAssumption
<1>3. \A w \in Works : Reads(w) /\ ~Fetched(w) /\ ~Decoded(w) /\ work[w].phase = "none"
  BY <1>1, <1>2 DEF Init, Reads, Fetched, Decoded, Done, At
<1>4. \A p \in Paths : disk[p] = None \/ disk[p] = Earlier BY DEF Init
<1>5. file_thread.at = "pop" BY DEF Init, At
<1>6. QED
  BY <1>3, <1>4, <1>5
  DEF Contents, Compressing, WriteCoded, Opened, DiskCoded, ReadCoded, Good

(* Steps that leave a work's call, and a failure, as they are. *)
Settled == \A w \in Works : work[w].phase # "none" =>
             /\ work'[w].phase # "none" /\ work'[w].path = work[w].path
             /\ Reads(w)' <=> Reads(w)
             /\ work[w].result # 0 => work'[w].result # 0

LEMMA GoodStays ==
  ASSUME Settled
  PROVE  \A c, p : Good(c, p) => Good(c, p)'
<1> SUFFICES ASSUME NEW c, NEW p, Good(c, p) PROVE Good(c, p)' OBVIOUS
<1>1. CASE c = Earlier BY <1>1 DEF Good, Earlier
<1>2. CASE OfWrite(c, p)
  <2>1. PICK w \in Works :
          /\ work[w].phase # "none" /\ ~Reads(w) /\ work[w].path = p
          /\ c = <<"lz4", w>> \/ (c = <<"empty", w>> /\ work[w].result # 0)
    BY <1>2 DEF OfWrite
  <2>2. /\ work'[w].phase # "none" /\ ~Reads(w)' /\ work'[w].path = p
        /\ c = <<"lz4", w>> \/ (c = <<"empty", w>> /\ work'[w].result # 0)
    BY <2>1 DEF Settled
  <2>3. QED BY <2>2 DEF Good, OfWrite
<1>3. QED BY <1>1, <1>2 DEF Good

(* Steps that fetch and decode nothing. *)
LEMMA QuietReads ==
  ASSUME ReadCoded, Settled,
         \A r \in Works : Reads(r)' /\ work'[r].result = 0 =>
           /\ Fetched(r)' => Fetched(r)
           /\ Decoded(r)' => Decoded(r)
           /\ Fetched(r)' \/ Decoded(r)' => /\ Reads(r) /\ work[r].result = 0
                                            /\ work'[r].buffer = work[r].buffer
                                            /\ work'[r].path = work[r].path
  PROVE  ReadCoded'
<1>1. SUFFICES ASSUME NEW r \in Works, Reads(r)', work'[r].result = 0
               PROVE  /\ Fetched(r)' => Good(work[r].buffer, work[r].path)'
                      /\ Decoded(r)' => \E c \in Content : /\ work'[r].buffer = Decompressed(c)
                                                           /\ Good(c, work[r].path)'
  BY DEF ReadCoded
<1>2. PICK b, p : b = work'[r].buffer /\ p = work'[r].path OBVIOUS
<1>3. ASSUME Fetched(r)' PROVE Good(b, p)'
  <2>1. Good(work[r].buffer, work[r].path) BY <1>1, <1>3 DEF ReadCoded
  <2>2. Good(b, p) BY <1>1, <1>2, <1>3, <2>1
  <2>3. QED BY <2>2, GoodStays
<1>4. ASSUME Decoded(r)' PROVE \E c \in Content : b = Decompressed(c) /\ Good(c, p)'
  <2>1. PICK c \in Content : work[r].buffer = Decompressed(c) /\ Good(c, work[r].path)
    BY <1>1, <1>4 DEF ReadCoded
  <2>2. b = Decompressed(c) /\ Good(c, p) BY <1>1, <1>2, <1>4, <2>1
  <2>3. Good(c, p)' BY <2>2, GoodStays
  <2>4. QED BY <2>2, <2>3
<1>5. QED BY <1>2, <1>3, <1>4 DEF Good, OfWrite

LEMMA QuietDisk ==
  ASSUME DiskCoded, Settled, disk' = disk,
         \A p \in Paths : BeingWritten(p) => BeingWritten(p)' \/ Good(disk[p], p)'
  PROVE  DiskCoded'
<1>1. SUFFICES ASSUME NEW p \in Paths
               PROVE  disk'[p] = None \/ Good(disk[p], p)' \/ BeingWritten(p)'
  BY DEF DiskCoded, None
<1>2. PICK c : c = disk[p] OBVIOUS
<1>3. CASE disk[p] = None BY <1>3
<1>4. CASE Good(disk[p], p)
  <2>1. Good(c, p)' BY <1>2, <1>4, GoodStays
  <2>2. QED BY <1>2, <2>1 DEF Good, OfWrite
<1>5. CASE BeingWritten(p) BY <1>5
<1>6. QED BY <1>3, <1>4, <1>5 DEF DiskCoded

LEMMA CarryingContents ==
  ASSUME FsInv, Places', Ways, Contents, Carrying
  PROVE  Contents'
<1>1. KeptAside /\ KeptWorks /\ KeptPlaces BY CarryingKeeps
<1>2. \A w \in Works : /\ Reads(w)' <=> Reads(w)
                       /\ Plain(w)' <=> Plain(w)
                       /\ work'[w].path = work[w].path /\ work'[w].buffer = work[w].buffer
                       /\ work'[w].result = work[w].result
                       /\ work'[w].phase # "none" <=> work[w].phase # "none"
  BY <1>1 DEF KeptWorks, SameData, Reads, Plain
<1>3. Settled BY <1>2 DEF Settled
<1>4. Compressing' BY <1>2 DEF Contents, Compressing
<1>5. WriteCoded'
  <2>1. SUFFICES ASSUME NEW w \in Works, ~Reads(w), Coded(w)'
                 PROVE  work[w].buffer = <<"lz4", w>>
    BY <1>2 DEF WriteCoded
  <2>2. Held(w)' BY <2>1 DEF Held, Coded
  <2>3. work[w].phase # "none" BY <1>2, <2>2 DEF Places, Outstanding, Live
  <2>4. Coded(w) BY <1>1, <2>1, <2>3 DEF KeptPlaces, Contents, Compressing
  <2>5. QED BY <2>1, <2>4 DEF Contents, WriteCoded
<1>6. Opened'
  <2>1. SUFFICES ASSUME file_thread'.at = "read"
                 PROVE  disk[work'[file_thread'.work].path] # None
    BY <1>1 DEF Opened, KeptAside, None
  <2>2. file_thread'.work \in Works BY <1>1, <2>1, InHand DEF FsInv, KeptPlaces
  <2>3. QED BY <1>1, <1>2, <2>1, <2>2 DEF KeptPlaces, Contents, Opened
<1>7. DiskCoded'
  <2>1. \A p \in Paths : BeingWritten(p) => BeingWritten(p)'
    <3>1. SUFFICES ASSUME NEW p \in Paths, BeingWritten(p) PROVE BeingWritten(p)' OBVIOUS
    <3>2. file_thread' = file_thread BY <1>1, <3>1 DEF KeptPlaces, BeingWritten
    <3>3. file_thread.work \in Works BY <3>1, InHand DEF FsInv, BeingWritten
    <3>4. QED BY <1>1, <1>2, <3>1, <3>2, <3>3 DEF BeingWritten, KeptAside
  <2>2. QED BY <1>1, <1>3, <2>1, QuietDisk DEF Contents, KeptAside
<1>8. ReadCoded' BY <1>1, <1>2, <1>3, QuietReads DEF Contents, KeptPlaces
<1>9. QED BY <1>4, <1>5, <1>6, <1>7, <1>8 DEF Contents

LEMMA SubmitContents ==
  ASSUME Modes \subseteq {TRUE}, FsInv, Contents, Submit
  PROVE  Contents'
<1>1. PICK x \in Works, p \in Paths, z \in Modes :
        \/ \E h \in Heaps : FsRead(x, p, z, h)
        \/ FsWrite(x, p, z)
  BY DEF Submit
<1>2. PICK op \in {"read", "write"}, h \in Heaps \cup {FsHeap} : Create(x, op, p, z, h)
  BY <1>1 DEF FsRead, FsWrite
<1>3. work \in [Works -> WorkType] BY DEF FsInv, Typed
<1>4. /\ UNCHANGED <<file_queue, compression_queue, file_thread, compression_thread, disk>>
      /\ work[x].phase = "none"
      /\ work'[x].op = op /\ ~work'[x].done /\ work'[x].use_compression
      /\ \A w \in Works : w # x => work'[w] = work[w]
  BY <1>2, <1>3 DEF Create, queues, threads
<1>5. ~Done(x) /\ ~Held(x) BY <1>4 DEF FsInv, Phases, Places, Outstanding, Live
<1>6. \A w \in Works : w # x => /\ Reads(w)' <=> Reads(w)
                                /\ Plain(w)' <=> Plain(w)
                                /\ Fetched(w)' <=> Fetched(w)
                                /\ Decoded(w)' <=> Decoded(w)
                                /\ Coded(w)' <=> Coded(w)
  BY <1>4 DEF Reads, Plain, Fetched, Decoded, Coded, Done
<1>7. ~Fetched(x)' /\ ~Decoded(x)' /\ ~Coded(x)'
  BY <1>4, <1>5 DEF Fetched, Decoded, Coded, Held, Done
<1>8. Settled BY <1>4, <1>6 DEF Settled
<1>9. Compressing' BY <1>4, <1>6 DEF Contents, Compressing, Plain
<1>10. WriteCoded' BY <1>4, <1>6, <1>7 DEF Contents, WriteCoded
<1>11. file_thread.at \notin {"pop", "exited"} =>
         file_thread.work \in Works /\ work'[file_thread.work] = work[file_thread.work]
  BY <1>4, <1>5, InHand DEF FsInv, Held
<1>12. Opened' BY <1>4, <1>11 DEF Contents, Opened, None
<1>13. \A q \in Paths : BeingWritten(q) => BeingWritten(q)'
  BY <1>4, <1>11 DEF BeingWritten
<1>14. DiskCoded' BY <1>4, <1>8, <1>13, QuietDisk DEF Contents
<1>15. ReadCoded' BY <1>4, <1>6, <1>7, <1>8, QuietReads DEF Contents
<1>16. QED BY <1>9, <1>10, <1>12, <1>14, <1>15 DEF Contents

(* The file is emptied, and written with the coded buffer. *)
LEMMA FileWriteContents ==
  ASSUME FsInv, Ways, Contents, FileCreate \/ FileWrite
  PROVE  Contents'
<1>1. PICK from \in {"open", "write"}, to \in {"write", "signal"} : FileGoto(from, to)
  BY DEF FileCreate, FileWrite
<1>2. FileThread /\ Inside BY DEF FileThread, Inside
<1>3. PICK x \in Works : FileStep(x, from, to) BY <1>1, <1>2, FileStepPlaces
<1> USE DEF FileStep
<1>4. ~Reads(x)
  <2>1. CASE FileCreate BY <1>3, <2>1 DEF FileCreate, Reads
  <2>2. CASE FileWrite BY <1>3, <2>2 DEF FileWrite, FileGoto, Ways
  <2>3. QED BY <2>1, <2>2
<1>5. disk \in [Paths -> Content] /\ work \in [Works -> WorkType] /\ work' = work
  BY DEF FsInv, Typed, RestTyped, FileCreate, FileWrite
<1>6. work[x].phase # "none" /\ work[x].path \in Paths
  BY <1>3, <1>5 DEF Outstanding, Live, WorkType
<1>7. Settled BY <1>3, <1>5 DEF Settled
<1>8. Compressing' BY <1>3 DEF Contents, Compressing
<1>9. WriteCoded' BY <1>3, <1>5 DEF Contents, WriteCoded
<1>10. Opened' BY <1>1, <1>3 DEF Opened
<1>11. ReadCoded'
  <2>1. ~Reads(x)' BY <1>3, <1>4
  <2>2. QED BY <1>3, <1>5, <1>7, <2>1, QuietReads DEF Contents
<1>12. DiskCoded'
  <2>1. SUFFICES ASSUME NEW p \in Paths
                 PROVE  disk'[p] = None \/ Good(disk[p], p)' \/ BeingWritten(p)'
    BY DEF DiskCoded, None
  <2>2. CASE p # work[x].path
    <3>1. disk'[p] = disk[p]
      BY <1>3, <1>5, <2>2 DEF FileCreate, FileWrite
    <3>2. ~BeingWritten(p) BY <1>3, <2>2 DEF BeingWritten
    <3>3. PICK c : c = disk[p] OBVIOUS
    <3>4. c = None \/ Good(c, p) BY <3>2, <3>3 DEF Contents, DiskCoded
    <3>5. Good(c, p) => Good(c, p)' BY <1>7, GoodStays
    <3>6. QED BY <3>1, <3>3, <3>4, <3>5 DEF Good, OfWrite
  <2>3. CASE p = work[x].path /\ FileCreate
    <3>1. disk'[p] = <<"empty", x>> BY <1>3, <1>5, <2>3 DEF FileCreate
    <3>2. file_thread'.at = "write" BY <2>3, AtFields DEF FileCreate, FileGoto
    <3>3. BeingWritten(p)' BY <1>3, <1>5, <2>3, <3>1, <3>2 DEF BeingWritten
    <3>4. QED BY <3>3
  <2>4. CASE p = work[x].path /\ FileWrite
    <3>1. Coded(x) BY <1>3 DEF Coded
    <3>2. work[x].buffer = <<"lz4", x>> BY <1>4, <3>1 DEF Contents, WriteCoded
    <3>3. disk'[p] = <<"lz4", x>> BY <1>3, <1>5, <2>4, <3>2 DEF FileWrite
    <3>4. ~Reads(x)' /\ work'[x].phase # "none" /\ work'[x].path = p
      BY <1>3, <1>4, <1>5, <1>6, <2>4
    <3>5. QED BY <3>3, <3>4 DEF Good, OfWrite
  <2>5. QED BY <2>2, <2>3, <2>4
<1>13. QED BY <1>8, <1>9, <1>10, <1>11, <1>12 DEF Contents

(* What fails is not read, and what a failed write emptied is of a write   *)
(* that failed.                                                            *)
LEMMA FailsContents ==
  ASSUME FsInv, Ways, Contents, FileOpenFails \/ FileWriteFails \/ FileReadFails
  PROVE  Contents'
<1>1. PICK from \in {"open", "write", "read"} : FileGoto(from, "signal")
  BY DEF FileOpenFails, FileWriteFails, FileReadFails
<1>2. FileThread /\ Inside BY DEF FileThread, Inside
<1>3. PICK x \in Works : FileStep(x, from, "signal") BY <1>1, <1>2, FileStepPlaces
<1> USE DEF FileStep
<1>4. work \in [Works -> WorkType] /\ work[x].phase # "none"
  BY <1>3 DEF FsInv, Typed, Outstanding, Live
<1>5. /\ work'[x].result = -1 /\ disk' = disk
      /\ ~Reads(x) => work'[x].buffer = work[x].buffer
      /\ \A w \in Works : w # x => work'[w] = work[w]
  <2>1. CASE FileOpenFails BY <1>3, <1>4, <2>1 DEF FileOpenFails, WorkType
  <2>2. CASE FileWriteFails BY <1>3, <1>4, <2>2 DEF FileWriteFails, WorkType
  <2>3. CASE FileReadFails
    <3>1. Reads(x) BY <1>3, <2>3 DEF FileReadFails, FileGoto, Ways
    <3>2. QED BY <1>3, <1>4, <2>3, <3>1 DEF FileReadFails, WorkType
  <2>4. QED BY <2>1, <2>2, <2>3
<1>6. Settled BY <1>3, <1>5 DEF Settled
<1>7. Compressing' BY <1>3 DEF Contents, Compressing
<1>8. WriteCoded' BY <1>3, <1>5 DEF Contents, WriteCoded
<1>9. Opened' BY <1>3 DEF Opened
<1>10. DiskCoded'
  <2>1. ASSUME NEW p \in Paths, BeingWritten(p) PROVE Good(disk[p], p)'
    <3>1. work[x].path = p /\ disk[p] = <<"empty", x>> /\ ~Reads(x)
      BY <1>3, <2>1 DEF BeingWritten, Ways
    <3>2. /\ work'[x].phase # "none" /\ ~Reads(x)' /\ work'[x].path = p
          /\ work'[x].result # 0 /\ disk'[p] = <<"empty", x>>
      BY <1>3, <1>4, <1>5, <3>1
    <3>3. QED BY <3>2 DEF Good, OfWrite
  <2>2. QED BY <1>5, <1>6, <2>1, QuietDisk DEF Contents
<1>11. ReadCoded'
  <2>1. \A w \in Works : Reads(w)' /\ work'[w].result = 0 => w # x BY <1>5
  <2>2. QED BY <1>3, <1>5, <1>6, <2>1, QuietReads DEF Contents
<1>12. QED BY <1>7, <1>8, <1>9, <1>10, <1>11 DEF Contents

(* What is read goes to the compression thread. *)
LEMMA FileReadContents ==
  ASSUME FsInv, Ways, Contents, FileRead
  PROVE  Contents'
<1>1. PICK y \in Works : y = file_thread.work BY InHand DEF FsInv, FileRead, FileGoto
<1>2. FileGoto("read", "push")
  <2>1. Held(y) BY <1>1 DEF Held
  <2>2. work[y].phase # "none" BY <2>1 DEF FsInv, Places, Outstanding, Live
  <2>3. work[y].use_compression BY <2>2 DEF Contents, Compressing, Plain
  <2>4. QED BY <1>1, <2>3 DEF FileRead
<1>3. FileThread /\ Inside BY DEF FileThread, Inside
<1>4. PICK x \in Works : FileStep(x, "read", "push") BY <1>2, <1>3, FileStepPlaces
<1> USE DEF FileStep
<1>5. work \in [Works -> WorkType] /\ work[x].path \in Paths
  BY <1>4 DEF FsInv, Typed, WorkType
<1>6. /\ disk' = disk /\ Reads(x)
      /\ work'[x].buffer = disk[work[x].path] /\ work'[x].result = work[x].result
      /\ \A w \in Works : w # x => work'[w] = work[w]
  <2>1. Reads(x) BY <1>4 DEF Ways
  <2>2. QED BY <1>4, <1>5, <2>1 DEF FileRead, WorkType
<1>7. Settled BY <1>4, <1>6 DEF Settled
<1>8. Compressing' BY <1>4 DEF Contents, Compressing
<1>9. WriteCoded' BY <1>4, <1>6 DEF Contents, WriteCoded
<1>10. Opened' BY <1>4 DEF Opened
<1>11. DiskCoded'
  <2>1. \A p \in Paths : ~BeingWritten(p) BY <1>4 DEF BeingWritten
  <2>2. QED BY <1>6, <1>7, <2>1, QuietDisk DEF Contents
<1>12. ReadCoded'
  <2>1. SUFFICES ASSUME NEW r \in Works, Reads(r)', work'[r].result = 0
                 PROVE  /\ Fetched(r)' => Good(work[r].buffer, work[r].path)'
                        /\ Decoded(r)' => \E c \in Content :
                             work'[r].buffer = Decompressed(c) /\ Good(c, work[r].path)'
    BY DEF ReadCoded
  <2>2. PICK b, p : b = work'[r].buffer /\ p = work'[r].path OBVIOUS
  <2>3. CASE r = x
    <3>1. ~Decoded(r)' BY <1>4, <2>3
    <3>2. b = disk[p] /\ p = work[x].path BY <1>4, <1>6, <2>2, <2>3
    <3>3. b # None BY <1>4, <3>2 DEF Contents, Opened
    <3>4. ~BeingWritten(p) BY <1>4 DEF BeingWritten
    <3>5. Good(b, p) BY <1>5, <3>2, <3>3, <3>4 DEF Contents, DiskCoded
    <3>6. Good(b, p)' BY <1>7, <3>5, GoodStays
    <3>7. QED BY <2>2, <3>1, <3>6 DEF Good, OfWrite
  <2>4. CASE r # x
    <3>1. /\ Reads(r) /\ work[r].result = 0
          /\ Fetched(r)' => Fetched(r)
          /\ Decoded(r)' => Decoded(r)
          /\ b = work[r].buffer /\ p = work[r].path
      BY <1>4, <1>6, <2>1, <2>2, <2>4
    <3>2. Fetched(r)' => Good(b, p)' BY <1>7, <3>1, GoodStays DEF Contents, ReadCoded
    <3>3. ASSUME Decoded(r)'
          PROVE  \E c \in Content : b = Decompressed(c) /\ Good(c, p)'
      <4>1. PICK c \in Content : b = Decompressed(c) /\ Good(c, p)
        BY <3>1, <3>3 DEF Contents, ReadCoded
      <4>2. Good(c, p)' BY <1>7, <4>1, GoodStays
      <4>3. QED BY <4>1, <4>2
    <3>4. QED BY <2>2, <3>2, <3>3 DEF Good, OfWrite
  <2>5. QED BY <2>3, <2>4
<1>13. QED BY <1>8, <1>9, <1>10, <1>11, <1>12 DEF Contents

(* A read is decoded, a write coded. *)
LEMMA CodeContents ==
  ASSUME FsInv, OwnBuffer, Contents, Decompress \/ Compress
  PROVE  Contents'
<1>1. PICK x \in Works : CodeStep(x) BY CodeStepPlaces
<1> USE DEF CodeStep
<1>2. \A w \in Works : work'[w].phase # "none" <=> work[w].phase # "none" BY <1>1
<1>3. Settled BY <1>1 DEF Settled
<1>4. Compressing' BY <1>1 DEF Contents, Compressing
<1>5. WriteCoded'
  <2>1. SUFFICES ASSUME NEW w \in Works, ~Reads(w), Coded(w)'
                 PROVE  work'[w].buffer = <<"lz4", w>>
    BY <1>1 DEF WriteCoded
  <2>2. CASE w # x BY <1>1, <2>1, <2>2 DEF Contents, WriteCoded
  <2>3. CASE w = x
    <3>1. Compress BY <1>1, <2>1, <2>3
    <3>2. QED BY <1>1, <2>1, <2>3, <3>1 DEF OwnBuffer
  <2>4. QED BY <2>2, <2>3
<1>6. file_thread.at \notin {"pop", "exited"} =>
         file_thread.work \in Works /\ file_thread.work # x
  BY <1>1, InHand DEF FsInv, Coded
<1>7. Opened' BY <1>1, <1>6 DEF Contents, Opened, None
<1>8. DiskCoded'
  <2>1. \A p \in Paths : BeingWritten(p) => BeingWritten(p)' BY <1>1, <1>6 DEF BeingWritten
  <2>2. QED BY <1>1, <1>3, <2>1, QuietDisk DEF Contents
<1>9. ReadCoded'
  <2>1. SUFFICES ASSUME NEW r \in Works, Reads(r)', work'[r].result = 0
                 PROVE  /\ Fetched(r)' => Good(work[r].buffer, work[r].path)'
                        /\ Decoded(r)' => \E c \in Content :
                             work'[r].buffer = Decompressed(c) /\ Good(c, work[r].path)'
    BY DEF ReadCoded
  <2>2. PICK b, p : b = work'[r].buffer /\ p = work'[r].path OBVIOUS
  <2>3. Reads(r) /\ work[r].result = 0 /\ p = work[r].path BY <1>1, <2>1, <2>2
  <2>4. CASE r = x
    <3>1. Decompress BY <1>1, <2>3, <2>4
    <3>2. PICK c : c = work[x].buffer OBVIOUS
    <3>3. c \in Content /\ b = Decompressed(c)
      BY <1>1, <2>2, <2>4, <3>1, <3>2 DEF FsInv, Typed, WorkType
    <3>4. Good(c, p) BY <1>1, <2>3, <2>4, <3>2 DEF Contents, ReadCoded
    <3>5. Good(c, p)' BY <1>3, <3>4, GoodStays
    <3>6. ~Fetched(r)' BY <1>1, <2>4
    <3>7. QED BY <2>2, <3>3, <3>5, <3>6 DEF Good, OfWrite
  <2>5. CASE r # x
    <3>1. /\ Fetched(r)' => Fetched(r)
          /\ Decoded(r)' => Decoded(r)
          /\ b = work[r].buffer
      BY <1>1, <2>2, <2>5
    <3>2. Fetched(r)' => Good(b, p)' BY <1>3, <2>3, <3>1, GoodStays DEF Contents, ReadCoded
    <3>3. ASSUME Decoded(r)'
          PROVE  \E c \in Content : b = Decompressed(c) /\ Good(c, p)'
      <4>1. PICK c \in Content : b = Decompressed(c) /\ Good(c, p)
        BY <2>3, <3>1, <3>3 DEF Contents, ReadCoded
      <4>2. Good(c, p)' BY <1>3, <4>1, GoodStays
      <4>3. QED BY <4>1, <4>2
    <3>4. QED BY <2>2, <3>2, <3>3 DEF Good, OfWrite
  <2>6. QED BY <2>4, <2>5
<1>10. QED BY <1>4, <1>5, <1>7, <1>8, <1>9 DEF Contents

LEMMA StepContents ==
  ASSUME Modes \subseteq {TRUE}, FsInv, Ways, OwnBuffer, Contents, [Next]_vars
  PROVE  Contents'
<1>1. CASE Submit BY <1>1, SubmitContents
<1>2. CASE Carrying BY <1>2, StepPlaces, CarryingContents
<1>3. CASE Inside /\ ~FileOpen
  BY <1>3, FileWriteContents, FailsContents, FileReadContents, CodeContents DEF Inside
<1>4. QED
  BY <1>1, <1>2, <1>3 DEF Next, Carrying, Client, FileThread, CompressionThread, Inside

(* What is decoded is what an earlier run left, or what one write to that  *)
(* path gave; that write failed if its data is not there.                  *)
LEMMA ContentsReadBack ==
  ASSUME FsInv, Contents
  PROVE  ReadsBackWritten
<1>1. SUFFICES ASSUME NEW r \in Works, work[r].op = "read", Succeeded(r)
               PROVE  \/ work[r].buffer = Decompressed(Earlier)
                      \/ \E w \in Works :
                           /\ work[r].buffer[2] = w
                           /\ work[w].op = "write" /\ work[w].path = work[r].path
                           /\ work[r].buffer[1] = "raw" \/ work[w].result # 0
  BY DEF ReadsBackWritten
<1>2. Reads(r) /\ work[r].result = 0 /\ Decoded(r)
  BY <1>1 DEF Reads, Succeeded, Decoded
<1>3. PICK c \in Content : work[r].buffer = Decompressed(c) /\ Good(c, work[r].path)
  BY <1>2 DEF Contents, ReadCoded
<1>4. CASE c = Earlier BY <1>3, <1>4
<1>5. CASE OfWrite(c, work[r].path)
  <2>1. PICK w \in Works :
          /\ ~Reads(w) /\ work[w].path = work[r].path
          /\ c = <<"lz4", w>> \/ (c = <<"empty", w>> /\ work[w].result # 0)
    BY <1>5 DEF OfWrite
  <2>2. work[w].op = "write" BY <2>1 DEF Reads, FsInv, Typed, WorkType
  <2>3. CASE c = <<"lz4", w>>
    <3>1. work[r].buffer = <<"raw", w>> BY <1>3, <2>3 DEF Decompressed
    <3>2. QED BY <2>1, <2>2, <3>1
  <2>4. CASE c = <<"empty", w>> /\ work[w].result # 0
    <3>1. work[r].buffer = <<"junk", w>> BY <1>3, <2>4 DEF Decompressed
    <3>2. QED BY <2>1, <2>2, <2>4, <3>1
  <2>5. QED BY <2>1, <2>3, <2>4
<1>6. QED BY <1>3, <1>4, <1>5 DEF Good

(* When every call uses compression, a read that succeeds has the bytes of *)
(* one write to its path, unless that write failed: what is coded on one   *)
(* side is decoded once on the other.  (docs/homework2.md:21-23)           *)
THEOREM WrittenComesBack ==
  ASSUME Modes \subseteq {TRUE}
  PROVE  Spec => []ReadsBackWritten
<1>1. Spec => []OrderInv BY StepOrder, InitOrder, FsInvHolds, PTL DEF Spec
<1>2. Spec => []Ways BY StepWays, InitWays, FsInvHolds, PTL DEF Spec
<1>3. Spec => []Fresh BY <1>1, <1>2, StepFresh, InitFresh, FsInvHolds, PTL DEF Spec
<1>4. FsInv /\ Ways /\ Fresh /\ Contents /\ [Next]_vars => Contents'
  BY StepContents DEF Fresh
<1>5. Spec => []Contents BY <1>2, <1>3, <1>4, InitContents, FsInvHolds, PTL DEF Spec
<1>6. QED BY <1>5, ContentsReadBack, FsInvHolds, PTL
=============================================================================
