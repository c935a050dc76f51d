--------------------------- MODULE NetConnections ---------------------------
(***************************************************************************)
(* The connection table of net.c and the threads that share it: main,      *)
(* which updates, connects, disconnects and destroys; one receive thread;  *)
(* one send thread for each connection.  Creation, timeout and disconnect  *)
(* hold connections_mutex; net_update and the receive thread also use      *)
(* connections without it.  The two queues of a connection have one        *)
(* producer and one consumer each, and are taken to be FIFOs.              *)
(***************************************************************************)
EXTENDS Integers, Sequences

CONSTANTS Addresses,
          Servers,       \* the addresses main connects to
          NoAddress,     \* the address of an entry not in use, all zeros
          N,             \* entries of net_t.connections (3 in the code)
          Capacity,      \* of the two queues (3 in the code)
          Timeout,       \* k_timeout_ms
          Wrap,          \* number of values of a millisecond counter (2^32)
          MaxTime        \* bound: the clock stops here

ASSUME TableAssumption == N \in Nat \ {0} /\ Capacity \in Nat \ {0}

(* An entry is free if its port is 0 (net.c:327), whatever its IP, and is  *)
(* found by IP and port (net.c:316): these agree if every address has a    *)
(* port.  A string without a colon gives none (net.c:244-258), and the     *)
(* connection made for it is in an entry still free, to be opened again.   *)
ASSUME PortAssumption == Servers \subseteq Addresses /\ NoAddress \notin Addresses

ASSUME TimeAssumption  == Timeout \in Nat /\ Wrap \in Nat \ {0} /\ MaxTime \in Nat

VARIABLES mutex,         \* which thread holds connections_mutex
          address,       \* connections[i].address
          open,          \* whether the queues of connections[i] exist
          last_recv_ms,
          send_queue,    \* of "packet" and "NULL"
          recv_queue,    \* how many packets it holds
          sender,        \* where the send thread of each connection is
          main,          \* where main is, in which call, at which connection,
                         \* and when it read the time
          recv,          \* where the receive thread is, with whose packet
          closed,        \* whether the socket is closed
          clock,         \* time, in milliseconds
          stale,         \* history: recv's connection was torn down meanwhile
          late,          \* history: connections opened after the disconnect
          crashed        \* a thread that used queues that do not exist

table   == <<address, open, last_recv_ms, late>>
queues  == <<send_queue, recv_queue>>
rest    == <<closed, clock>>
vars    == <<mutex, table, queues, sender, main, recv, rest, stale, crashed>>

Slots == 1 .. N
Running == crashed = "nobody" /\ main.at # "destroyed"

Init == /\ mutex = "free"
        /\ address = [i \in Slots |-> NoAddress]
        /\ open = [i \in Slots |-> FALSE]
        /\ last_recv_ms = [i \in Slots |-> 0]
        /\ send_queue = [i \in Slots |-> <<>>]
        /\ recv_queue = [i \in Slots |-> 0]
        /\ sender = [i \in Slots |-> "none"]
        /\ main = [at |-> "idle", call |-> "none", to |-> NoAddress, i |-> 1, now |-> 0]
        /\ recv = [at |-> "recvfrom", from |-> NoAddress, i |-> 1]
        /\ closed = FALSE /\ clock = 0
        /\ stale = FALSE /\ late = {} /\ crashed = "nobody"

-----------------------------------------------------------------------------
(* find_or_create_connection, called by either thread: it looks for the    *)
(* address, claims a free entry for it, which has its address before it    *)
(* has anything else, and makes the queues and the thread.                 *)

Known(a) == {i \in Slots : address[i] = a}
Free     == Known(NoAddress)
First(S) == CHOOSE i \in S : \A j \in S : i <= j

ClaimSlot(a) ==
  /\ Free # {}
  /\ address' = [address EXCEPT ![First(Free)] = a]
  /\ UNCHANGED <<open, last_recv_ms, late>>

FinishSlot(i) ==
  /\ mutex' = "free"
  /\ last_recv_ms' = [last_recv_ms EXCEPT ![i] = clock % Wrap]
  /\ open' = [open EXCEPT ![i] = TRUE]
  /\ send_queue' = [send_queue EXCEPT ![i] = <<>>]
  /\ recv_queue' = [recv_queue EXCEPT ![i] = 0]
  /\ sender' = [sender EXCEPT ![i] = "pop"]
  /\ late' = IF main.at \in {"close", "join recv"} THEN late \cup {i} ELSE late
  /\ UNCHANGED address

-----------------------------------------------------------------------------
(* Main *)

MainAt(where) == Running /\ main.at = where
GoTo(where, i) == main' = [main EXCEPT !.at = where, !.i = i]
Return == main' = [at |-> "idle", call |-> "none", to |-> NoAddress, i |-> 1, now |-> 0]

(* net_connect *)
Connect(a) ==
  /\ MainAt("idle") /\ mutex = "free" /\ Known(a) = {}
  /\ mutex' = "main"
  /\ main' = [main EXCEPT !.at = "claim", !.call = "connect", !.to = a]
  /\ UNCHANGED <<table, queues, sender, recv, rest, stale, crashed>>

ConnectClaims ==
  /\ MainAt("claim")
  /\ ClaimSlot(main.to)
  /\ GoTo("opening", First(Free))
  /\ UNCHANGED <<mutex, queues, sender, recv, rest, stale, crashed>>

ConnectFails ==
  /\ MainAt("claim") /\ Free = {}
  /\ mutex' = "free" /\ Return
  /\ UNCHANGED <<table, queues, sender, recv, rest, stale, crashed>>

Connected ==
  /\ MainAt("opening")
  /\ FinishSlot(main.i)
  /\ Return
  /\ UNCHANGED <<recv, rest, stale, crashed>>

(* timeout_old_connections, called by net_update *)
UpdateLocks ==
  /\ MainAt("idle") /\ mutex = "free" /\ mutex' = "main"
  /\ main' = [main EXCEPT !.at = "timeout", !.call = "update", !.now = clock]
  /\ UNCHANGED <<table, queues, sender, recv, rest, stale, crashed>>

Expired(i) == address[i] # NoAddress /\ (last_recv_ms[i] + Timeout) % Wrap < main.now % Wrap

Timeouts ==
  /\ MainAt("timeout")
  /\ \/ main.i > N /\ mutex' = "free" /\ main' = [main EXCEPT !.at = "send", !.i = 1, !.now = 0]
     \/ main.i \in Slots /\ Expired(main.i) /\ GoTo("stop", main.i) /\ UNCHANGED mutex
     \/ main.i \in Slots /\ ~Expired(main.i) /\ GoTo("timeout", main.i + 1) /\ UNCHANGED mutex
  /\ UNCHANGED <<table, queues, sender, recv, rest, stale, crashed>>

(* net_disconnect_all, by itself or in net_destroy *)
DisconnectLocks(call) ==
  /\ MainAt("idle") /\ mutex = "free" /\ mutex' = "main"
  /\ main' = [main EXCEPT !.at = "disconnect", !.call = call]
  /\ UNCHANGED <<table, queues, sender, recv, rest, stale, crashed>>

Disconnects ==
  /\ MainAt("disconnect") /\ main.i \in Slots
  /\ IF address[main.i] = NoAddress THEN GoTo("disconnect", main.i + 1)
                                    ELSE GoTo("stop", main.i)
  /\ UNCHANGED <<mutex, table, queues, sender, recv, rest, stale, crashed>>

(* FAULT: the table is not cleared, as if each entry had been. *)
DisconnectedUncleared ==
  /\ MainAt("disconnect") /\ main.i > N /\ mutex' = "free"
  /\ IF main.call = "destroy" THEN GoTo("close", 1) ELSE Return
  /\ UNCHANGED <<table, queues, sender, recv, rest, stale, crashed>>

Disconnected ==
  /\ MainAt("disconnect") /\ main.i > N
  /\ address' = [i \in Slots |-> NoAddress]
  /\ last_recv_ms' = [i \in Slots |-> 0]
  /\ mutex' = "free"
  /\ IF main.call = "destroy" THEN GoTo("close", 1) ELSE Return
  /\ UNCHANGED <<open, late, queues, sender, recv, rest, stale, crashed>>

(* Tearing a connection down: its send thread is told to stop, awaited,    *)
(* and the queues are destroyed.  A timeout clears the entry at once.      *)

(* FAULT: the thread is awaited without being told. *)
StopUntold == /\ MainAt("stop")
              /\ GoTo("join", main.i)
              /\ UNCHANGED <<mutex, table, queues, sender, recv, rest, stale, crashed>>

Stop == /\ MainAt("stop") /\ Len(send_queue[main.i]) < Capacity
        /\ send_queue' = [send_queue EXCEPT ![main.i] = Append(@, "NULL")]
        /\ GoTo("join", main.i)
        /\ UNCHANGED <<mutex, table, recv_queue, sender, recv, rest, stale, crashed>>

TornDown(i) ==
  /\ open' = [open EXCEPT ![i] = FALSE]
  /\ send_queue' = [send_queue EXCEPT ![i] = <<>>]
  /\ recv_queue' = [recv_queue EXCEPT ![i] = 0]
  /\ stale' = (stale \/ (recv.at \in {"stamp", "push"} /\ recv.i = i))
  /\ IF main.call = "update"
     THEN /\ address' = [address EXCEPT ![i] = NoAddress]
          /\ last_recv_ms' = [last_recv_ms EXCEPT ![i] = 0]
          /\ GoTo("timeout", i + 1)
     ELSE GoTo("disconnect", i + 1) /\ UNCHANGED <<address, last_recv_ms>>
  /\ UNCHANGED <<mutex, late, recv, rest, crashed>>

(* FAULT: the queues are destroyed without waiting for the thread. *)
JoinAtOnce == MainAt("join") /\ TornDown(main.i) /\ UNCHANGED sender

Join == /\ MainAt("join") /\ sender[main.i] \in {"stopped", "left"}
        /\ TornDown(main.i)
        /\ sender' = [sender EXCEPT ![main.i] = "none"]

(* The rest of net_update.  packet_send reads connection->net first and    *)
(* the queue last; either is NULL while the connection is being opened.    *)
Next_i == GoTo("send", main.i + 1)

Skip == /\ MainAt("send")
        /\ \/ main.i > N /\ Return
           \/ main.i \in Slots /\ address[main.i] = NoAddress /\ Next_i
        /\ UNCHANGED <<mutex, table, queues, sender, recv, rest, stale, crashed>>

Send == /\ MainAt("send") /\ main.i \in Slots /\ address[main.i] # NoAddress
        /\ \/ GoTo("push", main.i) /\ UNCHANGED crashed
           \/ ~open[main.i] /\ crashed' = "main" /\ UNCHANGED main
        /\ UNCHANGED <<mutex, table, queues, sender, recv, rest, stale>>

Push == /\ MainAt("push")
        /\ \/ /\ open[main.i] /\ Len(send_queue[main.i]) < Capacity
              /\ send_queue' = [send_queue EXCEPT ![main.i] = Append(@, "packet")]
              /\ GoTo("drain", main.i) /\ UNCHANGED crashed
           \/ ~open[main.i] /\ crashed' = "main" /\ UNCHANGED <<main, send_queue>>
        /\ UNCHANGED <<mutex, table, recv_queue, sender, recv, rest, stale>>

(* packet_recv takes what has arrived. *)
Drain == /\ MainAt("drain")
         /\ IF recv_queue[main.i] = 0
            THEN Next_i /\ UNCHANGED recv_queue
            ELSE recv_queue' = [recv_queue EXCEPT ![main.i] = @ - 1] /\ UNCHANGED main
         /\ UNCHANGED <<mutex, table, send_queue, sender, recv, rest, stale, crashed>>

(* The rest of net_destroy *)
Close == /\ MainAt("close") /\ closed' = TRUE
         /\ GoTo("join recv", 1)
         /\ UNCHANGED <<mutex, table, queues, sender, recv, clock, stale, crashed>>

JoinRecv == /\ MainAt("join recv") /\ recv.at = "exited"
            /\ GoTo("destroyed", 1)
            /\ UNCHANGED <<mutex, table, queues, sender, recv, rest, stale, crashed>>

-----------------------------------------------------------------------------
(* The receive thread.  It uses the connection it found or created after   *)
(* find_or_create_connection has released the mutex.                       *)

RecvAt(where) == Running /\ recv.at = where
RecvGoTo(where, i) == recv' = [recv EXCEPT !.at = where, !.i = i]
RecvNext == recv' = [at |-> "recvfrom", from |-> NoAddress, i |-> 1]

Arrive(a) == /\ RecvAt("recvfrom") /\ ~closed
             /\ recv' = [at |-> "look", from |-> a, i |-> 1]
             /\ UNCHANGED <<mutex, table, queues, sender, main, rest, stale, crashed>>

(* recvfrom fails on a closed socket, and may fail at any time: the thread *)
(* ends either way.                                                        *)
RecvFails == /\ RecvAt("recvfrom")
             /\ RecvGoTo("exited", 1)
             /\ UNCHANGED <<mutex, table, queues, sender, main, rest, stale, crashed>>

Find == /\ RecvAt("look") /\ mutex = "free" /\ Known(recv.from) # {}
        /\ RecvGoTo("stamp", First(Known(recv.from))) /\ stale' = FALSE
        /\ UNCHANGED <<mutex, table, queues, sender, main, rest, crashed>>

(* FAULT: looking and claiming are two sections of the mutex. *)
MissUnlocked ==
  /\ RecvAt("look") /\ mutex = "free" /\ Known(recv.from) = {}
  /\ RecvGoTo("claim", 1)
  /\ UNCHANGED <<mutex, table, queues, sender, main, rest, stale, crashed>>

Miss == /\ RecvAt("look") /\ mutex = "free" /\ Known(recv.from) = {}
        /\ mutex' = "recv"
        /\ RecvGoTo("claim", 1)
        /\ UNCHANGED <<table, queues, sender, main, rest, stale, crashed>>

RecvClaims == /\ RecvAt("claim")
              /\ ClaimSlot(recv.from)
              /\ RecvGoTo("opening", First(Free)) /\ stale' = FALSE
              /\ UNCHANGED <<mutex, queues, sender, main, rest, crashed>>

Created == /\ RecvAt("opening")
           /\ FinishSlot(recv.i)
           /\ RecvGoTo("stamp", recv.i)
           /\ UNCHANGED <<main, rest, stale, crashed>>

(* FAULT: with no free entry it returns at once, the mutex locked. *)
TooManyLocked == /\ RecvAt("claim") /\ Free = {}
                 /\ RecvNext
                 /\ UNCHANGED <<mutex, table, queues, sender, main, rest, stale, crashed>>

TooMany == /\ RecvAt("claim") /\ Free = {}
           /\ mutex' = "free" /\ RecvNext
           /\ UNCHANGED <<table, queues, sender, main, rest, stale, crashed>>

Stamp == /\ RecvAt("stamp")
         /\ last_recv_ms' = [last_recv_ms EXCEPT ![recv.i] = clock % Wrap]
         /\ RecvGoTo("push", recv.i)
         /\ UNCHANGED <<mutex, address, open, late, queues, sender, main, rest, stale, crashed>>

(* A packet that does not fit is dropped.                                  *)
Deliver == /\ RecvAt("push") /\ open[recv.i]
           /\ IF recv_queue[recv.i] < Capacity
              THEN recv_queue' = [recv_queue EXCEPT ![recv.i] = @ + 1]
              ELSE UNCHANGED recv_queue
           /\ RecvNext /\ stale' = FALSE
           /\ UNCHANGED <<mutex, table, send_queue, sender, main, rest, crashed>>

DeliverNowhere == /\ RecvAt("push") /\ ~open[recv.i]
                  /\ crashed' = "recv"
                  /\ UNCHANGED <<mutex, table, queues, sender, main, recv, rest, stale>>

-----------------------------------------------------------------------------
(* Send threads.  One that cannot send leaves.                             *)

Sender(i) ==
  /\ Running /\ sender[i] = "pop" /\ send_queue[i] # <<>>
  /\ send_queue' = [send_queue EXCEPT ![i] = Tail(@)]
  /\ \/ Head(send_queue[i]) = "NULL" /\ sender' = [sender EXCEPT ![i] = "stopped"]
     \/ Head(send_queue[i]) = "packet" /\ UNCHANGED sender
     \/ Head(send_queue[i]) = "packet" /\ sender' = [sender EXCEPT ![i] = "left"]
  /\ UNCHANGED <<mutex, table, recv_queue, main, recv, rest, stale, crashed>>

-----------------------------------------------------------------------------
Tick == /\ Running /\ clock < MaxTime /\ clock' = clock + 1
        /\ UNCHANGED <<mutex, table, queues, sender, main, recv, closed, stale, crashed>>

(* The program has ended, one way or the other.                            *)
Ended == ~Running /\ UNCHANGED vars

InCall == ConnectClaims \/ ConnectFails \/ Connected \/ Timeouts \/ Disconnects \/ Disconnected \/ Stop \/ Join
          \/ Skip \/ Send \/ Push \/ Drain \/ Close \/ JoinRecv

Main == \/ InCall
        \/ \E a \in Servers : Connect(a)
        \/ UpdateLocks
        \/ \E call \in {"disconnect", "destroy"} : DisconnectLocks(call)

Receives == (closed /\ RecvFails) \/ Find \/ Miss \/ RecvClaims \/ Created \/ TooMany \/ Stamp \/ Deliver
            \/ DeliverNowhere

Recv == Receives \/ RecvFails \/ \E a \in Addresses : Arrive(a)

Next == Main \/ Recv \/ (\E i \in Slots : Sender(i)) \/ Tick \/ Ended

Spec == Init /\ [][Next]_vars

FairSpec == Spec /\ WF_vars(InCall) /\ WF_vars(Receives) /\ \A i \in Slots : WF_vars(Sender(i))

-----------------------------------------------------------------------------
(* Types of the state. *)
MainTyped ==
  main \in [at : {"idle", "claim", "opening", "timeout", "disconnect", "stop", "join", "send",
                  "push", "drain", "close", "join recv", "destroyed"},
            call : {"none", "connect", "update", "disconnect", "destroy"},
            to : Addresses \cup {NoAddress}, i : 1 .. N + 1, now : 0 .. MaxTime]

RecvTyped ==
  recv \in [at : {"recvfrom", "look", "claim", "opening", "stamp", "push", "exited"},
            from : Addresses \cup {NoAddress}, i : Slots]

TableTyped ==
  /\ mutex \in {"free", "main", "recv"}
  /\ address \in [Slots -> Addresses \cup {NoAddress}]
  /\ open \in [Slots -> BOOLEAN]
  /\ sender \in [Slots -> {"none", "pop", "stopped", "left"}]
  /\ closed \in BOOLEAN /\ stale \in BOOLEAN /\ late \subseteq Slots
  /\ crashed \in {"nobody", "main", "recv"}

QueuesTyped == /\ send_queue \in [Slots -> Seq({"packet", "NULL"})]
               /\ recv_queue \in [Slots -> 0 .. Capacity]

TimesTyped == /\ clock \in 0 .. MaxTime
              /\ last_recv_ms \in [Slots -> 0 .. Wrap - 1]

TypeOK == MainTyped /\ RecvTyped /\ TableTyped /\ QueuesTyped /\ TimesTyped

(* No two connections have the same address, although both threads create  *)
(* them.  (net.c:311-344)                                                  *)
OneConnectionEach ==
  \A i, j \in Slots : address[i] = address[j] /\ address[i] # NoAddress => i = j

(* A send thread runs only while its connection and its queues exist; and  *)
(* after net_destroy only such threads are left as belong to connections   *)
(* that the receive thread opened after the disconnect.                    *)
(* (net.c:144-146, 182-185, 404-408)                                       *)
QueuesOutliveSenders ==
  \A i \in Slots : sender[i] # "none" => open[i] /\ address[i] # NoAddress

OrphansAreLate ==
  main.at = "destroyed" => \A i \in Slots : sender[i] # "none" => i \in late

SendersAccounted == QueuesOutliveSenders /\ OrphansAreLate

(* Queues that do not exist are used in two races only: net_update meets a *)
(* connection that the receive thread is still opening, or a packet's      *)
(* connection is torn down after the receive thread has found it; and only *)
(* then is it another's connection that a packet stamps and is put into.   *)
(* (net.c:159, 377-386)                                                    *)
CrashesAreRaces ==
  /\ crashed = "main" => recv.at = "opening" /\ recv.i = main.i
  /\ crashed = "recv" => stale

PacketsFromPeer ==
  recv.at \in {"opening", "stamp", "push"} => address[recv.i] = recv.from \/ stale

OnlyTwoRaces == CrashesAreRaces /\ PacketsFromPeer

(* connections_mutex never stays locked: whoever holds it gives it back,   *)
(* although main, holding it, waits for room in a send queue and then for  *)
(* a send thread, and the receive thread has ways out of its own; unless   *)
(* a send thread has left.  (net.c:182-185, 298, 311-346, 404-407)         *)
MutexReturned ==
  mutex # "free" ~> mutex = "free" \/ ~Running \/ \E i \in Slots : sender[i] = "left"

(* net_destroy returns unless a send thread has left on a failed sendto    *)
(* and nobody empties its queue.  (net.c:142-150, 298)                     *)
DestroyReturns ==
  main.call = "destroy" ~>
    main.at = "destroyed" \/ ~Running \/ \E i \in Slots : sender[i] = "left"
=============================================================================
