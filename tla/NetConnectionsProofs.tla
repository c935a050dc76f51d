------------------------ MODULE NetConnectionsProofs ------------------------
(***************************************************************************)
(* Proofs about NetConnections for every table, queue capacity, timeout    *)
(* and counter width: each peer has one connection, send threads have      *)
(* their queues, and queues that are gone are used in two races only.      *)
(***************************************************************************)
EXTENDS NetConnections, WellFoundedInduction, TLAPS

-----------------------------------------------------------------------------
(* The scans for an address stop at the first entry that has it.           *)
LEMMA FirstIn ==
  ASSUME NEW S \in SUBSET Slots, S # {}
  PROVE  First(S) \in S
<1> DEFINE Below == {pair \in Nat \X Nat : pair[1] < pair[2]}
<1>1. Below = OpToRel(<, Nat) BY DEF OpToRel
<1>2. IsWellFoundedOn(Below, Nat) BY <1>1, NatLessThanWellFounded
<1>3. S \subseteq Nat BY TableAssumption DEF Slots
<1>4. PICK i \in S : \A j \in S : ~ (<<j, i>> \in Below)
  <2> HIDE DEF Below
  <2> QED BY <1>2, <1>3, WFMin
<1>5. ASSUME NEW j \in S PROVE i <= j
  <2>1. j \in Nat /\ i \in Nat BY <1>3
  <2>2. <<j, i>> \in Nat \X Nat BY <2>1
  <2>3. ~ (j < i) BY <1>4, <2>2
  <2> QED BY <2>1, <2>3
<1>6. QED BY <1>5 DEF First

(* Counters stay below the number of their values.                         *)
LEMMA ModType ==
  ASSUME NEW t \in Nat
  PROVE  t % Wrap \in 0 .. Wrap - 1
BY TimeAssumption

-----------------------------------------------------------------------------
(* Who is where: the mutex belongs to the thread that is in one of its     *)
(* sections.                                                               *)

MainAts   == {"idle", "claim", "opening", "timeout", "disconnect", "stop", "join", "send",
              "push", "drain", "close", "join recv", "destroyed"}
MainHolds == {"claim", "opening", "timeout", "disconnect", "stop", "join"}
RecvAts   == {"recvfrom", "look", "claim", "opening", "stamp", "push", "exited"}

MutexHeld ==
  /\ mutex \in {"free", "main", "recv"}
  /\ mutex = "main" <=> main.at \in MainHolds
  /\ mutex = "recv" <=> recv.at \in {"claim", "opening"}

MainCalls ==
  /\ main.at \in {"opening", "stop", "join", "push", "drain"} => main.i \in Slots
  /\ main.at = "claim" => main.to \in Addresses
  /\ main.at \in {"timeout", "send", "push", "drain"} => main.call = "update"
  /\ main.at = "disconnect" => main.call \in {"disconnect", "destroy"}
  /\ main.at \in {"stop", "join"} => main.call \in {"update", "disconnect", "destroy"}

RecvCalls == recv.at \in {"look", "claim", "opening", "stamp", "push"} => recv.from \in Addresses

Clocked == clock \in 0 .. MaxTime

Places == MainTyped /\ RecvTyped /\ MutexHeld /\ MainCalls /\ RecvCalls /\ Clocked

LEMMA MainMoves ==
  ASSUME MainTyped, NEW where \in MainAts, NEW i \in 1 .. N + 1, GoTo(where, i)
  PROVE  /\ MainTyped' /\ main'.at = where /\ main'.i = i
         /\ main'.call = main.call /\ main'.to = main.to /\ main'.now = main.now
BY DEF MainTyped, GoTo, MainAts

LEMMA MainSends ==
  ASSUME MainTyped, main' = [main EXCEPT !.at = "send", !.i = 1, !.now = 0]
  PROVE  MainTyped' /\ main'.at = "send" /\ main'.call = main.call
<1>1. 1 \in 1 .. N + 1 /\ 0 \in 0 .. MaxTime BY TableAssumption, TimeAssumption
<1>2. QED BY <1>1 DEF MainTyped

LEMMA MainReturns ==
  ASSUME Return
  PROVE  MainTyped' /\ main'.at = "idle"
BY TableAssumption, TimeAssumption DEF MainTyped, Return

LEMMA RecvMoves ==
  ASSUME RecvTyped, NEW where \in RecvAts, NEW i \in Slots, RecvGoTo(where, i)
  PROVE  RecvTyped' /\ recv'.at = where /\ recv'.i = i /\ recv'.from = recv.from
BY DEF RecvTyped, RecvGoTo, RecvAts

LEMMA RecvReturns ==
  ASSUME RecvNext
  PROVE  RecvTyped' /\ recv'.at = "recvfrom"
BY TableAssumption DEF RecvTyped, RecvNext, Slots

LEMMA SlotsFollow ==
  /\ 1 \in Slots /\ Slots \subseteq 1 .. N + 1
  /\ \A i \in Slots : i + 1 \in 1 .. N + 1
  /\ \A i \in 1 .. N + 1 : i \in Slots \/ i > N
BY TableAssumption DEF Slots

LEMMA PlacesInit == Init => Places
<1> SUFFICES ASSUME Init PROVE Places
  OBVIOUS
<1>1. MainTyped BY TableAssumption, TimeAssumption DEF Init, MainTyped
<1>2. RecvTyped BY SlotsFollow DEF Init, RecvTyped
<1>3. QED BY <1>1, <1>2, TimeAssumption DEF Init, Places, MutexHeld, MainHolds, MainCalls, RecvCalls, Clocked

LEMMA PlacesNext == Places /\ [Next]_vars => Places'
<1> SUFFICES ASSUME Places, [Next]_vars PROVE Places'
  OBVIOUS
<1> USE DEF Places, MutexHeld, MainCalls, RecvCalls, MainHolds, MainAts, RecvAts, MainAt, RecvAt
<1>c. rest' = rest => Clocked' BY DEF rest, Clocked
<1>u. ASSUME UNCHANGED <<mutex, main, recv>> PROVE Places' \/ ~Clocked'
  BY <1>u DEF MainTyped, RecvTyped
<1>r. ASSUME UNCHANGED recv PROVE RecvTyped' /\ RecvCalls'
  BY <1>r DEF RecvTyped
<1>m. ASSUME UNCHANGED main PROVE MainTyped' /\ MainCalls'
  BY <1>m DEF MainTyped
<1>i. main.i \in 1 .. N + 1 /\ recv.i \in Slots BY DEF MainTyped, RecvTyped
<1>1. CASE UNCHANGED vars BY <1>1, <1>u, <1>c DEF vars
<1>2. ASSUME NEW a \in Servers, Connect(a) PROVE Places'
  <2>1. MainTyped' /\ main'.at = "claim" /\ main'.to = a
    BY <1>2, PortAssumption DEF Connect, MainTyped
  <2>2. QED BY <1>2, <1>r, <1>c, <2>1, PortAssumption DEF Connect
<1>3. CASE ConnectClaims
  <2>1. First(Free) \in Slots BY <1>3, FirstIn DEF ConnectClaims, ClaimSlot, Free, Known
  <2>2. MainTyped' /\ main'.at = "opening" /\ main'.i = First(Free)
    BY <1>3, <2>1, MainMoves, SlotsFollow DEF ConnectClaims
  <2>3. QED BY <1>3, <1>r, <1>c, <2>1, <2>2 DEF ConnectClaims
<1>4. CASE ConnectFails BY <1>4, <1>r, <1>c, MainReturns DEF ConnectFails
<1>5. CASE Connected BY <1>5, <1>r, <1>c, MainReturns DEF Connected, FinishSlot
<1>6. CASE UpdateLocks
  <2>1. MainTyped' /\ main'.at = "timeout" /\ main'.call = "update"
    BY <1>6 DEF UpdateLocks, MainTyped, Clocked
  <2>2. QED BY <1>6, <1>r, <1>c, <2>1 DEF UpdateLocks
<1>7. CASE Timeouts
  <2>1. CASE main.i > N
    <3>1. main' = [main EXCEPT !.at = "send", !.i = 1, !.now = 0] /\ mutex' = "free"
      BY <1>7, <1>i, <2>1, TableAssumption DEF Timeouts, Slots
    <3>2. MainTyped' /\ main'.at = "send" /\ main'.call = main.call
      BY <3>1, MainSends
    <3>3. QED BY <1>7, <1>r, <1>c, <3>1, <3>2 DEF Timeouts
  <2>2. CASE main.i \in Slots /\ GoTo("stop", main.i) /\ UNCHANGED mutex
    <3>1. MainTyped' /\ main'.at = "stop" /\ main'.i = main.i /\ main'.call = main.call
      BY <2>2, MainMoves, <1>i
    <3>2. QED BY <1>7, <1>r, <1>c, <2>2, <3>1 DEF Timeouts
  <2>3. CASE main.i \in Slots /\ GoTo("timeout", main.i + 1) /\ UNCHANGED mutex
    <3>1. MainTyped' /\ main'.at = "timeout" /\ main'.call = main.call BY <2>3, MainMoves, SlotsFollow
    <3>2. QED BY <1>7, <1>r, <1>c, <2>3, <3>1 DEF Timeouts
  <2>4. QED BY <1>7, <2>1, <2>2, <2>3 DEF Timeouts
<1>8. ASSUME NEW call \in {"disconnect", "destroy"}, DisconnectLocks(call) PROVE Places'
  <2>1. MainTyped' /\ main'.at = "disconnect" /\ main'.call = call BY <1>8 DEF DisconnectLocks, MainTyped
  <2>2. QED BY <1>8, <1>r, <1>c, <2>1 DEF DisconnectLocks
<1>9. CASE Disconnects
  <2>1. CASE GoTo("disconnect", main.i + 1)
    <3>1. MainTyped' /\ main'.at = "disconnect" /\ main'.call = main.call
      BY <1>9, <2>1, MainMoves, SlotsFollow DEF Disconnects
    <3>2. QED BY <1>9, <1>r, <1>c, <3>1 DEF Disconnects
  <2>2. CASE GoTo("stop", main.i)
    <3>1. MainTyped' /\ main'.at = "stop" /\ main'.i = main.i /\ main'.call = main.call
      BY <2>2, MainMoves, <1>i
    <3>2. QED BY <1>9, <1>r, <1>c, <3>1 DEF Disconnects
  <2>3. QED BY <1>9, <2>1, <2>2 DEF Disconnects
<1>10. CASE Disconnected
  <2>1. MainTyped' /\ main'.at \in {"close", "idle"}
    BY <1>10, MainMoves, MainReturns, SlotsFollow DEF Disconnected
  <2>2. QED BY <1>10, <1>r, <1>c, <2>1 DEF Disconnected
<1>11. CASE Stop
  <2>1. MainTyped' /\ main'.at = "join" /\ main'.i = main.i /\ main'.call = main.call
    BY <1>11, MainMoves, <1>i DEF Stop
  <2>2. QED BY <1>11, <1>r, <1>c, <2>1 DEF Stop
<1>12. CASE Join
  <2>1. main.i \in Slots BY <1>12 DEF Join
  <2>2. MainTyped' /\ main'.call = main.call
        /\ main'.at = IF main.call = "update" THEN "timeout" ELSE "disconnect"
    BY <1>12, <2>1, MainMoves, SlotsFollow DEF Join, TornDown
  <2>3. main.call \in {"update", "disconnect", "destroy"} BY <1>12 DEF Join
  <2>4. QED BY <1>12, <1>r, <1>c, <2>2, <2>3 DEF Join, TornDown
<1>13. CASE Skip
  <2>1. CASE Return BY <1>13, <1>r, <1>c, <2>1, MainReturns DEF Skip
  <2>2. CASE main.i \in Slots /\ Next_i
    <3>1. MainTyped' /\ main'.at = "send" /\ main'.call = main.call
      BY <2>2, MainMoves, SlotsFollow DEF Next_i
    <3>2. QED BY <1>13, <1>r, <1>c, <3>1 DEF Skip
  <2>3. QED BY <1>13, <2>1, <2>2 DEF Skip
<1>14. CASE Send
  <2>1. \/ MainTyped' /\ main'.at = "push" /\ main'.i = main.i /\ main'.call = main.call
        \/ UNCHANGED main
    BY <1>14, MainMoves, <1>i DEF Send
  <2>2. QED BY <1>14, <1>r, <1>m, <1>c, <2>1 DEF Send
<1>15. CASE Push
  <2>1. \/ MainTyped' /\ main'.at = "drain" /\ main'.i = main.i /\ main'.call = main.call
        \/ UNCHANGED main
    BY <1>15, MainMoves, <1>i DEF Push
  <2>2. QED BY <1>15, <1>r, <1>m, <1>c, <2>1 DEF Push
<1>16. CASE Drain
  <2>1. \/ MainTyped' /\ main'.at = "send" /\ main'.call = main.call
        \/ UNCHANGED main
    BY <1>16, MainMoves, SlotsFollow DEF Drain, Next_i
  <2>2. QED BY <1>16, <1>r, <1>m, <1>c, <2>1 DEF Drain
<1>17. CASE Close
  <2>1. MainTyped' /\ main'.at = "join recv" BY <1>17, MainMoves, SlotsFollow DEF Close
  <2>2. QED BY <1>17, <1>r, <2>1 DEF Close, Clocked
<1>18. CASE JoinRecv
  <2>1. MainTyped' /\ main'.at = "destroyed" BY <1>18, MainMoves, SlotsFollow DEF JoinRecv
  <2>2. QED BY <1>18, <1>r, <1>c, <2>1 DEF JoinRecv
<1>19. ASSUME NEW a \in Addresses, Arrive(a) PROVE Places'
  <2>1. RecvTyped' /\ recv'.at = "look" /\ recv'.from = a BY <1>19, SlotsFollow DEF Arrive, RecvTyped
  <2>2. QED BY <1>19, <1>m, <1>c, <2>1 DEF Arrive
<1>20. CASE RecvFails
  <2>1. RecvTyped' /\ recv'.at = "exited" BY <1>20, RecvMoves, SlotsFollow DEF RecvFails
  <2>2. QED BY <1>20, <1>m, <1>c, <2>1 DEF RecvFails
<1>21. CASE Find
  <2>1. First(Known(recv.from)) \in Slots BY <1>21, FirstIn DEF Find, Known
  <2>2. RecvTyped' /\ recv'.at = "stamp" /\ recv'.from = recv.from BY <1>21, <2>1, RecvMoves DEF Find
  <2>3. QED BY <1>21, <1>m, <1>c, <2>2 DEF Find
<1>22. CASE Miss
  <2>1. RecvTyped' /\ recv'.at = "claim" /\ recv'.from = recv.from BY <1>22, RecvMoves, SlotsFollow DEF Miss
  <2>2. QED BY <1>22, <1>m, <1>c, <2>1 DEF Miss
<1>23. CASE RecvClaims
  <2>1. First(Free) \in Slots BY <1>23, FirstIn DEF RecvClaims, ClaimSlot, Free, Known
  <2>2. RecvTyped' /\ recv'.at = "opening" /\ recv'.from = recv.from BY <1>23, <2>1, RecvMoves DEF RecvClaims
  <2>3. QED BY <1>23, <1>m, <1>c, <2>2 DEF RecvClaims
<1>24. CASE Created
  <2>1. RecvTyped' /\ recv'.at = "stamp" /\ recv'.from = recv.from BY <1>24, <1>i, RecvMoves DEF Created
  <2>2. QED BY <1>24, <1>m, <1>c, <2>1 DEF Created, FinishSlot
<1>25. CASE TooMany BY <1>25, <1>m, <1>c, RecvReturns DEF TooMany
<1>26. CASE Stamp
  <2>1. RecvTyped' /\ recv'.at = "push" /\ recv'.from = recv.from BY <1>26, <1>i, RecvMoves DEF Stamp
  <2>2. QED BY <1>26, <1>m, <1>c, <2>1 DEF Stamp
<1>27. CASE Deliver BY <1>27, <1>m, <1>c, RecvReturns DEF Deliver
<1>28. CASE DeliverNowhere BY <1>28, <1>u, <1>c DEF DeliverNowhere
<1>29. ASSUME NEW i \in Slots, Sender(i) PROVE Places' BY <1>29, <1>u, <1>c DEF Sender
<1>30. CASE Tick
  <2>1. clock' \in 0 .. MaxTime BY <1>30, TimeAssumption DEF Tick, Clocked
  <2>2. QED BY <1>30, <1>u, <2>1 DEF Tick, Clocked
<1>31. CASE Ended BY <1>1, <1>31 DEF Ended
<1>32. QED
  BY <1>1, <1>2, <1>3, <1>4, <1>5, <1>6, <1>7, <1>8, <1>9, <1>10, <1>11, <1>12, <1>13, <1>14,
     <1>15, <1>16, <1>17, <1>18, <1>19, <1>20, <1>21, <1>22, <1>23, <1>24, <1>25, <1>26, <1>27,
     <1>28, <1>29, <1>30, <1>31
  DEF Next, Main, InCall, Recv, Receives

-----------------------------------------------------------------------------
(* The rest of the types.                                                  *)

LEMMA TableTypedNext == Places /\ TableTyped /\ [Next]_vars => TableTyped'
<1> SUFFICES ASSUME Places, TableTyped, [Next]_vars PROVE TableTyped'
  OBVIOUS
<1> USE DEF TableTyped
<1>u. ASSUME UNCHANGED <<mutex, table, sender, closed, stale, crashed>> PROVE TableTyped'
  BY <1>u DEF table
<1>m. mutex' \in {"free", "main", "recv"} BY PlacesNext DEF Places, MutexHeld
<1>i. main.i \in 1 .. N + 1 /\ recv.i \in Slots BY DEF Places, MainTyped, RecvTyped
<1>1. CASE UNCHANGED vars BY <1>1, <1>u DEF vars, rest
<1>2. ASSUME NEW a \in Servers, Connect(a) PROVE TableTyped' BY <1>2, <1>m DEF Connect, table, rest
<1>3. CASE ConnectClaims
  <2>1. main.to \in Addresses BY <1>3 DEF ConnectClaims, MainAt, Places, MainCalls
  <2>2. address' \in [Slots -> Addresses \cup {NoAddress}] BY <1>3, <2>1 DEF ConnectClaims, ClaimSlot
  <2>3. QED BY <1>3, <1>m, <2>2 DEF ConnectClaims, ClaimSlot, rest
<1>4. CASE ConnectFails BY <1>4, <1>m DEF ConnectFails, table, rest
<1>5. CASE Connected BY <1>5, <1>m, <1>i DEF Connected, FinishSlot, MainAt, Places, MainCalls, rest
<1>6. CASE UpdateLocks BY <1>6, <1>m DEF UpdateLocks, table, rest
<1>7. CASE Timeouts BY <1>7, <1>m DEF Timeouts, table, rest
<1>8. ASSUME NEW call \in {"disconnect", "destroy"}, DisconnectLocks(call) PROVE TableTyped'
  BY <1>8, <1>m DEF DisconnectLocks, table, rest
<1>9. CASE Disconnects BY <1>9, <1>m DEF Disconnects, table, rest
<1>10. CASE Disconnected BY <1>10, <1>m DEF Disconnected, rest
<1>11. CASE Stop BY <1>11, <1>u DEF Stop, rest
<1>12. CASE Join BY <1>12, <1>m DEF Join, TornDown, rest
<1>13. CASE Skip BY <1>13, <1>u DEF Skip, rest
<1>14. CASE Send BY <1>14 DEF Send, table, rest
<1>15. CASE Push BY <1>15 DEF Push, table, rest
<1>16. CASE Drain BY <1>16, <1>u DEF Drain, rest
<1>17. CASE Close BY <1>17 DEF Close, table
<1>18. CASE JoinRecv BY <1>18, <1>u DEF JoinRecv, rest
<1>19. ASSUME NEW a \in Addresses, Arrive(a) PROVE TableTyped' BY <1>19, <1>u DEF Arrive, rest
<1>20. CASE RecvFails BY <1>20, <1>u DEF RecvFails, rest
<1>21. CASE Find BY <1>21 DEF Find, table, rest
<1>22. CASE Miss BY <1>22, <1>m DEF Miss, table, rest
<1>23. CASE RecvClaims
  <2>1. recv.from \in Addresses BY <1>23 DEF RecvClaims, RecvAt, Places, RecvCalls
  <2>2. address' \in [Slots -> Addresses \cup {NoAddress}] BY <1>23, <2>1 DEF RecvClaims, ClaimSlot
  <2>3. QED BY <1>23, <1>m, <2>2 DEF RecvClaims, ClaimSlot, rest
<1>24. CASE Created BY <1>24, <1>m, <1>i DEF Created, FinishSlot, rest
<1>25. CASE TooMany BY <1>25, <1>m DEF TooMany, table, rest
<1>26. CASE Stamp BY <1>26 DEF Stamp, rest
<1>27. CASE Deliver BY <1>27 DEF Deliver, table, rest
<1>28. CASE DeliverNowhere BY <1>28 DEF DeliverNowhere, table, rest
<1>29. ASSUME NEW i \in Slots, Sender(i) PROVE TableTyped' BY <1>29 DEF Sender, table, rest
<1>30. CASE Tick BY <1>30, <1>u DEF Tick
<1>31. CASE Ended BY <1>1, <1>31 DEF Ended
<1>32. QED
  BY <1>1, <1>2, <1>3, <1>4, <1>5, <1>6, <1>7, <1>8, <1>9, <1>10, <1>11, <1>12, <1>13, <1>14,
     <1>15, <1>16, <1>17, <1>18, <1>19, <1>20, <1>21, <1>22, <1>23, <1>24, <1>25, <1>26, <1>27,
     <1>28, <1>29, <1>30, <1>31
  DEF Next, Main, InCall, Recv, Receives

(* Only few steps touch the queues, and few the times.                     *)
LEMMA QueuesTypedNext == Places /\ QueuesTyped /\ [Next]_vars => QueuesTyped'
<1> SUFFICES ASSUME Places, QueuesTyped, [Next]_vars PROVE QueuesTyped'
  OBVIOUS
<1> USE DEF QueuesTyped
<1>u. ASSUME UNCHANGED queues PROVE QueuesTyped' BY <1>u DEF queues
<1>1. ASSUME NEW i \in Slots, FinishSlot(i) PROVE QueuesTyped'
  <2>1. <<>> \in Seq({"packet", "NULL"}) /\ 0 \in 0 .. Capacity BY TableAssumption
  <2>2. QED BY <1>1, <2>1 DEF FinishSlot
<1>2. CASE Connected \/ Created
  BY <1>1, <1>2 DEF Connected, Created, Places, MainCalls, RecvTyped, MainAt
<1>3. CASE Stop \/ Push
  <2>1. main.i \in Slots BY <1>3 DEF Stop, Push, MainAt, Places, MainCalls
  <2>2. \A m \in {"packet", "NULL"} : Append(send_queue[main.i], m) \in Seq({"packet", "NULL"})
    BY <2>1
  <2>3. QED BY <1>3, <2>2 DEF Stop, Push
<1>4. CASE Join
  <2>1. <<>> \in Seq({"packet", "NULL"}) /\ 0 \in 0 .. Capacity BY TableAssumption
  <2>2. QED BY <1>4, <2>1 DEF Join, TornDown
<1>5. CASE Drain
  <2>1. main.i \in Slots BY <1>5 DEF Drain, Places, MainCalls, MainAt
  <2>2. recv_queue[main.i] # 0 => recv_queue[main.i] - 1 \in 0 .. Capacity BY <2>1, TableAssumption
  <2>3. QED BY <1>5, <2>2 DEF Drain
<1>6. CASE Deliver
  <2>1. recv.i \in Slots BY DEF Places, RecvTyped
  <2>2. recv_queue[recv.i] < Capacity => recv_queue[recv.i] + 1 \in 0 .. Capacity BY <2>1, TableAssumption
  <2>3. QED BY <1>6, <2>2 DEF Deliver
<1>7. ASSUME NEW i \in Slots, Sender(i) PROVE QueuesTyped'
  <2>1. Tail(send_queue[i]) \in Seq({"packet", "NULL"}) BY <1>7 DEF Sender
  <2>2. QED BY <1>7, <2>1 DEF Sender
<1>8. QED
  BY <1>u, <1>2, <1>3, <1>4, <1>5, <1>6, <1>7
  DEF Next, Main, InCall, Recv, Receives, vars, Connect, ConnectClaims, ConnectFails, UpdateLocks,
      Timeouts, DisconnectLocks, Disconnects, Disconnected, Skip, Send, Close, JoinRecv, Arrive,
      RecvFails, Find, Miss, RecvClaims, TooMany, Stamp, DeliverNowhere, Tick, Ended

LEMMA TimesTypedNext == Places /\ TimesTyped /\ [Next]_vars => TimesTyped'
<1> SUFFICES ASSUME Places, TimesTyped, [Next]_vars PROVE TimesTyped'
  OBVIOUS
<1>c. clock' \in 0 .. MaxTime BY PlacesNext DEF Places, Clocked
<1>u. ASSUME UNCHANGED last_recv_ms PROVE TimesTyped' BY <1>c, <1>u DEF TimesTyped
<1>t. 0 \in 0 .. Wrap - 1 /\ clock % Wrap \in 0 .. Wrap - 1
  <2>1. clock \in Nat BY TimeAssumption DEF TimesTyped
  <2>2. QED BY <2>1, ModType, TimeAssumption
<1>1. CASE Connected \/ Created
  <2>1. PICK i : FinishSlot(i) BY <1>1 DEF Connected, Created
  <2>2. last_recv_ms' = [last_recv_ms EXCEPT ![i] = clock % Wrap] BY <2>1 DEF FinishSlot
  <2>3. QED BY <2>2, <1>c, <1>t DEF TimesTyped
<1>2. CASE Disconnected BY <1>2, <1>c, <1>t DEF TimesTyped, Disconnected
<1>3. CASE Join BY <1>3, <1>c, <1>t DEF TimesTyped, Join, TornDown
<1>4. CASE Stamp BY <1>4, <1>c, <1>t DEF TimesTyped, Stamp
<1>5. QED
  BY <1>u, <1>1, <1>2, <1>3, <1>4
  DEF Next, Main, InCall, Recv, Receives, vars, table, rest, Connect, ConnectClaims, ConnectFails,
      ClaimSlot, UpdateLocks, Timeouts, DisconnectLocks, Disconnects, Stop, Skip, Send, Push, Drain,
      Close, JoinRecv, Arrive, RecvFails, Find, Miss, RecvClaims, TooMany, Deliver, DeliverNowhere,
      Sender, Tick, Ended

Typed == Places /\ TypeOK

LEMMA TypedInit == Init => Typed
<1> SUFFICES ASSUME Init PROVE Typed
  OBVIOUS
<1>1. Places BY PlacesInit
<1>2. TableTyped BY <1>1 DEF Init, TableTyped
<1>3. QueuesTyped
  <2>1. <<>> \in Seq({"packet", "NULL"}) /\ 0 \in 0 .. Capacity BY TableAssumption
  <2>2. QED BY <2>1 DEF Init, QueuesTyped
<1>4. TimesTyped BY TimeAssumption DEF Init, TimesTyped
<1>5. QED BY <1>1, <1>2, <1>3, <1>4 DEF Typed, TypeOK, Places

LEMMA TypedNext == Typed /\ [Next]_vars => Typed'
BY PlacesNext, TableTypedNext, QueuesTypedNext, TimesTypedNext DEF Typed, TypeOK, Places

(* The state keeps its types for any table and queues, and the mutex its   *)
(* owner.  (net.c:307-347, 392-413)                                        *)
THEOREM ConnectionsTyped == Spec => [](Places /\ TypeOK)
<1>1. Init => Typed BY TypedInit
<1>2. Typed /\ [Next]_vars => Typed' BY TypedNext
<1>3. QED BY <1>1, <1>2, PTL DEF Spec, Typed

-----------------------------------------------------------------------------
(* The table.  A claimed entry is in one of four states: being opened,     *)
(* open, timed out or disconnected with it all, and the last goes on       *)
(* having its address until the table is cleared.                          *)

Opening(i) == \/ main.at = "opening" /\ main.i = i
              \/ recv.at = "opening" /\ recv.i = i

GoneBefore(i) == main.at \in {"disconnect", "stop", "join"} /\ main.call # "update" /\ i < main.i

Lives  == \A i \in Slots : /\ open[i] <=> sender[i] # "none"
                           /\ open[i] => address[i] # NoAddress /\ ~Opening(i)
Gone   == \A i \in Slots : GoneBefore(i) => ~open[i]
Whole  == \A i \in Slots : address[i] # NoAddress => open[i] \/ Opening(i) \/ GoneBefore(i)

Starts == main.at = "idle" => main.i = 1
Claims == /\ main.at = "claim" => Known(main.to) = {}
          /\ recv.at = "claim" => Known(recv.from) = {}
Names  == /\ main.at \in {"opening", "push", "drain"} => address[main.i] # NoAddress
          /\ recv.at = "opening" => address[recv.i] = recv.from
Found  == recv.at \in {"stamp", "push"} => stale \/ (open[recv.i] /\ address[recv.i] = recv.from)

AfterDisconnect == main.at \in {"close", "join recv", "destroyed"}
Orphans == AfterDisconnect => \A i \in Slots : sender[i] # "none" => i \in late

Tables == Lives /\ Gone /\ Whole /\ Starts /\ Claims /\ Names /\ Found /\ Orphans
          /\ OneConnectionEach /\ CrashesAreRaces

LEMMA TablesInit == Init => Tables
BY DEF Init, Tables, Lives, Gone, Whole, Starts, Claims, Names, Found, Orphans, AfterDisconnect,
       OneConnectionEach, CrashesAreRaces, Opening, GoneBefore

(* What Lives says of an entry, from each side.                            *)
LEMMA Closed ==
  ASSUME TableTyped, Lives, NEW i \in Slots
  PROVE  /\ address[i] = NoAddress => ~open[i]
         /\ ~open[i] => sender[i] = "none"
         /\ sender[i] # "none" => open[i] /\ address[i] # NoAddress
<1>1. open[i] = TRUE \/ open[i] = FALSE BY DEF TableTyped
<1>2. CASE open[i] = TRUE BY <1>2, Zenon DEF Lives
<1>3. CASE open[i] = FALSE BY <1>3, Zenon DEF Lives
<1>4. QED BY <1>1, <1>2, <1>3

(* Claiming an entry that was free, and finishing it.                      *)
LEMMA Claiming ==
  ASSUME TableTyped, Lives, OneConnectionEach, NEW a \in Addresses, Known(a) = {}, ClaimSlot(a)
  PROVE  /\ First(Free) \in Slots /\ address[First(Free)] = NoAddress /\ ~open[First(Free)]
         /\ address' = [address EXCEPT ![First(Free)] = a] /\ address'[First(Free)] = a
         /\ a # NoAddress /\ OneConnectionEach'
<1>1. First(Free) \in Slots /\ address[First(Free)] = NoAddress
  BY FirstIn DEF ClaimSlot, Free, Known
<1>2. a # NoAddress BY PortAssumption
<1>3. address' = [address EXCEPT ![First(Free)] = a] /\ address'[First(Free)] = a
  BY <1>1 DEF ClaimSlot, TableTyped
<1>4. \A i \in Slots : address[i] # a BY DEF Known
<1>5. OneConnectionEach' BY <1>1, <1>3, <1>4 DEF OneConnectionEach, TableTyped
<1>6. ~open[First(Free)] BY <1>1, Closed
<1>7. QED BY <1>1, <1>2, <1>3, <1>5, <1>6

(* Steps of main that leave the table, the receive thread and the send     *)
(* threads alone.                                                          *)
LEMMA TablesMain ==
  ASSUME Typed, Tables, MainTyped',
         UNCHANGED <<address, open, late, sender, recv, stale>>,
         main.at # "opening", main'.at # "opening",
         \A i \in Slots : GoneBefore(i) => (GoneBefore(i))',
         \A i \in Slots : (GoneBefore(i))' => ~open[i],
         main'.at = "idle" => main'.i = 1,
         main'.at = "claim" => Known(main'.to) = {},
         main'.at \in {"push", "drain"} => address[main'.i] # NoAddress,
         (AfterDisconnect)' => AfterDisconnect \/ \A i \in Slots : sender[i] = "none",
         CrashesAreRaces'
  PROVE  Tables'
<1> USE DEF Tables
<1>1. \A i \in Slots : Opening(i) => (Opening(i))' BY DEF Opening
<1>2. \A i \in Slots : (Opening(i))' => Opening(i) BY DEF Opening
<1>3. Lives' BY <1>2 DEF Lives
<1>4. Gone' BY DEF Gone
<1>5. Whole' BY <1>1 DEF Whole
<1>6. Starts' /\ Claims' /\ Names' BY DEF Starts, Claims, Names, Known
<1>7. Found' BY DEF Found
<1>8. Orphans' BY DEF Orphans
<1>9. OneConnectionEach' BY DEF OneConnectionEach
<1>10. QED BY <1>3, <1>4, <1>5, <1>6, <1>7, <1>8, <1>9

(* Steps of the receive thread that leave the table alone, and steps of    *)
(* neither.                                                                *)
LEMMA TablesRecv ==
  ASSUME Typed, Tables, UNCHANGED <<address, open, late, sender, main>>,
         recv.at # "opening", recv'.at # "opening",
         recv'.at = "claim" => Known(recv'.from) = {},
         recv'.at \in {"stamp", "push"} => stale' \/ (open[recv'.i] /\ address[recv'.i] = recv'.from),
         CrashesAreRaces'
  PROVE  Tables'
<1> USE DEF Tables
<1>1. \A i \in Slots : Opening(i) <=> (Opening(i))' BY DEF Opening
<1>2. \A i \in Slots : GoneBefore(i) <=> (GoneBefore(i))' BY DEF GoneBefore
<1>3. Lives' BY <1>1 DEF Lives
<1>4. Gone' BY <1>2 DEF Gone
<1>5. Whole' BY <1>1, <1>2 DEF Whole
<1>6. Starts' /\ Claims' /\ Names' BY DEF Starts, Claims, Names, Known
<1>7. Found' BY DEF Found
<1>8. Orphans' BY DEF Orphans, AfterDisconnect
<1>9. OneConnectionEach' BY DEF OneConnectionEach
<1>10. QED BY <1>3, <1>4, <1>5, <1>6, <1>7, <1>8, <1>9

LEMMA TablesSame ==
  ASSUME Tables, UNCHANGED <<address, open, late, sender, main, recv, stale, crashed>>
  PROVE  Tables'
BY DEF Tables, Lives, Gone, Whole, Starts, Claims, Names, Found, Orphans, AfterDisconnect,
       OneConnectionEach, CrashesAreRaces, Opening, GoneBefore, Known

LEMMA TablesNext == Typed /\ Tables /\ [Next]_vars => Tables'
<1> SUFFICES ASSUME Typed, Tables, [Next]_vars PROVE Tables'
  OBVIOUS
<1> USE DEF MainAts, RecvAts, table
<1>t. /\ MainTyped /\ MainTyped' /\ RecvTyped /\ TableTyped /\ MutexHeld /\ MutexHeld'
      /\ MainCalls /\ RecvCalls
  BY TypedNext DEF Typed, TypeOK, Places
<1>i. main.i \in 1 .. N + 1 /\ recv.i \in Slots BY <1>t DEF MainTyped, RecvTyped
<1>n. Slots \subseteq Int /\ 1 .. N + 1 \subseteq Int BY TableAssumption DEF Slots
<1>k. crashed' = "nobody" => CrashesAreRaces' BY DEF CrashesAreRaces
<1>1. CASE UNCHANGED vars BY <1>1, TablesSame DEF vars
<1>2. ASSUME NEW a \in Servers, Connect(a) PROVE Tables'
  <2>1. main'.at = "claim" /\ main'.to = a /\ main'.i = main.i
    BY <1>2, <1>t DEF Connect, MainTyped
  <2>2. crashed' = "nobody" /\ main.at = "idle" /\ Known(main'.to) = {} BY <1>2, <2>1 DEF Connect, MainAt, Running
  <2>3. QED BY <1>2, <1>t, <1>k, <2>1, <2>2, TablesMain DEF Connect, GoneBefore, AfterDisconnect
<1>4. CASE ConnectFails
  <2>1. main'.at = "idle" /\ main'.i = 1 BY <1>4 DEF ConnectFails, Return
  <2>2. crashed' = "nobody" /\ main.at = "claim" BY <1>4 DEF ConnectFails, MainAt, Running
  <2>3. QED BY <1>4, <1>t, <1>k, <2>1, <2>2, TablesMain DEF ConnectFails, GoneBefore, AfterDisconnect
<1>6. CASE UpdateLocks
  <2>1. main'.at = "timeout" BY <1>6, <1>t DEF UpdateLocks, MainTyped
  <2>2. crashed' = "nobody" /\ main.at = "idle" BY <1>6 DEF UpdateLocks, MainAt, Running
  <2>3. QED BY <1>6, <1>t, <1>k, <2>1, <2>2, TablesMain DEF UpdateLocks, GoneBefore, AfterDisconnect
<1>7. CASE Timeouts
  <2>1. main'.at \in {"send", "stop", "timeout"} /\ main'.call = main.call
    BY <1>7, <1>t DEF Timeouts, GoTo, MainTyped
  <2>2. crashed' = "nobody" /\ main.at = "timeout" /\ main.call = "update"
    BY <1>7, <1>t DEF Timeouts, MainAt, Running, MainCalls
  <2>3. QED BY <1>7, <1>t, <1>k, <2>1, <2>2, TablesMain DEF Timeouts, GoneBefore, AfterDisconnect
<1>8. ASSUME NEW call \in {"disconnect", "destroy"}, DisconnectLocks(call) PROVE Tables'
  <2>1. main'.at = "disconnect" /\ main'.i = main.i BY <1>8, <1>t DEF DisconnectLocks, MainTyped
  <2>2. crashed' = "nobody" /\ main.at = "idle" /\ main.i = 1
    BY <1>8 DEF DisconnectLocks, MainAt, Running, Tables, Starts
  <2>3. \A i \in Slots : ~ (i < main'.i) BY <2>1, <2>2 DEF Slots
  <2>4. QED BY <1>8, <1>t, <1>k, <2>1, <2>2, <2>3, TablesMain DEF DisconnectLocks, GoneBefore, AfterDisconnect
<1>9. CASE Disconnects
  <2>1. /\ crashed' = "nobody" /\ main.at = "disconnect" /\ main.i \in Slots
        /\ main'.call = main.call
        /\ \/ main'.at = "stop" /\ main'.i = main.i
           \/ main'.at = "disconnect" /\ main'.i = main.i + 1 /\ address[main.i] = NoAddress
    BY <1>9, <1>t DEF Disconnects, MainAt, Running, GoTo, MainTyped
  <2>2. address[main.i] = NoAddress => ~open[main.i] BY <1>t, <2>1, Closed DEF Tables
  <2>3. \A i \in Slots : i < main.i + 1 <=> i < main.i \/ i = main.i BY <1>i, <1>n
  <2>4. QED BY <1>9, <1>t, <1>k, <2>1, <2>2, <2>3, TablesMain
        DEF Disconnects, GoneBefore, AfterDisconnect, Tables, Gone
<1>11. CASE Stop
  <2>1. /\ crashed' = "nobody" /\ main.at = "stop"
        /\ main'.at = "join" /\ main'.i = main.i /\ main'.call = main.call
    BY <1>11, <1>t DEF Stop, MainAt, Running, GoTo, MainTyped
  <2>2. QED BY <1>11, <1>t, <1>k, <2>1, TablesMain DEF Stop, GoneBefore, AfterDisconnect, Tables, Gone
<1>13. CASE Skip
  <2>1. /\ crashed' = "nobody" /\ main.at = "send"
        /\ main'.at = "send" \/ (main'.at = "idle" /\ main'.i = 1)
    <3>1. crashed' = "nobody" /\ main.at = "send" BY <1>13 DEF Skip, MainAt, Running
    <3>2. CASE Return BY <3>1, <3>2 DEF Return
    <3>3. CASE Next_i BY <3>1, <3>3, <1>t DEF Next_i, GoTo, MainTyped
    <3>4. QED BY <1>13, <3>1, <3>2, <3>3 DEF Skip
  <2>2. QED BY <1>13, <1>t, <1>k, <2>1, TablesMain DEF Skip, GoneBefore, AfterDisconnect
<1>14. CASE Send
  <2>1. /\ main.at = "send" /\ address[main.i] # NoAddress /\ crashed = "nobody" /\ main.i \in Slots
        /\ \/ main'.at = "push" /\ main'.i = main.i /\ UNCHANGED crashed
           \/ UNCHANGED main /\ ~open[main.i] /\ crashed' = "main"
    BY <1>14, <1>t DEF Send, MainAt, Running, GoTo, MainTyped
  <2>2. CASE UNCHANGED main /\ ~open[main.i] /\ crashed' = "main"
    <3>1. recv.at = "opening" /\ recv.i = main.i
      BY <2>1, <2>2 DEF Tables, Whole, Opening, GoneBefore
    <3>2. CrashesAreRaces' BY <1>14, <2>2, <3>1 DEF Send, CrashesAreRaces
    <3>3. QED BY <1>14, <1>t, <2>1, <2>2, <3>2, TablesMain DEF Send, GoneBefore, AfterDisconnect
  <2>3. CASE main'.at = "push" /\ main'.i = main.i /\ UNCHANGED crashed
    BY <1>14, <1>t, <1>k, <2>1, <2>3, TablesMain DEF Send, GoneBefore, AfterDisconnect
  <2>4. QED BY <2>1, <2>2, <2>3
<1>15. CASE Push
  <2>1. /\ main.at = "push" /\ address[main.i] # NoAddress /\ crashed = "nobody" /\ main.i \in Slots
        /\ \/ main'.at = "drain" /\ main'.i = main.i /\ UNCHANGED crashed
           \/ UNCHANGED main /\ ~open[main.i] /\ crashed' = "main"
    BY <1>15, <1>t DEF Push, MainAt, Running, GoTo, MainTyped, Tables, Names, MainCalls
  <2>2. CASE UNCHANGED main /\ ~open[main.i] /\ crashed' = "main"
    <3>1. recv.at = "opening" /\ recv.i = main.i
      BY <2>1, <2>2 DEF Tables, Whole, Opening, GoneBefore
    <3>2. CrashesAreRaces' BY <1>15, <2>2, <3>1 DEF Push, CrashesAreRaces
    <3>3. QED BY <1>15, <1>t, <2>1, <2>2, <3>2, TablesMain DEF Push, GoneBefore, AfterDisconnect
  <2>3. CASE main'.at = "drain" /\ main'.i = main.i /\ UNCHANGED crashed
    BY <1>15, <1>t, <1>k, <2>1, <2>3, TablesMain DEF Push, GoneBefore, AfterDisconnect
  <2>4. QED BY <2>1, <2>2, <2>3
<1>16. CASE Drain
  <2>1. /\ main.at = "drain" /\ crashed' = "nobody" /\ address[main.i] # NoAddress
        /\ main'.at = "send" \/ UNCHANGED main
    BY <1>16, <1>t DEF Drain, Next_i, MainAt, Running, GoTo, MainTyped, Tables, Names
  <2>2. QED BY <1>16, <1>t, <1>k, <2>1, TablesMain DEF Drain, GoneBefore, AfterDisconnect
<1>17. CASE Close
  <2>1. main.at = "close" /\ crashed' = "nobody" /\ main'.at = "join recv"
    BY <1>17, <1>t DEF Close, MainAt, Running, GoTo, MainTyped
  <2>2. QED BY <1>17, <1>t, <1>k, <2>1, TablesMain DEF Close, GoneBefore, AfterDisconnect
<1>18. CASE JoinRecv
  <2>1. main.at = "join recv" /\ crashed' = "nobody" /\ main'.at = "destroyed"
    BY <1>18, <1>t DEF JoinRecv, MainAt, Running, GoTo, MainTyped
  <2>2. QED BY <1>18, <1>t, <1>k, <2>1, TablesMain DEF JoinRecv, GoneBefore, AfterDisconnect
<1>3. CASE ConnectClaims
  <2> DEFINE f == First(Free)
  <2>1. main.at = "claim" /\ main.to \in Addresses /\ Known(main.to) = {} /\ crashed' = "nobody"
        /\ UNCHANGED <<open, late, sender, recv, stale>> /\ ClaimSlot(main.to)
    BY <1>3, <1>t DEF ConnectClaims, ClaimSlot, MainAt, Running, MainCalls, Tables, Claims
  <2>2. /\ f \in Slots /\ address[f] = NoAddress /\ ~open[f] /\ OneConnectionEach'
        /\ address' = [address EXCEPT ![f] = main.to] /\ address'[f] # NoAddress
    BY <1>t, <2>1, Claiming DEF Tables
  <2>3. main'.at = "opening" /\ main'.i = f /\ recv.at \notin {"claim", "opening"}
    BY <1>3, <1>t, <2>1, <2>2 DEF ConnectClaims, GoTo, MainTyped, MutexHeld, MainHolds
  <2>4. \A i \in Slots : address'[i] = IF i = f THEN main.to ELSE address[i]
    BY <1>t, <2>2 DEF TableTyped
  <2> HIDE DEF f
  <2>5. Lives' BY <2>1, <2>2, <2>3, <2>4 DEF Tables, Lives, Opening
  <2>6. Whole' BY <2>1, <2>2, <2>3, <2>4 DEF Tables, Whole, Opening, GoneBefore
  <2>7. Found' BY <1>i, <2>1, <2>2, <2>4 DEF Tables, Found
  <2>8. Gone' /\ Starts' /\ Claims' /\ Names' /\ Orphans'
    BY <2>1, <2>2, <2>3 DEF Gone, GoneBefore, Starts, Claims, Names, Orphans, AfterDisconnect
  <2>9. QED BY <1>k, <2>1, <2>2, <2>5, <2>6, <2>7, <2>8 DEF Tables
<1>5. CASE Connected
  <2>1. /\ main.at = "opening" /\ main.i \in Slots /\ crashed' = "nobody"
        /\ UNCHANGED <<address, recv, stale>> /\ main'.at = "idle" /\ main'.i = 1
        /\ open' = [open EXCEPT ![main.i] = TRUE] /\ sender' = [sender EXCEPT ![main.i] = "pop"]
    BY <1>5, <1>t DEF Connected, FinishSlot, Return, MainAt, Running, MainCalls
  <2>2. address[main.i] # NoAddress /\ recv.at \notin {"claim", "opening"}
    BY <1>t, <2>1 DEF Tables, Names, MutexHeld, MainHolds
  <2>3. \A i \in Slots : /\ open'[i] <=> i = main.i \/ open[i]
                         /\ sender'[i] = IF i = main.i THEN "pop" ELSE sender[i]
    BY <1>t, <2>1 DEF TableTyped
  <2>4. Lives' BY <2>1, <2>2, <2>3 DEF Tables, Lives, Opening
  <2>5. Whole' BY <2>1, <2>2, <2>3 DEF Tables, Whole, Opening, GoneBefore
  <2>6. Found' BY <1>i, <2>1, <2>3 DEF Tables, Found
  <2>7. Gone' /\ Starts' /\ Claims' /\ Names' /\ Orphans' /\ OneConnectionEach'
    BY <2>1, <2>2 DEF Gone, GoneBefore, Starts, Claims, Names, Orphans, AfterDisconnect, Tables,
                      OneConnectionEach
  <2>8. QED BY <1>k, <2>1, <2>4, <2>5, <2>6, <2>7 DEF Tables
<1>10. CASE Disconnected
  <2>1. /\ main.at = "disconnect" /\ main.i > N /\ main.call # "update" /\ crashed' = "nobody"
        /\ address' = [i \in Slots |-> NoAddress] /\ UNCHANGED <<open, late, sender, recv, stale>>
    BY <1>10, <1>t DEF Disconnected, MainAt, Running, MainCalls
  <2>2. main'.at = "close" \/ (main'.at = "idle" /\ main'.i = 1)
    <3>1. CASE Return BY <3>1 DEF Return
    <3>2. CASE GoTo("close", 1) BY <3>2, <1>t DEF GoTo, MainTyped
    <3>3. QED BY <1>10, <3>1, <3>2 DEF Disconnected
  <2>3. \A i \in Slots : i < main.i BY <1>i, <2>1, TableAssumption DEF Slots
  <2>4. \A i \in Slots : ~open[i] /\ sender[i] = "none"
    BY <1>t, <2>1, <2>3, Closed DEF Tables, Gone, GoneBefore
  <2>5. recv.at \notin {"claim", "opening"} BY <1>t, <2>1 DEF MutexHeld, MainHolds
  <2>6. Lives' /\ Gone' BY <2>1, <2>4 DEF Lives, Gone
  <2>7. Whole' /\ OneConnectionEach' BY <2>1 DEF Whole, OneConnectionEach
  <2>8. Starts' /\ Claims' /\ Names' /\ Orphans'
    BY <2>1, <2>2, <2>4, <2>5 DEF Starts, Claims, Names, Orphans, AfterDisconnect
  <2>9. Found' BY <1>i, <2>1, <2>4 DEF Tables, Found
  <2>10. QED BY <1>k, <2>1, <2>6, <2>7, <2>8, <2>9 DEF Tables
<1>12. CASE Join
  <2>1. /\ main.at = "join" /\ main.i \in Slots /\ crashed' = "nobody" /\ UNCHANGED <<late, recv>>
        /\ open' = [open EXCEPT ![main.i] = FALSE] /\ sender' = [sender EXCEPT ![main.i] = "none"]
        /\ stale' = (stale \/ (recv.at \in {"stamp", "push"} /\ recv.i = main.i))
    BY <1>12, <1>t DEF Join, TornDown, MainAt, Running, MainCalls
  <2>2. /\ main'.at \in {"timeout", "disconnect"} /\ main'.i = main.i + 1 /\ main'.call = main.call
        /\ main'.at = "disconnect" <=> main.call # "update"
    BY <1>12, <1>t DEF Join, TornDown, GoTo, MainTyped
  <2>3. address' = IF main.call = "update" THEN [address EXCEPT ![main.i] = NoAddress] ELSE address
    BY <1>12 DEF Join, TornDown
  <2>4. \A i \in Slots :
          /\ open'[i] <=> i # main.i /\ open[i]
          /\ sender'[i] = IF i = main.i THEN "none" ELSE sender[i]
          /\ address'[i] = IF i = main.i /\ main.call = "update" THEN NoAddress ELSE address[i]
    BY <1>t, <2>1, <2>3 DEF TableTyped
  <2>5. recv.at \notin {"claim", "opening"} BY <1>t, <2>1 DEF MutexHeld, MainHolds
  <2>6. \A i \in Slots : i < main.i + 1 <=> i < main.i \/ i = main.i BY <1>i, <1>n
  <2>7. Lives' BY <2>1, <2>2, <2>4, <2>5 DEF Tables, Lives, Opening
  <2>8. Gone' BY <2>1, <2>2, <2>4, <2>6 DEF Tables, Gone, GoneBefore
  <2>9. Whole' BY <2>1, <2>2, <2>4, <2>5, <2>6 DEF Tables, Whole, Opening, GoneBefore
  <2>10. Found' BY <1>i, <2>1, <2>4 DEF Tables, Found
  <2>11. OneConnectionEach' BY <2>4 DEF Tables, OneConnectionEach
  <2>12. Starts' /\ Claims' /\ Names' /\ Orphans'
    BY <2>1, <2>2, <2>5 DEF Starts, Claims, Names, Orphans, AfterDisconnect
  <2>13. QED BY <1>k, <2>1, <2>7, <2>8, <2>9, <2>10, <2>11, <2>12 DEF Tables
<1>19. ASSUME NEW a \in Addresses, Arrive(a) PROVE Tables'
  <2>1. recv.at = "recvfrom" /\ recv'.at = "look" /\ crashed' = "nobody"
    BY <1>19 DEF Arrive, RecvAt, Running
  <2>2. QED BY <1>19, <1>k, <2>1, TablesRecv DEF Arrive
<1>20. CASE RecvFails
  <2>1. recv.at = "recvfrom" /\ recv'.at = "exited" /\ crashed' = "nobody"
    BY <1>20, <1>t DEF RecvFails, RecvAt, RecvGoTo, RecvTyped, Running
  <2>2. QED BY <1>20, <1>k, <2>1, TablesRecv DEF RecvFails
<1>21. CASE Find
  <2> DEFINE f == First(Known(recv.from))
  <2>1. /\ recv.at = "look" /\ crashed' = "nobody" /\ mutex = "free" /\ recv.from \in Addresses
        /\ f \in Slots /\ address[f] = recv.from
    BY <1>21, <1>t, FirstIn DEF Find, RecvAt, Running, RecvCalls, Known
  <2>2. recv'.at = "stamp" /\ recv'.i = f /\ recv'.from = recv.from
    BY <1>21, <1>t, <2>1 DEF Find, RecvGoTo, RecvTyped
  <2>3. ~Opening(f) /\ ~GoneBefore(f)
    BY <1>t, <2>1 DEF Opening, GoneBefore, MutexHeld, MainHolds
  <2>4. open[f] BY <2>1, <2>3, PortAssumption DEF Tables, Whole
  <2>5. QED BY <1>21, <1>k, <2>1, <2>2, <2>4, TablesRecv DEF Find
<1>22. CASE Miss
  <2>1. recv.at = "look" /\ recv'.at = "claim" /\ recv'.from = recv.from /\ crashed' = "nobody"
    BY <1>22, <1>t DEF Miss, RecvAt, RecvGoTo, RecvTyped, Running
  <2>2. QED BY <1>22, <1>k, <2>1, TablesRecv DEF Miss
<1>23. CASE RecvClaims
  <2> DEFINE f == First(Free)
  <2>1. recv.at = "claim" /\ recv.from \in Addresses /\ Known(recv.from) = {} /\ crashed' = "nobody"
        /\ UNCHANGED <<open, late, sender, main>> /\ ClaimSlot(recv.from)
    BY <1>23, <1>t DEF RecvClaims, ClaimSlot, RecvAt, Running, RecvCalls, Tables, Claims
  <2>2. /\ f \in Slots /\ address[f] = NoAddress /\ ~open[f] /\ OneConnectionEach'
        /\ address' = [address EXCEPT ![f] = recv.from] /\ address'[f] = recv.from
        /\ recv.from # NoAddress
    BY <1>t, <2>1, Claiming DEF Tables
  <2>3. /\ recv'.at = "opening" /\ recv'.i = f /\ recv'.from = recv.from
        /\ main.at \notin MainHolds
    BY <1>23, <1>t, <2>1, <2>2 DEF RecvClaims, RecvGoTo, RecvTyped, MutexHeld
  <2>4. \A i \in Slots : address'[i] = IF i = f THEN recv.from ELSE address[i]
    BY <1>t, <2>2 DEF TableTyped
  <2> HIDE DEF f
  <2>5. Lives' BY <2>1, <2>2, <2>3, <2>4 DEF Tables, Lives, Opening, MainHolds
  <2>6. Whole' BY <2>1, <2>2, <2>3, <2>4 DEF Tables, Whole, Opening, GoneBefore, MainHolds
  <2>7. Gone' /\ Starts' /\ Claims' /\ Found' /\ Orphans'
    BY <2>1, <2>3 DEF Gone, GoneBefore, Starts, Claims, Found, Orphans, AfterDisconnect, MainHolds, Tables
  <2>8. Names'
    BY <1>t, <2>1, <2>2, <2>3, <2>4 DEF Names, Tables, MainHolds, MainCalls
  <2>9. QED BY <1>k, <2>1, <2>2, <2>5, <2>6, <2>7, <2>8 DEF Tables
<1>24. CASE Created
  <2>1. /\ recv.at = "opening" /\ Running /\ crashed' = "nobody" /\ UNCHANGED <<address, main, stale>>
        /\ open' = [open EXCEPT ![recv.i] = TRUE] /\ sender' = [sender EXCEPT ![recv.i] = "pop"]
        /\ late' = IF main.at \in {"close", "join recv"} THEN late \cup {recv.i} ELSE late
    BY <1>24 DEF Created, FinishSlot, RecvAt, Running
  <2>2. recv'.at = "stamp" /\ recv'.i = recv.i /\ recv'.from = recv.from
    BY <1>24, <1>t DEF Created, RecvGoTo, RecvTyped
  <2>3. /\ main.at \notin MainHolds /\ address[recv.i] = recv.from
        /\ recv.from \in Addresses /\ recv.from # NoAddress
    BY <1>t, <2>1, PortAssumption DEF MutexHeld, RecvCalls, Tables, Names
  <2>4. \A i \in Slots : /\ open'[i] <=> i = recv.i \/ open[i]
                         /\ sender'[i] = IF i = recv.i THEN "pop" ELSE sender[i]
    BY <1>t, <2>1 DEF TableTyped
  <2>5. Lives'
    <3>1. \A i \in Slots : ~(Opening(i))' BY <2>1, <2>2, <2>3 DEF Opening, MainHolds
    <3>2. \A i \in Slots : i # recv.i => (open[i] <=> sender[i] # "none") /\ (open[i] => address[i] # NoAddress)
      BY DEF Tables, Lives
    <3>3. \A i \in Slots : open'[i] <=> sender'[i] # "none" BY <2>4, <3>2
    <3>4. \A i \in Slots : open'[i] => address'[i] # NoAddress BY <2>1, <2>3, <2>4, <3>2
    <3>5. QED BY <3>1, <3>3, <3>4 DEF Lives
  <2>6. Whole' BY <2>1, <2>2, <2>3, <2>4 DEF Tables, Whole, Opening, GoneBefore, MainHolds
  <2>7. Found' BY <1>i, <2>1, <2>2, <2>3, <2>4 DEF Found
  <2>8. Gone' /\ Starts' /\ Claims' /\ Names' /\ OneConnectionEach'
    BY <2>1, <2>2, <2>3 DEF Gone, GoneBefore, Starts, Claims, Names, MainHolds, Tables, OneConnectionEach
  <2>9. Orphans' BY <2>1, <2>4 DEF Orphans, AfterDisconnect, Tables, Running
  <2>10. QED BY <1>k, <2>1, <2>5, <2>6, <2>7, <2>8, <2>9 DEF Tables
<1>25. CASE TooMany
  <2>1. recv.at = "claim" /\ recv'.at = "recvfrom" /\ crashed' = "nobody"
    BY <1>25 DEF TooMany, RecvAt, RecvNext, Running
  <2>2. QED BY <1>25, <1>k, <2>1, TablesRecv DEF TooMany
<1>26. CASE Stamp
  <2>1. /\ recv.at = "stamp" /\ recv'.at = "push" /\ recv'.i = recv.i /\ recv'.from = recv.from
        /\ crashed' = "nobody"
    BY <1>26, <1>t DEF Stamp, RecvAt, RecvGoTo, RecvTyped, Running
  <2>2. QED BY <1>26, <1>k, <2>1, TablesRecv DEF Stamp, Tables, Found
<1>27. CASE Deliver
  <2>1. recv.at = "push" /\ recv'.at = "recvfrom" /\ crashed' = "nobody"
    BY <1>27 DEF Deliver, RecvAt, RecvNext, Running
  <2>2. QED BY <1>27, <1>k, <2>1, TablesRecv DEF Deliver
<1>28. CASE DeliverNowhere
  <2>1. recv.at = "push" /\ stale /\ crashed' = "recv" /\ UNCHANGED <<recv, stale>>
    BY <1>28 DEF DeliverNowhere, RecvAt, Tables, Found
  <2>2. CrashesAreRaces' BY <2>1 DEF CrashesAreRaces
  <2>3. QED BY <1>28, <2>1, <2>2, TablesRecv DEF DeliverNowhere
<1>29. ASSUME NEW i \in Slots, Sender(i) PROVE Tables'
  <2>1. /\ UNCHANGED <<address, open, late, main, recv, stale, crashed>>
        /\ \A j \in Slots : sender'[j] # "none" <=> sender[j] # "none"
    BY <1>29, <1>t DEF Sender, TableTyped
  <2>2. Lives' BY <2>1 DEF Tables, Lives, Opening
  <2>3. Orphans' BY <2>1 DEF Tables, Orphans, AfterDisconnect
  <2>4. QED
    BY <2>1, <2>2, <2>3
    DEF Tables, Gone, Whole, Starts, Claims, Names, Found, OneConnectionEach, CrashesAreRaces, Opening,
        GoneBefore, Known
<1>30. CASE Tick BY <1>30, TablesSame DEF Tick
<1>31. CASE Ended BY <1>1, <1>31 DEF Ended
<1>32. QED
  BY <1>1, <1>2, <1>3, <1>4, <1>5, <1>6, <1>7, <1>8, <1>9, <1>10, <1>11, <1>12, <1>13, <1>14,
     <1>15, <1>16, <1>17, <1>18, <1>19, <1>20, <1>21, <1>22, <1>23, <1>24, <1>25, <1>26, <1>27,
     <1>28, <1>29, <1>30, <1>31
  DEF Next, Main, InCall, Recv, Receives

(* The threads agree on the table.  Each peer has one connection, whoever  *)
(* made it.  (net.c:307-347)                                               *)
THEOREM OneConnection == Spec => []OneConnectionEach
<1>1. Init => Tables BY TablesInit
<1>2. Typed /\ Tables /\ [Next]_vars => Tables' BY TablesNext
<1>3. Tables => OneConnectionEach BY DEF Tables
<1>4. QED BY <1>1, <1>2, <1>3, ConnectionsTyped, PTL DEF Spec, Typed

(* A send thread never outlives its queues, and the only ones left after   *)
(* net_destroy belong to connections opened after its disconnect.          *)
(* (net.c:142-150, 182-185, 404-408)                                       *)
THEOREM SendersKeepQueues == Spec => []SendersAccounted
<1>1. Init => Tables BY TablesInit
<1>2. Typed /\ Tables /\ [Next]_vars => Tables' BY TablesNext
<1>3. Typed /\ Tables => SendersAccounted
  BY Closed DEF Typed, TypeOK, Tables, Orphans, AfterDisconnect, SendersAccounted, QueuesOutliveSenders,
                OrphansAreLate
<1>4. QED BY <1>1, <1>2, <1>3, ConnectionsTyped, PTL DEF Spec, Typed

(* What is used after it is gone, or before it exists, is used in the two  *)
(* races that OnlyTwoRaces names.  (net.c:159, 377-386)                    *)
THEOREM RacesAreTwo == Spec => []OnlyTwoRaces
<1>1. Init => Tables BY TablesInit
<1>2. Typed /\ Tables /\ [Next]_vars => Tables' BY TablesNext
<1>3. Tables => OnlyTwoRaces
  BY DEF Tables, Names, Found, OnlyTwoRaces, PacketsFromPeer
<1>4. QED BY <1>1, <1>2, <1>3, ConnectionsTyped, PTL DEF Spec, Typed
=============================================================================
