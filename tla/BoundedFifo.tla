---------------------------- MODULE BoundedFifo ----------------------------
(***************************************************************************)
(* What queue.h promises: one bounded FIFO shared by threads, on which a   *)
(* push and a pop each take effect at a single instant.                    *)
(*                                                                         *)
(* Producer p pushes the items <<p, 0>>, <<p, 1>>, ... in that order, so   *)
(* an item names its producer and its place among that producer's pushes.  *)
(***************************************************************************)
EXTENDS Integers, Sequences, FiniteSets

CONSTANTS Producers,   \* threads that push
          Consumers,   \* threads that pop
          Capacity,    \* argument of queue_create
          MaxPush,     \* pushes each producer makes
          NULL         \* what queue_try_pop returns when there is nothing

VARIABLES q,           \* the items pushed and not yet popped, oldest first
          sent,        \* sent[p]: pushes of p that have taken effect
          accepted,    \* accepted[p]: what the last queue_try_push of p returned
          out          \* out[c]: what the last pop of c returned

vars == <<q, sent, accepted, out>>

Init == /\ q = <<>>
        /\ sent = [p \in Producers |-> 0]
        /\ accepted = [p \in Producers |-> TRUE]
        /\ out = [c \in Consumers |-> NULL]

(* A push blocks while the queue is full and takes effect atomically.      *)
Push(p) == /\ sent[p] < MaxPush
           /\ Len(q) < Capacity
           /\ q' = Append(q, <<p, sent[p]>>)
           /\ sent' = [sent EXCEPT ![p] = @ + 1]
           /\ accepted' = [accepted EXCEPT ![p] = TRUE]
           /\ UNCHANGED out

(* queue_try_push may report "full" a little early: an operation in        *)
(* progress on another thread holds a slot it has not given back yet.      *)
Slack == Cardinality(Consumers) + Cardinality(Producers) - 1

Refuse(p) == /\ sent[p] < MaxPush
             /\ Len(q) + Slack >= Capacity
             /\ accepted' = [accepted EXCEPT ![p] = FALSE]
             /\ UNCHANGED <<q, sent, out>>

(* A pop blocks while the queue is empty and removes the oldest item.      *)
Pop(c) == /\ q # <<>>
          /\ out' = [out EXCEPT ![c] = Head(q)]
          /\ q' = Tail(q)
          /\ UNCHANGED <<sent, accepted>>

(* queue_try_pop reports "empty" only when the queue is empty.             *)
PopNothing(c) == /\ q = <<>>
                 /\ out' = [out EXCEPT ![c] = NULL]
                 /\ UNCHANGED <<q, sent, accepted>>

Next == \/ \E p \in Producers : Push(p) \/ Refuse(p)
        \/ \E c \in Consumers : Pop(c) \/ PopNothing(c)

Spec == Init /\ [][Next]_vars
=============================================================================
