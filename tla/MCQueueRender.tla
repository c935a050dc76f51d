----------------------------- MODULE MCQueueRender -----------------------------
(***************************************************************************)
(* The ring of queue.c alone, and the renderer that takes it for a FIFO:   *)
(* which one is checked is chosen at the start, and the other stays as it  *)
(* is.                                                                     *)
(***************************************************************************)
EXTENDS MCRender, Queue

VARIABLE part

BothInit == part \in {"queue", "render"} /\ Init /\ QueueInit

QueuePart  == part = "queue" /\ QueueNext /\ UNCHANGED <<vars, part>>
RenderPart == part = "render" /\ Next /\ UNCHANGED <<queueVars, part>>

BothNext == QueuePart \/ RenderPart

(* The fairness of each part, while it is the one that runs.               *)
BothFairness ==
  /\ \A p \in Producers : WF_queueVars(part = "queue" /\ PushStep(p))
  /\ \A c \in Consumers : WF_queueVars(part = "queue" /\ PopStep(c))
  /\ WF_vars(part = "render" /\ RenderThread)
  /\ WF_vars(part = "render" /\ Complete)
  /\ WF_vars(part = "render" /\ Closing)

BothSpec == BothInit /\ [][BothNext]_<<vars, queueVars, part>> /\ BothFairness
=============================================================================
