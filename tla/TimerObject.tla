----------------------------- MODULE TimerObject -----------------------------
(***************************************************************************)
(* timer_object.c: times that follow the system timer, or a parent's time, *)
(* at their own scale, and can be paused.  One thread updates them, in any *)
(* order.  A scale is a number of halves.                                  *)
(***************************************************************************)
EXTENDS Integers

CONSTANTS Timers, NoTimer,
          MayFollow,        \* which parent each may be created with
          Scales,
          MaxTicks          \* bound: of the system timer

Normal == 2                 \* scale 1.0

VARIABLES ticks,            \* timer_get_ticks
          timer,            \* the objects, or NoTimer
          past              \* history of each: see Record

timerVars == <<ticks, timer, past>>

(* When the parent's time was what on creation, how much of it passed in   *)
(* pauses, the largest scale ever, and what a reader of delta_ticks added  *)
(* up, until a pause makes him read one again.                             *)
Record(start) == [start |-> start, stopped |-> 0, fastest |-> Normal, summed |-> 0, reread |-> FALSE]
Read(h, d)    == IF h.reread THEN h ELSE [h EXCEPT !.summed = @ + d]

TimerInit == /\ ticks = 0
             /\ timer = [t \in Timers |-> NoTimer]
             /\ past = [t \in Timers |-> Record(0)]

Exists(t)       == timer[t] # NoTimer
TimeOf(parent)  == IF parent = NoTimer THEN ticks ELSE timer[parent].current_ticks
Children(t)     == {c \in Timers : Exists(c) /\ timer[c].parent = t}

(* The history when the time of parent goes on by d.                       *)
Passed(parent, d) ==
  [t \in Timers |-> IF Exists(t) /\ timer[t].parent = parent /\ timer[t].paused
                    THEN [past[t] EXCEPT !.stopped = @ + d] ELSE past[t]]

Tick == /\ ticks < MaxTicks /\ ticks' = ticks + 1
        /\ past' = Passed(NoTimer, 1)
        /\ UNCHANGED timer

TimerCreate(t, parent) ==
  /\ ~Exists(t) /\ (parent # NoTimer => Exists(parent))
  /\ timer' = [timer EXCEPT ![t] = [current_ticks |-> 0, delta_ticks |-> 0, parent |-> parent,
                                    bias_ticks |-> TimeOf(parent), scale |-> Normal,
                                    paused |-> FALSE]]
  /\ past' = [past EXCEPT ![t] = Record(TimeOf(parent))]
  /\ UNCHANGED ticks

(* Callers destroy children first.                                         *)
TimerDestroy(t) ==
  /\ Exists(t) /\ Children(t) = {}
  /\ timer' = [timer EXCEPT ![t] = NoTimer]
  /\ past' = [past EXCEPT ![t] = Record(0)]
  /\ UNCHANGED ticks

UpdatePaused(t) ==
  /\ Exists(t) /\ timer[t].paused
  /\ past' = [past EXCEPT ![t].summed = 0, ![t].reread = TRUE]
  /\ UNCHANGED <<ticks, timer>>

Delta(t) == ((TimeOf(timer[t].parent) - timer[t].bias_ticks) * timer[t].scale) \div 2

Update(t) ==
  /\ Exists(t) /\ ~timer[t].paused
  /\ timer' = [timer EXCEPT ![t].delta_ticks = Delta(t),
                            ![t].current_ticks = @ + Delta(t),
                            ![t].bias_ticks = TimeOf(timer[t].parent)]
  /\ past' = [Passed(t, Delta(t)) EXCEPT ![t] = Read(@, Delta(t))]
  /\ UNCHANGED ticks

SetScale(t) ==
  /\ Exists(t)
  /\ \E s \in Scales :
       /\ timer' = [timer EXCEPT ![t].scale = s]
       /\ past' = [past EXCEPT ![t].fastest = IF s > @ THEN s ELSE @]
  /\ UNCHANGED ticks

Pause(t) ==
  /\ Exists(t)
  /\ timer' = [timer EXCEPT ![t].paused = TRUE]
  /\ UNCHANGED <<ticks, past>>

(* FAULT: the time of the pause is caught up with. *)
ResumeBehind(t) ==
  /\ Exists(t) /\ timer[t].paused
  /\ timer' = [timer EXCEPT ![t].paused = FALSE]
  /\ UNCHANGED <<ticks, past>>

Resume(t) ==
  /\ Exists(t) /\ timer[t].paused
  /\ timer' = [timer EXCEPT ![t].paused = FALSE, ![t].bias_ticks = TimeOf(timer[t].parent)]
  /\ UNCHANGED <<ticks, past>>

TimerNext == \/ Tick
             \/ \E t \in Timers :
                  \/ \E parent \in MayFollow[t] : TimerCreate(t, parent)
                  \/ TimerDestroy(t) \/ UpdatePaused(t) \/ Update(t) \/ SetScale(t) \/ Pause(t) \/ Resume(t)

TimerSpec == TimerInit /\ [][TimerNext]_timerVars

(* In whatever order timers are updated, scaled and paused: a time is      *)
(* never ahead of its parent's, at its largest scale and less what passed  *)
(* in pauses; and it is the sum of its deltas, unless it was updated while *)
(* paused, when the last delta is read again.  (timer_object.c:38-43)      *)
TimersKeepTime ==
  \A t \in Timers : Exists(t) =>
    /\ 2 * timer[t].current_ticks
         <= past[t].fastest * (TimeOf(timer[t].parent) - past[t].start - past[t].stopped)
    /\ (~past[t].reread => past[t].summed = timer[t].current_ticks)
=============================================================================
