----------------------------- MODULE PartsProofs -----------------------------
(***************************************************************************)
(* Proofs about five parts that share no state: the masks of wm.c, the     *)
(* timers of timer_object.c, the rows of frogger_game.c, the objects of    *)
(* gpu.c, and the transforms and matrices of transform.c and mat4f.c.      *)
(***************************************************************************)
EXTENDS MCParts, SequenceTheorems, NaturalsInduction, WellFoundedInduction, TLAPS

-----------------------------------------------------------------------------
(* The masks of wm.c follow what is held down, for any keys, any number of *)
(* messages waiting, and whatever becomes of keyboard and mouse.  "none",  *)
(* which stands for the key of a message that has none, is not a key.      *)

Message == [msg : {"down", "up", "close"}, key : Mapped \cup Others \cup {"none"}]

WindowTyped == /\ posted \in Seq(Message)
               /\ mask \subseteq Mapped
               /\ hwnd \in BOOLEAN /\ quit \in BOOLEAN

(* A window that is gone has set quit, before which main makes no frame.   *)
QuitInTime == /\ ~quit => hwnd
              /\ loop = "frame" => hwnd

WindowInv == WindowTyped /\ QuitInTime /\ MasksFollowKeys

-----------------------------------------------------------------------------
(* A message more: it tells about its own key, and no other.               *)
LEMMA ShownAppended ==
  ASSUME posted \in Seq(Message), NEW m \in Message, posted' = Append(posted, m), mask' = mask, NEW k
  PROVE  Shown(k)' <=> IF m.key = k THEN m.msg = "down" ELSE Shown(k)
<1> DEFINE about == {n \in DOMAIN posted : posted[n].key = k}
<1>1. /\ Len(posted) \in Nat /\ DOMAIN posted = 1 .. Len(posted)
      /\ DOMAIN posted' = 1 .. Len(posted) + 1
      /\ posted'[Len(posted) + 1] = m
      /\ \A n \in DOMAIN posted : posted'[n] = posted[n]
  OBVIOUS
<1>2. CASE m.key = k
  <2>1. (about)' = about \cup {Len(posted) + 1} BY <1>1, <1>2
  <2>2. \A n \in about : n < Len(posted) + 1 BY <1>1
  <2>3. \A n \in (about)' : (\A later \in (about)' : later <= n) => n = Len(posted) + 1
    BY <1>1, <2>1, <2>2
  <2>4. \A later \in (about)' : later <= Len(posted) + 1 BY <1>1, <2>1, <2>2
  <2>5. QED BY <1>1, <1>2, <2>1, <2>3, <2>4 DEF Shown
<1>3. CASE m.key # k
  <2>1. (about)' = about BY <1>1, <1>3
  <2>2. QED BY <1>1, <1>3, <2>1 DEF Shown
<1>4. QED BY <1>2, <1>3

(* The first message gone into the masks: what is shown stays.             *)
LEMMA ShownHandled ==
  ASSUME posted \in Seq(Message), posted # <<>>, Head(posted).msg # "close", posted' = Tail(posted),
         mask' = MaskAfter(mask, Head(posted)), NEW k \in Mapped
  PROVE  Shown(k)' <=> Shown(k)
<1> DEFINE about == {n \in DOMAIN posted : posted[n].key = k}
<1>1. /\ Len(posted) \in Nat \ {0} /\ DOMAIN posted = 1 .. Len(posted)
      /\ DOMAIN posted' = 1 .. Len(posted) - 1
      /\ \A n \in DOMAIN posted' : posted'[n] = posted[n + 1]
      /\ Head(posted) = posted[1] /\ Head(posted) \in Message
  OBVIOUS
<1>2. \A n \in Int : n \in (about)' <=> n + 1 \in about /\ n # 0 BY <1>1
<1>3. \A n \in about : n \in Int /\ n >= 1 /\ (n = 1 \/ n - 1 \in (about)') BY <1>1, <1>2
<1>4. CASE (about)' = {}
  <2>1. about \subseteq {1} BY <1>3, <1>4
  <2>2. CASE Head(posted).key = k
    <3>1. about = {1} BY <1>1, <2>1, <2>2
    <3>2. Shown(k) <=> Head(posted).msg = "down" BY <1>1, <3>1 DEF Shown
    <3>3. k \in mask' <=> Head(posted).msg = "down" BY <2>2 DEF MaskAfter
    <3>4. QED BY <1>4, <3>2, <3>3 DEF Shown
  <2>3. CASE Head(posted).key # k
    <3>1. about = {} BY <1>1, <2>1, <2>3
    <3>2. k \in mask' <=> k \in mask BY <2>3 DEF MaskAfter
    <3>3. QED BY <1>4, <3>1, <3>2 DEF Shown
  <2>4. QED BY <2>2, <2>3
<1>5. CASE (about)' # {}
  <2>1. about # {} BY <1>1, <1>2, <1>5
  <2>2. ASSUME NEW n \in about, posted[n].msg = "down", \A later \in about : later <= n
        PROVE  /\ n - 1 \in (about)' /\ posted'[n - 1].msg = "down"
               /\ \A later \in (about)' : later <= n - 1
    <3>1. PICK i \in (about)' : TRUE BY <1>5
    <3>2. i \in Int /\ i >= 1 /\ i + 1 \in about BY <1>1, <1>2, <3>1
    <3>3. n >= i + 1 BY <2>2, <3>2
    <3>4. n # 1 BY <1>1, <3>2, <3>3
    <3>5. n - 1 \in (about)' BY <1>3, <2>2, <3>4
    <3>6. posted'[n - 1] = posted[n] BY <1>1, <3>5
    <3>7. \A later \in (about)' : later \in Int /\ later + 1 <= n BY <1>1, <1>2, <2>2
    <3>8. QED BY <1>3, <2>2, <3>5, <3>6, <3>7
  <2>3. ASSUME NEW n \in (about)', posted'[n].msg = "down", \A later \in (about)' : later <= n
        PROVE  /\ n + 1 \in about /\ posted[n + 1].msg = "down"
               /\ \A later \in about : later <= n + 1
    <3>1. n \in Int /\ n >= 1 /\ n + 1 \in about BY <1>1, <1>2, <2>3
    <3>2. posted[n + 1] = posted'[n] BY <1>1, <2>3
    <3>3. \A later \in about : later <= n + 1 BY <1>3, <2>3, <3>1
    <3>4. QED BY <2>3, <3>1, <3>2, <3>3
  <2>4. QED BY <1>5, <2>1, <2>2, <2>3 DEF Shown
<1>6. QED BY <1>4, <1>5

-----------------------------------------------------------------------------
(* A key that is pressed or let go, with its message or without.           *)
LEMMA MovesFollowed ==
  ASSUME "none" \notin Mapped, WindowInv, NEW k \in Mapped \cup Others, NEW msg \in {"down", "up"},
         Moves(k, msg),
         down' = IF msg = "down" THEN down \cup {k} ELSE down \ {k}
  PROVE  WindowInv'
<1> DEFINE m == [msg |-> msg, key |-> k]
<1> USE DEF WindowInv, WindowTyped
<1>1. m \in Message BY DEF Message
<1>2. UNCHANGED <<mask, quit, hwnd, loop>> BY DEF Moves
<1>3. QuitInTime' BY <1>2 DEF QuitInTime
<1>4. CASE posted' = Append(posted, m) /\ missed' = missed \ {k}
  <2>1. posted' \in Seq(Message) BY <1>1, <1>4
  <2>2. \A j \in Mapped : Shown(j)' <=> IF k = j THEN msg = "down" ELSE Shown(j)
    BY <1>1, <1>2, <1>4, ShownAppended
  <2>3. \A j \in Mapped \ missed' : hwnd' => (Shown(j)' <=> j \in down')
    BY <1>2, <1>4, <2>2 DEF MasksFollowKeys
  <2>4. QED BY <1>2, <1>3, <2>1, <2>3 DEF MasksFollowKeys
<1>5. CASE missed' = missed \cup {k} /\ UNCHANGED posted
  <2>1. \A j \in Mapped : Shown(j)' <=> Shown(j) BY <1>2, <1>5 DEF Shown
  <2>2. \A j \in Mapped \ missed' : hwnd' => (Shown(j)' <=> j \in down')
    BY <1>2, <1>5, <2>1 DEF MasksFollowKeys
  <2>3. QED BY <1>2, <1>3, <1>5, <2>2 DEF MasksFollowKeys
<1>6. QED BY <1>4, <1>5 DEF Moves

(* What is shown does not change with the window, the focus or the loop.   *)
LEMMA ShownKept ==
  ASSUME WindowInv, UNCHANGED <<posted, mask, down, missed, hwnd>>, quit' \in BOOLEAN, QuitInTime'
  PROVE  WindowInv'
<1>1. \A k \in Mapped : Shown(k)' <=> Shown(k) BY DEF Shown
<1>2. QED BY <1>1 DEF WindowInv, WindowTyped, MasksFollowKeys, QuitInTime

LEMMA StepMasks ==
  ASSUME "none" \notin Mapped, WindowInv, [WindowNext]_windowVars
  PROVE  WindowInv'
<1> USE DEF WindowInv, WindowTyped
<1>1. CASE UNCHANGED windowVars BY <1>1, ShownKept DEF windowVars, QuitInTime
<1>2. ASSUME NEW k \in Mapped \cup Others, Press(k) PROVE WindowInv'
  BY <1>2, MovesFollowed DEF Press
<1>3. ASSUME NEW k \in Mapped \cup Others, LetGo(k) PROVE WindowInv'
  BY <1>3, MovesFollowed DEF LetGo
<1>4. ASSUME NEW device \in {"keyboard", "mouse"}, Turn(device) PROVE WindowInv'
  BY <1>4, ShownKept DEF Turn, QuitInTime
<1>5. CASE AskToClose
  <2> DEFINE m == [msg |-> "close", key |-> "none"]
  <2>1. m \in Message /\ posted' = Append(posted, m) /\ UNCHANGED <<down, mask, quit, hwnd, loop, missed>>
    BY <1>5 DEF AskToClose, Message
  <2>2. \A k \in Mapped : Shown(k)' <=> Shown(k) BY <2>1, ShownAppended
  <2>3. posted' \in Seq(Message) BY <2>1
  <2>4. QED BY <2>1, <2>2, <2>3 DEF MasksFollowKeys, QuitInTime
<1>6. CASE ActivateApp BY <1>6, ShownKept DEF ActivateApp, QuitInTime
<1>7. CASE Handle
  <2>1. posted # <<>> /\ Head(posted).msg # "close" /\ posted' = Tail(posted)
        /\ mask' = MaskAfter(mask, Head(posted)) /\ UNCHANGED <<down, quit, hwnd, loop, missed>>
    BY <1>7 DEF Handle
  <2>2. \A k \in Mapped : Shown(k)' <=> Shown(k) BY <2>1, ShownHandled
  <2>3. posted' \in Seq(Message) BY <2>1
  <2>4. mask' \subseteq Mapped BY <2>1 DEF MaskAfter
  <2>5. QED BY <2>1, <2>2, <2>3, <2>4 DEF MasksFollowKeys, QuitInTime
<1>8. CASE HandleClose
  <2>1. ~hwnd' /\ quit' = TRUE /\ hwnd' \in BOOLEAN /\ posted' = <<>> /\ loop' = "pump" /\ mask' = mask
    BY <1>8 DEF HandleClose
  <2>2. QED BY <2>1 DEF MasksFollowKeys, QuitInTime
<1>9. CASE Pumped BY <1>9, ShownKept DEF Pumped, QuitInTime
<1>10. CASE Frame BY <1>10, ShownKept DEF Frame, QuitInTime
<1>11. QED BY <1>1, <1>2, <1>3, <1>4, <1>5, <1>6, <1>7, <1>8, <1>9, <1>10 DEF WindowNext

(* Whatever keys are pressed where, in whatever order the window gets and  *)
(* handles its messages, the masks and the messages that wait say what is  *)
(* held down, and no frame is made without a window.                       *)
(* (wm.c:46-83, 111-118, 174-183, main.c:23-26)                            *)
THEOREM MasksTrue ==
  ASSUME "none" \notin Mapped
  PROVE  WindowSpec => []MasksFollowKeys
<1>1. WindowInit => WindowInv
  <2> SUFFICES ASSUME WindowInit PROVE WindowInv
    OBVIOUS
  <2>1. DOMAIN posted = {} /\ posted \in Seq(Message) BY DEF WindowInit
  <2>2. \A k : Shown(k) <=> k \in mask BY <2>1 DEF Shown
  <2>3. QED BY <2>1, <2>2 DEF WindowInit, WindowInv, WindowTyped, QuitInTime, MasksFollowKeys
<1>2. WindowInv /\ [WindowNext]_windowVars => WindowInv' BY StepMasks
<1>3. WindowInv => MasksFollowKeys BY DEF WindowInv
<1>4. QED BY <1>1, <1>2, <1>3, PTL DEF WindowSpec

-----------------------------------------------------------------------------
(* Timers keep time: for any number of them, any hierarchy, any scales     *)
(* that are not negative, and in any order of calls.  What is assumed of   *)
(* the constants: a timer follows a timer or none, and NoTimer is neither  *)
(* a timer nor the state of one.                                           *)

TimerState == [current_ticks : Nat, delta_ticks : Nat, parent : Timers \cup {NoTimer},
               bias_ticks : Nat, scale : Nat, paused : BOOLEAN]
History == [start : Nat, stopped : Nat, fastest : Nat, summed : Nat, reread : BOOLEAN]

Sane == /\ MayFollow \in [Timers -> SUBSET (Timers \cup {NoTimer})]
        /\ Scales \subseteq Nat /\ MaxTicks \in Nat
        /\ NoTimer \notin Timers /\ NoTimer \notin TimerState

TimersTyped == /\ ticks \in Nat
               /\ timer \in [Timers -> TimerState \cup {NoTimer}]
               /\ past \in [Timers -> History]

(* A parent exists as long as who follows it.                              *)
ParentsFollowed == \A t \in Timers : Exists(t) =>
             timer[t].parent # t /\ (timer[t].parent # NoTimer => Exists(timer[t].parent))

(* A timer r with the history h under a parent whose time is p.  A running *)
(* one has counted up to bias_ticks; what passes while it is paused is in  *)
(* stopped at once.                                                        *)
Sound(r, h, p) ==
  /\ r.scale <= h.fastest
  /\ h.start + h.stopped <= p
  /\ r.paused => 2 * r.current_ticks <= h.fastest * (p - (h.start + h.stopped))
  /\ ~r.paused => /\ h.start + h.stopped <= r.bias_ticks
                  /\ r.bias_ticks <= p
                  /\ 2 * r.current_ticks <= h.fastest * (r.bias_ticks - (h.start + h.stopped))
  /\ ~h.reread => h.summed = r.current_ticks

TimersInv == /\ TimersTyped /\ ParentsFollowed
             /\ \A t \in Timers : Exists(t) => Sound(timer[t], past[t], TimeOf(timer[t].parent))

-----------------------------------------------------------------------------
(* Arithmetic *)

LEMMA Products ==
  /\ \A f, x, y \in Nat : x <= y => f * x <= f * y
  /\ \A f, g, x \in Nat : f <= g => f * x <= g * x
  /\ \A f, x, y \in Int : f * x + f * y = f * (x + y)
  /\ \A f, x \in Nat : f * x \in Nat
OBVIOUS

LEMMA Halves == \A n \in Nat : n \div 2 \in Nat /\ 2 * (n \div 2) <= n
OBVIOUS

-----------------------------------------------------------------------------
(* One timer and one operation. *)

(* The parent's time goes on.                                              *)
LEMMA SoundPassed ==
  ASSUME NEW r \in TimerState, NEW h \in History, NEW p \in Nat, NEW d \in Nat, Sound(r, h, p),
         NEW g \in History, g = IF r.paused THEN [h EXCEPT !.stopped = @ + d] ELSE h
  PROVE  Sound(r, g, p + d)
<1> USE DEF TimerState, History
<1>1. CASE r.paused
  <2>1. /\ g.stopped = h.stopped + d /\ g.start = h.start /\ g.fastest = h.fastest
        /\ g.summed = h.summed /\ g.reread = h.reread
    BY <1>1
  <2>2. (p + d) - (g.start + g.stopped) = p - (h.start + h.stopped) BY <2>1
  <2>3. g.start + g.stopped <= p + d BY <2>1 DEF Sound
  <2>4. QED BY <1>1, <2>1, <2>2, <2>3 DEF Sound
<1>2. CASE ~r.paused
  <2>1. g = h BY <1>2
  <2>2. h.start + h.stopped <= p + d /\ r.bias_ticks <= p + d BY <1>2 DEF Sound
  <2>3. QED BY <1>2, <2>1, <2>2 DEF Sound
<1>3. QED BY <1>1, <1>2

(* timer_object_update of a timer that runs.                               *)
LEMMA SoundUpdated ==
  ASSUME NEW r \in TimerState, NEW h \in History, NEW p \in Nat, Sound(r, h, p), ~r.paused,
         NEW d, d = ((p - r.bias_ticks) * r.scale) \div 2
  PROVE  /\ d \in Nat
         /\ [r EXCEPT !.delta_ticks = d, !.current_ticks = @ + d, !.bias_ticks = p] \in TimerState
         /\ Read(h, d) \in History
         /\ Sound([r EXCEPT !.delta_ticks = d, !.current_ticks = @ + d, !.bias_ticks = p], Read(h, d), p)
<1> USE DEF TimerState, History
<1> DEFINE x == p - r.bias_ticks
           y == r.bias_ticks - (h.start + h.stopped)
           s == [r EXCEPT !.delta_ticks = d, !.current_ticks = @ + d, !.bias_ticks = p]
           g == Read(h, d)
<1>1. x \in Nat /\ y \in Nat /\ h.fastest \in Nat /\ r.scale \in Nat /\ r.scale <= h.fastest
      /\ r.current_ticks \in Nat /\ 2 * r.current_ticks <= h.fastest * y
  BY DEF Sound
<1>2. x * r.scale \in Nat /\ x * r.scale <= h.fastest * x
  <2>1. r.scale * x \in Nat /\ r.scale * x <= h.fastest * x BY <1>1, Products
  <2>2. x * r.scale = r.scale * x BY <1>1
  <2>3. QED BY <2>1, <2>2
<1>3. d \in Nat /\ 2 * d <= x * r.scale BY <1>2, Halves
<1>4. s \in TimerState
  <2>1. r.current_ticks + d \in Nat BY <1>1, <1>3
  <2> HIDE <1>1, <1>2
  <2>2. QED BY <1>3, <2>1
<1>5. g \in History /\ g.start = h.start /\ g.stopped = h.stopped /\ g.fastest = h.fastest
      /\ g.reread = h.reread /\ (~h.reread => g.summed = h.summed + d)
  BY <1>3 DEF Read
<1>6. h.fastest * y + h.fastest * x = h.fastest * (p - (h.start + h.stopped))
  <2>1. y + x = p - (h.start + h.stopped) OBVIOUS
  <2>2. h.fastest * y + h.fastest * x = h.fastest * (y + x) BY <1>1, Products
  <2>3. QED BY <2>1, <2>2
<1>7. h.fastest * y \in Nat /\ h.fastest * x \in Nat BY <1>1, Products
<1>8. 2 * (r.current_ticks + d) <= h.fastest * (p - (h.start + h.stopped))
  <2> HIDE DEF x, y
  <2>1. 2 * (r.current_ticks + d) <= h.fastest * y + h.fastest * x BY <1>1, <1>2, <1>3, <1>7
  <2>2. QED BY <2>1, <1>6
<1>9. s.current_ticks = r.current_ticks + d /\ s.bias_ticks = p /\ s.scale = r.scale
      /\ s.paused = r.paused
  OBVIOUS
<1>10. Sound(s, g, p) BY <1>5, <1>8, <1>9 DEF Sound
<1>11. QED BY <1>3, <1>4, <1>5, <1>10

(* timer_object_set_scale.                                                 *)
LEMMA SoundScaled ==
  ASSUME NEW r \in TimerState, NEW h \in History, NEW p \in Nat, Sound(r, h, p), NEW s \in Nat,
         NEW g \in History, g = [h EXCEPT !.fastest = IF s > @ THEN s ELSE @]
  PROVE  Sound([r EXCEPT !.scale = s], g, p)
<1> USE DEF TimerState, History
<1> DEFINE q == [r EXCEPT !.scale = s]
<1>1. /\ g.start = h.start /\ g.stopped = h.stopped /\ g.summed = h.summed /\ g.reread = h.reread
      /\ h.fastest <= g.fastest /\ s <= g.fastest
  OBVIOUS
<1>2. /\ q.scale = s /\ q.paused = r.paused /\ q.current_ticks = r.current_ticks
      /\ q.bias_ticks = r.bias_ticks
  OBVIOUS
<1>3. \A x \in Nat : 2 * r.current_ticks <= h.fastest * x => 2 * r.current_ticks <= g.fastest * x
  <2> TAKE x \in Nat
  <2>1. h.fastest * x <= g.fastest * x /\ h.fastest * x \in Nat /\ g.fastest * x \in Nat
    BY <1>1, Products
  <2>2. QED BY <2>1
<1>4. CASE r.paused
  <2>1. p - (h.start + h.stopped) \in Nat BY DEF Sound
  <2>2. 2 * r.current_ticks <= g.fastest * (p - (h.start + h.stopped)) BY <1>3, <1>4, <2>1 DEF Sound
  <2>3. QED BY <1>1, <1>2, <1>4, <2>2 DEF Sound
<1>5. CASE ~r.paused
  <2>1. r.bias_ticks - (h.start + h.stopped) \in Nat BY <1>5 DEF Sound
  <2>2. 2 * r.current_ticks <= g.fastest * (r.bias_ticks - (h.start + h.stopped))
    BY <1>3, <1>5, <2>1 DEF Sound
  <2>3. QED BY <1>1, <1>2, <1>5, <2>2 DEF Sound
<1>6. QED BY <1>4, <1>5

(* What a sound timer promises, running or not.                            *)
LEMMA SoundKeeps ==
  ASSUME NEW r \in TimerState, NEW h \in History, NEW p \in Nat, Sound(r, h, p)
  PROVE  /\ 2 * r.current_ticks <= h.fastest * (p - (h.start + h.stopped))
         /\ p - (h.start + h.stopped) = p - h.start - h.stopped
<1> USE DEF TimerState, History
<1>1. CASE r.paused BY <1>1 DEF Sound
<1>2. CASE ~r.paused
  <2> DEFINE y == r.bias_ticks - (h.start + h.stopped)
             z == p - (h.start + h.stopped)
  <2>1. y \in Nat /\ z \in Nat /\ y <= z /\ 2 * r.current_ticks <= h.fastest * y BY <1>2 DEF Sound
  <2>2. h.fastest * y <= h.fastest * z /\ h.fastest * y \in Nat /\ h.fastest * z \in Nat
    BY <2>1, Products
  <2> HIDE DEF y, z
  <2>3. 2 * r.current_ticks <= h.fastest * z BY <2>1, <2>2
  <2>4. QED BY <2>3 DEF z
<1>3. QED BY <1>1, <1>2

(* timer_object_pause and timer_object_resume.                             *)
LEMMA SoundPaused ==
  ASSUME NEW r \in TimerState, NEW h \in History, NEW p \in Nat, Sound(r, h, p)
  PROVE  /\ Sound([r EXCEPT !.paused = TRUE], h, p)
         /\ Sound([r EXCEPT !.paused = FALSE, !.bias_ticks = p], h, p)
BY SoundKeeps DEF Sound, TimerState, History

-----------------------------------------------------------------------------
(* All timers. *)

(* Those that a step leaves alone, while the time of one parent goes on.   *)
LEMMA OthersPass ==
  ASSUME TimersInv, NEW t \in Timers, Exists(t), NEW parent, NEW d \in Nat, timer'[t] = timer[t],
         past'[t] = Passed(parent, d)[t],
         TimeOf(timer[t].parent)' = TimeOf(timer[t].parent) + (IF timer[t].parent = parent THEN d ELSE 0),
         TimeOf(timer[t].parent) \in Nat, timer[t] \in TimerState
  PROVE  Sound(timer[t], past'[t], TimeOf(timer[t].parent)') /\ past'[t] \in History
<1>1. past[t] \in History /\ Sound(timer[t], past[t], TimeOf(timer[t].parent))
  BY DEF TimersInv, TimersTyped
<1>2. CASE timer[t].parent = parent
  <2>1. past'[t] = IF timer[t].paused THEN [past[t] EXCEPT !.stopped = @ + d] ELSE past[t]
    BY <1>2 DEF Passed
  <2>2. past'[t] \in History BY <1>1, <2>1 DEF History
  <2>3. QED BY <1>1, <1>2, <2>1, <2>2, SoundPassed
<1>3. CASE timer[t].parent # parent
  <2>1. past'[t] = past[t] BY <1>3 DEF Passed
  <2>2. TimeOf(timer[t].parent)' = TimeOf(timer[t].parent) BY <1>3
  <2>3. QED BY <1>1, <2>1, <2>2
<1>4. QED BY <1>2, <1>3

LEMMA StatesExist ==
  ASSUME Sane, TimersInv
  PROVE  /\ \A t \in Timers : Exists(t) => timer[t] \in TimerState /\ timer[t].parent \in Timers \cup {NoTimer}
         /\ \A t \in Timers : Exists(t) => TimeOf(timer[t].parent) \in Nat
         /\ TimeOf(NoTimer) = ticks
<1>1. \A t \in Timers : Exists(t) => timer[t] \in TimerState /\ timer[t].parent \in Timers \cup {NoTimer}
  BY DEF Exists, TimersInv, TimersTyped, TimerState
<1>2. \A t \in Timers : Exists(t) => timer[t].current_ticks \in Nat
  BY <1>1 DEF TimerState
<1>3. QED BY <1>1, <1>2 DEF TimeOf, TimersInv, TimersTyped, ParentsFollowed, Sane

LEMMA TimersNext ==
  ASSUME Sane, TimersInv, [TimerNext]_timerVars
  PROVE  TimersInv'
<1>s. /\ \A t \in Timers : Exists(t) => timer[t] \in TimerState /\ timer[t].parent \in Timers \cup {NoTimer}
      /\ \A t \in Timers : Exists(t) => TimeOf(timer[t].parent) \in Nat
      /\ TimeOf(NoTimer) = ticks /\ TimersTyped /\ ParentsFollowed
  BY StatesExist DEF TimersInv
<1>i. \A t \in Timers : Exists(t) => Sound(timer[t], past[t], TimeOf(timer[t].parent)) BY DEF TimersInv
<1>1. CASE UNCHANGED timerVars
  BY <1>1 DEF timerVars, TimersInv, TimersTyped, ParentsFollowed, Exists, TimeOf
<1>2. CASE Tick
  <2>1. /\ ticks' = ticks + 1 /\ ticks \in Nat /\ timer' = timer /\ past' = Passed(NoTimer, 1)
    BY <1>2, <1>s DEF Tick, TimersTyped
  <2>2. \A t \in Timers : Exists(t) =>
          TimeOf(timer[t].parent)' = TimeOf(timer[t].parent) + (IF timer[t].parent = NoTimer THEN 1 ELSE 0)
    BY <2>1, <1>s DEF TimeOf
  <2>3. \A t \in Timers : Exists(t) => Sound(timer[t], past'[t], TimeOf(timer[t].parent)') /\ past'[t] \in History
    BY <2>1, <2>2, <1>s, OthersPass
  <2>4. \A t \in Timers : ~Exists(t) => past'[t] = past[t] BY <2>1 DEF Passed
  <2>5. past' \in [Timers -> History] BY <2>1, <2>3, <2>4, <1>s DEF TimersTyped, Passed
  <2>6. QED BY <2>1, <2>3, <2>5, <1>s DEF TimersInv, TimersTyped, ParentsFollowed, Exists
<1>3. ASSUME NEW u \in Timers, NEW parent \in MayFollow[u], TimerCreate(u, parent) PROVE TimersInv'
  <2> DEFINE new == [current_ticks |-> 0, delta_ticks |-> 0, parent |-> parent,
                     bias_ticks |-> TimeOf(parent), scale |-> Normal, paused |-> FALSE]
  <2>1. /\ parent \in Timers \cup {NoTimer} /\ parent # u /\ (parent # NoTimer => Exists(parent))
        /\ ~Exists(u) /\ UNCHANGED ticks
        /\ timer' = [timer EXCEPT ![u] = new] /\ past' = [past EXCEPT ![u] = Record(TimeOf(parent))]
    BY <1>3 DEF TimerCreate, Sane
  <2>2. TimeOf(parent) \in Nat /\ TimeOf(parent)' = TimeOf(parent)
    <3>1. CASE parent = NoTimer BY <2>1, <3>1, <1>s DEF TimeOf, TimersTyped
    <3>2. CASE parent # NoTimer BY <2>1, <3>2, <1>s DEF TimeOf, TimersTyped, TimerState
    <3>3. QED BY <3>1, <3>2
  <2>3. new \in TimerState /\ Record(TimeOf(parent)) \in History
    BY <2>1, <2>2 DEF TimerState, History, Record, Normal
  <2>4. Exists(u)' /\ \A t \in Timers : t # u => (Exists(t)' <=> Exists(t)) /\ timer'[t] = timer[t] /\ past'[t] = past[t]
    BY <2>1, <2>3, <1>s DEF Exists, Sane, TimersTyped
  <2>5. \A t \in Timers : t # u /\ Exists(t) => timer[t].parent # u BY <2>1, <1>s DEF ParentsFollowed, Sane
  <2>6. \A t \in Timers : t # u /\ Exists(t) => TimeOf(timer[t].parent)' = TimeOf(timer[t].parent)
    BY <2>1, <2>4, <2>5, <1>s DEF TimeOf
  <2>7. TimersTyped' BY <2>1, <2>3, <1>s DEF TimersTyped
  <2>8. ParentsFollowed' BY <2>1, <2>4, <2>5, <1>s DEF ParentsFollowed, TimersTyped
  <2>9. Sound(new, Record(TimeOf(parent)), TimeOf(parent))
    <3>1. Normal * (TimeOf(parent) - (TimeOf(parent) + 0)) = 0 BY <2>2 DEF Normal
    <3>2. QED BY <2>2, <3>1 DEF Sound, Record, Normal
  <2>10. timer'[u] = new /\ past'[u] = Record(TimeOf(parent)) BY <2>1, <1>s DEF TimersTyped
  <2>11. Sound(timer'[u], past'[u], TimeOf(timer[u].parent)')
    <3>1. timer'[u].parent = parent BY <2>10
    <3>2. TimeOf(timer[u].parent)' = TimeOf(parent)' BY <3>1 DEF TimeOf
    <3>3. QED BY <2>2, <2>9, <2>10, <3>2
  <2>12. \A t \in Timers : t # u /\ Exists(t) => Sound(timer'[t], past'[t], TimeOf(timer[t].parent)')
    BY <2>4, <2>6, <1>i
  <2>13. QED BY <2>4, <2>7, <2>8, <2>11, <2>12 DEF TimersInv
<1>4. ASSUME NEW u \in Timers, TimerDestroy(u) PROVE TimersInv'
  <2>1. /\ Children(u) = {} /\ UNCHANGED ticks /\ Record(0) \in History
        /\ timer' = [timer EXCEPT ![u] = NoTimer] /\ past' = [past EXCEPT ![u] = Record(0)]
    BY <1>4 DEF TimerDestroy, Record, History, Normal
  <2>2. ~Exists(u)' /\ \A t \in Timers : t # u => (Exists(t)' <=> Exists(t)) /\ timer'[t] = timer[t] /\ past'[t] = past[t]
    BY <2>1, <1>s DEF Exists, TimersTyped
  <2>3. \A t \in Timers : Exists(t) => timer[t].parent # u BY <2>1 DEF Children
  <2>4. \A t \in Timers : t # u /\ Exists(t) => TimeOf(timer[t].parent)' = TimeOf(timer[t].parent)
    BY <2>1, <2>2, <2>3, <1>s DEF TimeOf
  <2>5. TimersTyped' BY <2>1, <1>s DEF TimersTyped
  <2>6. ParentsFollowed' BY <2>2, <2>3, <1>s DEF ParentsFollowed
  <2>7. \A t \in Timers : t # u /\ Exists(t) => Sound(timer'[t], past'[t], TimeOf(timer[t].parent)')
    BY <2>2, <2>4, <1>i
  <2>8. QED BY <2>2, <2>5, <2>6, <2>7 DEF TimersInv
<1>5. ASSUME NEW u \in Timers, Update(u) PROVE TimersInv'
  <2> DEFINE d == Delta(u)
             p == TimeOf(timer[u].parent)
             new == [timer[u] EXCEPT !.delta_ticks = d, !.current_ticks = @ + d, !.bias_ticks = p]
  <2>1. /\ Exists(u) /\ ~timer[u].paused /\ UNCHANGED ticks
        /\ timer[u] \in TimerState /\ past[u] \in History /\ p \in Nat /\ timer[u].parent # u
        /\ Sound(timer[u], past[u], p)
    BY <1>5, <1>s, <1>i DEF Update, TimersTyped, ParentsFollowed
  <2>2. d \in Nat /\ new \in TimerState /\ Read(past[u], d) \in History /\ Sound(new, Read(past[u], d), p)
    BY <2>1, SoundUpdated DEF Delta
  <2>3. timer' = [timer EXCEPT ![u] = new] BY <1>5, <1>s DEF Update, TimersTyped
  <2>4. past' = [Passed(u, d) EXCEPT ![u] = Read(past[u], d)]
    BY <1>5, <2>1 DEF Update, Passed
  <2> HIDE DEF d
  <2>5. timer'[u] = new /\ past'[u] = Read(past[u], d) /\ \A t \in Timers : t # u => timer'[t] = timer[t] /\ past'[t] = Passed(u, d)[t]
    BY <2>3, <2>4, <1>s DEF TimersTyped, Passed
  <2>6. \A t \in Timers : Exists(t)' <=> Exists(t) BY <2>1, <2>2, <2>5 DEF Exists, Sane
  <2>7. new.current_ticks = timer[u].current_ticks + d /\ new.parent = timer[u].parent BY <2>1 DEF TimerState
  <2>8. \A t \in Timers : Exists(t) =>
          TimeOf(timer[t].parent)' = TimeOf(timer[t].parent) + (IF timer[t].parent = u THEN d ELSE 0)
    <3> TAKE t \in Timers
    <3> HAVE Exists(t)
    <3>0. timer'[t].parent = timer[t].parent BY <2>5, <2>7
    <3>1. CASE timer[t].parent = u
      <4>1. TimeOf(timer[t].parent) = timer[u].current_ticks BY <3>1 DEF TimeOf, Sane
      <4>2. TimeOf(timer[t].parent)' = timer'[u].current_ticks BY <3>0, <3>1 DEF TimeOf, Sane
      <4>3. timer'[u].current_ticks = timer[u].current_ticks + d BY <2>5, <2>7
      <4>4. QED BY <3>1, <4>1, <4>2, <4>3
    <3>2. CASE timer[t].parent # u /\ timer[t].parent # NoTimer
      <4>1. timer[t].parent \in Timers BY <3>2, <1>s
      <4>2. TimeOf(timer[t].parent) \in Nat BY <1>s
      <4>3. QED BY <2>5, <3>0, <3>2, <4>1, <4>2 DEF TimeOf
    <3>3. CASE timer[t].parent = NoTimer
      <4>1. TimeOf(timer[t].parent) \in Nat BY <1>s
      <4>2. u # NoTimer BY DEF Sane
      <4>3. QED BY <2>1, <3>0, <3>3, <4>1, <4>2 DEF TimeOf
    <3>4. QED BY <3>1, <3>2, <3>3
  <2>9. \A t \in Timers : t # u /\ Exists(t) =>
          Sound(timer[t], past'[t], TimeOf(timer[t].parent)') /\ past'[t] \in History
    BY <2>2, <2>5, <2>8, <1>s, OthersPass
  <2>10. \A t \in Timers : t # u /\ ~Exists(t) => past'[t] = past[t] BY <2>5 DEF Passed
  <2>11. past' \in [Timers -> History]
    <3>1. DOMAIN past' = Timers /\ past' = [t \in Timers |-> past'[t]] BY <2>4 DEF Passed
    <3>2. \A t \in Timers : past'[t] \in History BY <2>2, <2>5, <2>9, <2>10, <1>s DEF TimersTyped
    <3>3. QED BY <3>1, <3>2
  <2>12. TimersTyped' BY <2>1, <2>2, <2>3, <2>11, <1>s DEF TimersTyped
  <2>13. ParentsFollowed'
    <3>1. \A t \in Timers : timer'[t].parent = timer[t].parent BY <2>5, <2>7
    <3>2. \A t \in Timers : timer[t].parent # NoTimer /\ Exists(t) => timer[t].parent \in Timers BY <1>s
    <3>3. QED BY <2>6, <3>1, <3>2, <1>s DEF ParentsFollowed
  <2>14. TimeOf(timer[u].parent)' = p /\ timer'[u].parent = timer[u].parent
    <3>1. timer'[u].parent = timer[u].parent BY <2>5, <2>7
    <3>2. TimeOf(timer[u].parent)' = p + 0 BY <2>1, <2>8
    <3>3. p + 0 = p BY <2>1
    <3>4. QED BY <3>1, <3>2, <3>3
  <2>15. Sound(timer'[u], past'[u], TimeOf(timer[u].parent)') BY <2>2, <2>5, <2>14
  <2>16. \A t \in Timers : t # u /\ Exists(t) => Sound(timer'[t], past'[t], TimeOf(timer[t].parent)')
    BY <2>5, <2>9
  <2>17. QED BY <2>6, <2>12, <2>13, <2>15, <2>16 DEF TimersInv
<1>6. ASSUME NEW u \in Timers, Exists(u), UNCHANGED ticks, NEW new \in TimerState, NEW h \in History,
             new.current_ticks = timer[u].current_ticks, new.parent = timer[u].parent,
             timer' = [timer EXCEPT ![u] = new], past' = [past EXCEPT ![u] = h],
             Sound(new, h, TimeOf(timer[u].parent))
      PROVE  TimersInv'
  <2>1. timer'[u] = new /\ past'[u] = h
        /\ \A t \in Timers : t # u => timer'[t] = timer[t] /\ past'[t] = past[t]
    BY <1>6, <1>s DEF TimersTyped
  <2>2. \A t \in Timers : Exists(t)' <=> Exists(t) BY <1>6, <2>1 DEF Exists, Sane
  <2>3. \A t \in Timers : Exists(t) =>
          timer'[t].parent = timer[t].parent /\ timer'[t].current_ticks = timer[t].current_ticks
    BY <1>6, <2>1
  <2>4. \A t \in Timers : Exists(t) => TimeOf(timer[t].parent)' = TimeOf(timer[t].parent)
    BY <1>6, <2>3, <1>s DEF TimeOf, ParentsFollowed
  <2>5. TimersTyped' BY <1>6, <1>s DEF TimersTyped
  <2>6. ParentsFollowed' BY <2>2, <2>3, <1>s DEF ParentsFollowed
  <2>7. Sound(timer'[u], past'[u], TimeOf(timer[u].parent)') BY <1>6, <2>1, <2>4
  <2>8. \A t \in Timers : t # u /\ Exists(t) => Sound(timer'[t], past'[t], TimeOf(timer[t].parent)')
    BY <1>i, <2>1, <2>4
  <2>9. QED BY <2>2, <2>5, <2>6, <2>7, <2>8 DEF TimersInv
<1>7. ASSUME NEW u \in Timers, UpdatePaused(u) PROVE TimersInv'
  <2> DEFINE h == [past[u] EXCEPT !.summed = 0, !.reread = TRUE]
  <2>1. Exists(u) /\ timer[u] \in TimerState /\ past[u] \in History /\ Sound(timer[u], past[u], TimeOf(timer[u].parent))
    BY <1>7, <1>s, <1>i DEF UpdatePaused, TimersTyped
  <2>2. /\ h \in History /\ h.start = past[u].start /\ h.stopped = past[u].stopped
        /\ h.fastest = past[u].fastest /\ h.reread
    BY <2>1 DEF History
  <2>3. Sound(timer[u], h, TimeOf(timer[u].parent)) BY <2>1, <2>2 DEF Sound
  <2>4. timer' = [timer EXCEPT ![u] = timer[u]] /\ past' = [past EXCEPT ![u] = h] /\ UNCHANGED ticks
    BY <1>7, <1>s DEF UpdatePaused, TimersTyped
  <2> HIDE DEF h
  <2>5. QED BY <1>6, <2>1, <2>2, <2>3, <2>4
<1>8. ASSUME NEW u \in Timers, SetScale(u) PROVE TimersInv'
  <2>1. Exists(u) /\ timer[u] \in TimerState /\ past[u] \in History /\ Sound(timer[u], past[u], TimeOf(timer[u].parent))
    BY <1>8, <1>s, <1>i DEF SetScale, TimersTyped
  <2>2. PICK s \in Scales : /\ timer' = [timer EXCEPT ![u].scale = s]
                            /\ past' = [past EXCEPT ![u].fastest = IF s > @ THEN s ELSE @]
    BY <1>8 DEF SetScale
  <2> DEFINE new == [timer[u] EXCEPT !.scale = s]
             h == [past[u] EXCEPT !.fastest = IF s > @ THEN s ELSE @]
  <2>3. s \in Nat /\ UNCHANGED ticks BY <1>8 DEF Sane, SetScale
  <2>4. /\ new \in TimerState /\ new.current_ticks = timer[u].current_ticks
        /\ new.parent = timer[u].parent /\ h \in History
    BY <2>1, <2>3 DEF TimerState, History
  <2>5. Sound(new, h, TimeOf(timer[u].parent))
    <3>1. TimeOf(timer[u].parent) \in Nat BY <2>1, <1>s
    <3>2. QED BY <2>1, <2>3, <2>4, <3>1, SoundScaled
  <2>6. timer' = [timer EXCEPT ![u] = new] /\ past' = [past EXCEPT ![u] = h] BY <2>2
  <2> HIDE DEF new, h
  <2>7. QED BY <1>6, <2>1, <2>3, <2>4, <2>5, <2>6
<1>9. ASSUME NEW u \in Timers, Pause(u) PROVE TimersInv'
  <2> DEFINE new == [timer[u] EXCEPT !.paused = TRUE]
  <2>1. Exists(u) /\ timer[u] \in TimerState /\ past[u] \in History
        /\ TimeOf(timer[u].parent) \in Nat /\ Sound(timer[u], past[u], TimeOf(timer[u].parent))
    BY <1>9, <1>s, <1>i DEF Pause, TimersTyped
  <2>2. /\ new \in TimerState /\ new.current_ticks = timer[u].current_ticks
        /\ new.parent = timer[u].parent
    BY <2>1 DEF TimerState
  <2>3. Sound(new, past[u], TimeOf(timer[u].parent)) BY <2>1, SoundPaused
  <2>4. timer' = [timer EXCEPT ![u] = new] /\ past' = [past EXCEPT ![u] = past[u]] /\ UNCHANGED ticks
    BY <1>9, <1>s DEF Pause, TimersTyped
  <2> HIDE DEF new
  <2>5. QED BY <1>6, <2>1, <2>2, <2>3, <2>4
<1>10. ASSUME NEW u \in Timers, Resume(u) PROVE TimersInv'
  <2> DEFINE new == [timer[u] EXCEPT !.paused = FALSE, !.bias_ticks = TimeOf(timer[u].parent)]
  <2>1. Exists(u) /\ timer[u] \in TimerState /\ past[u] \in History
        /\ TimeOf(timer[u].parent) \in Nat /\ Sound(timer[u], past[u], TimeOf(timer[u].parent))
    BY <1>10, <1>s, <1>i DEF Resume, TimersTyped
  <2>2. /\ new \in TimerState /\ new.current_ticks = timer[u].current_ticks
        /\ new.parent = timer[u].parent
    BY <2>1 DEF TimerState
  <2>3. Sound(new, past[u], TimeOf(timer[u].parent)) BY <2>1, SoundPaused
  <2>4. timer' = [timer EXCEPT ![u] = new] /\ past' = [past EXCEPT ![u] = past[u]] /\ UNCHANGED ticks
    BY <1>10, <1>s DEF Resume, TimersTyped
  <2> HIDE DEF new
  <2>5. QED BY <1>6, <2>1, <2>2, <2>3, <2>4
<1>11. QED BY <1>1, <1>2, <1>3, <1>4, <1>5, <1>7, <1>8, <1>9, <1>10 DEF TimerNext

(* In whatever order timers are made, updated, scaled, paused and resumed, *)
(* none is ever ahead of its parent's time at its largest scale, less what *)
(* passed in pauses, and none is anything but the sum of its deltas.       *)
(* (timer_object.c:18-45, 67-84)                                           *)
THEOREM TimeKept ==
  ASSUME Sane
  PROVE  TimerSpec => []TimersKeepTime
<1>1. TimerInit => TimersInv
  <2> SUFFICES ASSUME TimerInit PROVE TimersInv
    OBVIOUS
  <2>1. \A t \in Timers : ~Exists(t) BY DEF TimerInit, Exists
  <2>2. TimersTyped BY DEF TimerInit, TimersTyped, Record, History, Normal
  <2>3. QED BY <2>1, <2>2 DEF TimersInv, ParentsFollowed
<1>2. TimersInv /\ [TimerNext]_timerVars => TimersInv' BY TimersNext
<1>3. TimersInv => TimersKeepTime
  <2> SUFFICES ASSUME TimersInv, NEW t \in Timers, Exists(t)
               PROVE  /\ 2 * timer[t].current_ticks
                            <= past[t].fastest * (TimeOf(timer[t].parent) - past[t].start - past[t].stopped)
                      /\ (~past[t].reread => past[t].summed = timer[t].current_ticks)
    BY DEF TimersKeepTime
  <2>1. /\ timer[t] \in TimerState /\ TimeOf(timer[t].parent) \in Nat /\ past[t] \in History
        /\ Sound(timer[t], past[t], TimeOf(timer[t].parent))
    BY StatesExist DEF TimersInv, TimersTyped
  <2>2. QED BY <2>1, SoundKeeps DEF Sound
<1>4. QED BY <1>1, <1>2, <1>3, PTL DEF TimerSpec

-----------------------------------------------------------------------------
(* No row of frogger_game.c is passed untested and no block leaves its     *)
(* path, wherever the rows are, whatever the blocks measure, and however   *)
(* long the frames take.                                                   *)

Slowest(s) == s \in Speeds /\ \A other \in Speeds : other <= s

(* A field of the game: the player starts below every row, the blocks      *)
(* start on their path, and there is a longest frame.                      *)
Road ==
  /\ Row \in Nat /\ Home \in Nat /\ Edge \in Nat /\ Row - 2 <= Home
  /\ \A n \in 0 .. Count - 1 : Place(n) \in Int /\ Near(Place(n), 0, Edge)
  /\ Speeds \subseteq Nat /\ \E s \in Speeds : Slowest(s)

MaxSpeed == CHOOSE s \in Speeds : \A other \in Speeds : other <= s

PlayerPassesTested ==
  /\ player.y \in Int /\ player.z \in Int
  /\ \A row \in Rows : player.z < row - 2 => row \in tested \/ leapt

BlocksOnPath ==
  \A c \in Cubes : block[c].y \in Int /\ Near(block[c].y, 0, Edge + 2 * MaxSpeed)

LEMMA MaxSpeedIs == Road => MaxSpeed \in Nat /\ \A s \in Speeds : s \in Nat /\ s <= MaxSpeed
BY DEF Road, Slowest, MaxSpeed

LEMMA RowsAre == ASSUME Road, NEW row \in Rows PROVE row \in Int /\ row - 2 <= Home
BY DEF Road, Rows

LEMMA InitGame == Road /\ GameInit => PlayerPassesTested /\ BlocksOnPath
<1> SUFFICES ASSUME Road, GameInit PROVE PlayerPassesTested /\ BlocksOnPath OBVIOUS
<1>1. PlayerPassesTested
  <2>1. player.y = 0 /\ player.z = Home BY DEF GameInit, AtHome
  <2>2. Home \in Int BY DEF Road
  <2>3. QED BY <2>1, <2>2, RowsAre DEF PlayerPassesTested
<1>2. ASSUME NEW c \in Cubes PROVE block[c].y \in Int /\ Near(block[c].y, 0, Edge + 2 * MaxSpeed)
  <2>1. block[c].y = Place(c[2]) /\ c[2] \in 0 .. Count - 1 BY <1>2 DEF GameInit, Cubes
  <2>2. Place(c[2]) \in Int /\ Near(Place(c[2]), 0, Edge) BY <2>1 DEF Road
  <2>3. Edge \in Nat BY DEF Road
  <2>4. QED BY <2>1, <2>2, <2>3, MaxSpeedIs DEF Near
<1>3. QED BY <1>1, <1>2 DEF BlocksOnPath

(* A block that is not beyond its end goes on by at most two of the        *)
(* player's steps, towards that end; one that is starts over.              *)
LEMMA StepBlocks ==
  ASSUME Road, BlocksOnPath, NEW speed \in Speeds, NEW lengths, UpdateBlocks(speed, lengths)
  PROVE  BlocksOnPath'
<1>1. SUFFICES ASSUME NEW c \in Cubes
               PROVE  block'[c].y \in Int /\ Near(block'[c].y, 0, Edge + 2 * MaxSpeed)
  BY DEF BlocksOnPath
<1>2. /\ Edge \in Nat /\ speed \in Nat /\ MaxSpeed \in Nat /\ speed <= MaxSpeed
      /\ block[c].y \in Int /\ Near(block[c].y, 0, Edge + 2 * MaxSpeed)
  BY MaxSpeedIs DEF Road, BlocksOnPath
<1>3. c[1] \in Rows /\ c[1] \in Int BY RowsAre DEF Cubes
<1> DEFINE from == IF Beyond(c[1], block[c].y) THEN Start(c[1]) ELSE block[c].y
<1>4. block'[c].y = from + Step(c[1], speed) BY DEF UpdateBlocks
<1>5. CASE c[1] = 0
  <2>1. Step(c[1], speed) = (3 * speed) \div 2 BY <1>5 DEF Step
  <2>2. (3 * speed) \div 2 \in 0 .. 2 * speed BY <1>2
  <2>3. from \in Int /\ from <= Edge /\ -(Edge + 2 * MaxSpeed) <= from
    BY <1>2, <1>5 DEF Beyond, Start, Near
  <2>4. QED BY <1>2, <1>4, <2>1, <2>2, <2>3 DEF Near
<1>6. CASE c[1] # 0
  <2>1. Step(c[1], speed) \in {-speed, -2 * speed} BY <1>3, <1>6 DEF Step
  <2>2. from \in Int /\ -Edge <= from /\ from <= Edge + 2 * MaxSpeed
    BY <1>2, <1>6 DEF Beyond, Start, Near
  <2>3. QED BY <1>2, <1>4, <2>1, <2>2 DEF Near
<1>7. QED BY <1>5, <1>6

(* A frame of four units or less does not take the player across a row; he *)
(* was tested against the rows he was in when it began.                    *)
LEMMA StepPlayer ==
  ASSUME Road, PlayerPassesTested, NEW speed \in Speeds, NEW keys, UpdatePlayers(speed, keys)
  PROVE  PlayerPassesTested'
<1> DEFINE arrived == player.z < -Home
           p       == IF arrived THEN AtHome ELSE player
           hit     == \E c \in Cubes : Touches(p, c, block'[c])
           from    == IF hit THEN AtHome ELSE p
           fresh   == arrived \/ hit
<1>1. /\ player' = [y |-> from.y + By(keys, "left", "right", speed),
                    z |-> from.z + By(keys, "up", "down", speed)]
      /\ tested' = (IF fresh THEN {} ELSE tested) \cup {row \in Rows : InRow(from, row)}
      /\ leapt' = ((leapt /\ ~fresh) \/ speed > 4)
  BY DEF UpdatePlayers
<1>2. IF fresh THEN from = AtHome ELSE from = player OBVIOUS
<1> HIDE DEF fresh, from
<1>3. speed \in Nat /\ Home \in Int BY MaxSpeedIs DEF Road
<1>4. /\ By(keys, "left", "right", speed) \in -speed .. speed
      /\ By(keys, "up", "down", speed) \in -speed .. speed
  BY <1>3 DEF By
<1>5. from.y \in Int /\ from.z \in Int BY <1>2, <1>3 DEF PlayerPassesTested, AtHome
<1>6. /\ player'.y \in Int /\ player'.z \in Int /\ from.z - speed <= player'.z
  BY <1>1, <1>3, <1>4, <1>5
<1>7. ASSUME NEW row \in Rows, player'.z < row - 2, ~leapt' PROVE row \in tested'
  <2>1. speed <= 4 /\ row \in Int /\ row - 2 <= Home
    <3>1. ~(speed > 4) BY <1>1, <1>7, Zenon
    <3>2. QED BY <1>3, <3>1, RowsAre
  <2>2. CASE from.z < row - 2
    <3>1. ~fresh BY <1>2, <1>3, <2>1, <2>2 DEF AtHome
    <3>2. row \in tested BY <1>1, <1>2, <1>7, <2>2, <3>1 DEF PlayerPassesTested
    <3>3. QED BY <1>1, <3>1, <3>2
  <2>3. CASE ~(from.z < row - 2)
    <3>1. Near(from.z, row, 2) BY <1>3, <1>5, <1>6, <1>7, <2>1, <2>3 DEF Near
    <3>2. QED BY <1>1, <3>1 DEF InRow
  <2>4. QED BY <2>2, <2>3
<1>8. QED BY <1>6, <1>7 DEF PlayerPassesTested

(* Whatever the keys and the lengths of the frames.                        *)
(* (frogger_game.c:356-500)                                                *)
THEOREM RowsAreTested ==
  ASSUME Road
  PROVE  GameSpec => []NoRowSkipped
<1> DEFINE Inv == PlayerPassesTested /\ BlocksOnPath
<1>1. GameInit => Inv BY InitGame
<1>2. Inv /\ [GameNext]_gameVars => Inv'
  <2> SUFFICES ASSUME Inv, [GameNext]_gameVars PROVE Inv' OBVIOUS
  <2>1. CASE GameNext
    <3>1. PICK speed \in Speeds, keys \in SUBSET Arrows : GameFrame(speed, keys) BY <2>1 DEF GameNext
    <3>2. QED BY <3>1, StepBlocks, StepPlayer DEF GameFrame
  <2>2. CASE UNCHANGED gameVars
    BY <2>2 DEF gameVars, PlayerPassesTested, BlocksOnPath
  <2>3. QED BY <2>1, <2>2
<1>3. Inv => NoRowSkipped BY DEF PlayerPassesTested, BlocksOnPath, NoRowSkipped, MaxSpeed
<1>4. QED BY <1>1, <1>2, <1>3, PTL DEF GameSpec

-----------------------------------------------------------------------------
(* Nothing of gpu.c outlives its owners, and what fails leaves nothing     *)
(* behind, for any number of frames, mesh layouts and objects, and         *)
(* whichever calls fail.                                                   *)

Names == {"block", "instance", "device", "surface", "swap_chain", "frames", "view",
          "depth_stencil_image", "depth_stencil_memory", "depth_stencil_view",
          "render_pass", "frame_buffer", "present_complete_sema", "render_complete_sema",
          "descriptor_pool", "cmd_pool", "cmd_buffer", "buffer", "fence", "binding",
          "attributes", "vertex_buffer", "vertex_memory", "index_buffer", "index_memory",
          "memory", "vertex_module", "fragment_module", "descriptor_set_layout",
          "pipeline_layout", "pipe", "set"}
Owners  == Objects \cup {Gpu}
Handles == Owners \X Names \X Nat
CallSet == [makes : SUBSET Handles, uses : SUBSET Handles, fails : BOOLEAN]

(* What must be there before h: what it is made from, and its holder.      *)
Needs(h) == Parents(h) \cup Holder(h)
Wants(c) == c.uses \cup UNION {Needs(h) : h \in c.makes}
Made(q)  == UNION {c.makes : c \in ToSet(q)}

(* Each call of q finds what it wants, in pre or made by an earlier one.   *)
InOrder(q, pre) ==
  \A k \in 1 .. Len(q) : \A h \in Wants(q[k]) :
    h \in pre \/ \E j \in 1 .. k - 1 : h \in q[j].makes

(* Of two handles, x may go before y.                                      *)
Before(x, y) == x # y /\ x \notin Needs(y)

Ordered(q) == \A i, j \in 1 .. Len(q) : i < j => Before(q[i], q[j])

-----------------------------------------------------------------------------
(* A nonempty set of naturals has a smallest element, so what holds of 0   *)
(* and is passed on by each n below N holds up to N.                       *)
LEMMA HasSmallest ==
  ASSUME NEW S \in SUBSET Nat, S # {}
  PROVE  \E i \in S : \A j \in S : i <= j
<1> DEFINE Below == {pair \in Nat \X Nat : pair[1] < pair[2]}
<1>1. Below = OpToRel(<, Nat) BY DEF OpToRel
<1>2. IsWellFoundedOn(Below, Nat) BY <1>1, NatLessThanWellFounded
<1>3. PICK i \in S : \A j \in S : ~ (<<j, i>> \in Below)
  <2> HIDE DEF Below
  <2> QED BY <1>2, WFMin
<1>4. ASSUME NEW j \in S PROVE i <= j
  <2>1. j \in Nat /\ i \in Nat OBVIOUS
  <2>2. <<j, i>> \in Nat \X Nat BY <2>1
  <2>3. ~ (j < i) BY <1>3, <2>2
  <2> QED BY <2>1, <2>3
<1>5. QED BY <1>4

LEMMA UpTo ==
  ASSUME NEW N \in Nat, NEW S, 0 \in S,
         \A n \in 0 .. N - 1 : n \in S => n + 1 \in S
  PROVE  \A n \in 0 .. N : n \in S
<1> SUFFICES ASSUME NEW m \in 0 .. N, m \notin S PROVE FALSE OBVIOUS
<1> DEFINE Missing == {n \in 0 .. N : n \notin S}
<1>1. Missing \in SUBSET Nat /\ Missing # {} OBVIOUS
<1>2. PICK k \in Missing : \A j \in Missing : k <= j BY <1>1, HasSmallest
<1>3. k \in 0 .. N /\ k \notin S /\ k # 0 BY <1>2
<1>4. k - 1 \in 0 .. N - 1 BY <1>3
<1>5. k - 1 \notin S BY <1>3, <1>4
<1>6. k - 1 \in Missing BY <1>4, <1>5
<1>7. QED BY <1>2, <1>3, <1>6

(* FlattenSeq, one sequence after the other.                               *)
Joins(f, ss) ==
  /\ f[0] = <<>>
  /\ \A n \in 1 .. Len(ss) : f[n] = f[n - 1] \o ss[n]
  /\ FlattenSeq(ss) = f[Len(ss)]

LEMMA Flattened ==
  ASSUME NEW S, NEW ss \in Seq(Seq(S))
  PROVE  \E f : Joins(f, ss)
<1> DEFINE N == Len(ss)
           Is(g, n) == g = [i \in 1 .. n |-> IF i = 1 THEN ss[i] ELSE g[i - 1] \o ss[i]]
           Join == CHOOSE g : Is(g, N)
           Lengths == {n \in 0 .. N : \E g : Is(g, n)}
<1>1. N \in Nat /\ DOMAIN ss = 1 .. N /\ \A n \in 1 .. N : ss[n] \in Seq(S) OBVIOUS
<1>2. 0 \in Lengths
  <2> DEFINE h == [i \in 1 .. 0 |-> ss[i]]
  <2>1. Is(h, 0) OBVIOUS
  <2> HIDE DEF h, Is
  <2>2. \E g : Is(g, 0) BY <2>1
  <2>3. QED BY <1>1, <2>2
<1>3. ASSUME NEW m \in 0 .. N - 1, m \in Lengths PROVE m + 1 \in Lengths
  <2>1. PICK g : Is(g, m) BY <1>3
  <2> DEFINE h == [i \in 1 .. m + 1 |->
                     IF i = m + 1 THEN IF i = 1 THEN ss[i] ELSE g[m] \o ss[i] ELSE g[i]]
  <2>2. \A i \in 1 .. m + 1 : h[i] = IF i = 1 THEN ss[i] ELSE h[i - 1] \o ss[i]
    <3> TAKE i \in 1 .. m + 1
    <3>1. CASE i = m + 1 BY <3>1, <1>1
    <3>2. CASE i \in 1 .. m
      <4>1. g[i] = IF i = 1 THEN ss[i] ELSE g[i - 1] \o ss[i] BY <2>1, <3>2
      <4>2. h[i] = g[i] /\ (i # 1 => h[i - 1] = g[i - 1]) BY <1>1, <3>2
      <4>3. QED BY <4>1, <4>2
    <3>3. QED BY <3>1, <3>2, <1>1
  <2>3. h = [i \in 1 .. m + 1 |-> h[i]] OBVIOUS
  <2> HIDE DEF h
  <2>4. h = [i \in 1 .. m + 1 |-> IF i = 1 THEN ss[i] ELSE h[i - 1] \o ss[i]] BY <2>2, <2>3
  <2>5. Is(h, m + 1) BY <2>4
  <2>6. m + 1 \in 0 .. N BY <1>1
  <2> HIDE DEF Is
  <2>7. QED BY <2>5, <2>6
<1>4. N \in Lengths
  <2> HIDE DEF Lengths
  <2>1. \A n \in 0 .. N : n \in Lengths BY <1>1, <1>2, <1>3, UpTo
  <2>2. QED BY <2>1, <1>1
<1>5. Is(Join, N) BY <1>4
<1>6. FlattenSeq(ss) = IF N = 0 THEN ss ELSE Join[N] BY DEF FlattenSeq
<1> HIDE DEF Join
<1> DEFINE f == [n \in 0 .. N |-> IF n = 0 THEN <<>> ELSE Join[n]]
<1>7. \A n \in 1 .. N : f[n] = f[n - 1] \o ss[n]
  <2> TAKE n \in 1 .. N
  <2>1. Join[n] = IF n = 1 THEN ss[n] ELSE Join[n - 1] \o ss[n] BY <1>5
  <2>2. CASE n = 1 
    <3>1. f[n] = ss[n] /\ f[n - 1] = <<>> BY <2>1, <2>2, <1>1
    <3>2. ss[n] \in Seq(S) BY <1>1
    <3>3. <<>> \o ss[n] = ss[n] BY <3>2
    <3>4. QED BY <3>1, <3>3
  <2>3. CASE n # 1
    <3>1. f[n] = Join[n] /\ f[n - 1] = Join[n - 1] BY <1>1, <2>3
    <3>2. QED BY <2>1, <2>3, <3>1
  <2>4. QED BY <2>2, <2>3
<1>8. f[0] = <<>> /\ FlattenSeq(ss) = f[N]
  <2>1. CASE N = 0
    <3>1. ss = <<>> BY <2>1
    <3>2. QED BY <1>1, <1>6, <2>1, <3>1
  <2>2. CASE N # 0 BY <1>1, <1>6, <2>2
  <2>3. QED BY <2>1, <2>2
<1> HIDE DEF f
<1>9. Joins(f, ss) BY <1>7, <1>8 DEF Joins
<1>10. QED BY <1>9

-----------------------------------------------------------------------------
(* What is sound and ordered, of sequences put together.                   *)

LEMMA MadeIs ==
  ASSUME NEW q \in Seq(CallSet)
  PROVE  \A h : h \in Made(q) <=> \E j \in 1 .. Len(q) : h \in q[j].makes
BY DEF Made, ToSet

LEMMA Joined ==
  ASSUME NEW S, NEW a \in Seq(S), NEW b \in Seq(S)
  PROVE  /\ a \o b \in Seq(S) /\ Len(a) \in Nat /\ Len(b) \in Nat
         /\ Len(a \o b) = Len(a) + Len(b)
         /\ \A n \in 1 .. Len(a) : (a \o b)[n] = a[n]
         /\ \A n \in 1 .. Len(b) : (a \o b)[Len(a) + n] = b[n]
         /\ \A n \in 1 .. Len(a \o b) :
              n \in 1 .. Len(a) \/ (n - Len(a) \in 1 .. Len(b) /\ (a \o b)[n] = b[n - Len(a)])
<1>1. /\ a \o b \in Seq(S) /\ Len(a) \in Nat /\ Len(b) \in Nat
      /\ Len(a \o b) = Len(a) + Len(b)
  OBVIOUS
<1>2. \A n \in 1 .. Len(a) : (a \o b)[n] = a[n] OBVIOUS
<1>3. \A n \in 1 .. Len(b) : (a \o b)[Len(a) + n] = b[n] OBVIOUS
<1>4. ASSUME NEW n \in 1 .. Len(a \o b), n \notin 1 .. Len(a)
      PROVE  n - Len(a) \in 1 .. Len(b) /\ (a \o b)[n] = b[n - Len(a)]
  <2>1. n - Len(a) \in 1 .. Len(b) /\ Len(a) + (n - Len(a)) = n BY <1>1, <1>4
  <2>2. QED BY <1>3, <2>1
<1>5. QED BY <1>1, <1>2, <1>3, <1>4

LEMMA ToSetIs ==
  ASSUME NEW S, NEW q \in Seq(S)
  PROVE  \A h : h \in ToSet(q) <=> \E n \in 1 .. Len(q) : h = q[n]
BY DEF ToSet

LEMMA ToSetJoined ==
  ASSUME NEW S, NEW a \in Seq(S), NEW b \in Seq(S)
  PROVE  ToSet(a \o b) = ToSet(a) \cup ToSet(b)
<1>0. a \o b \in Seq(S) BY Joined
<1>1. \A h \in ToSet(a \o b) : h \in ToSet(a) \cup ToSet(b)
  <2> TAKE h \in ToSet(a \o b)
  <2>1. PICK n \in 1 .. Len(a \o b) : h = (a \o b)[n] BY <1>0, ToSetIs
  <2>2. CASE n \in 1 .. Len(a)
    <3>1. h = a[n] BY <2>1, <2>2, Joined
    <3>2. QED BY <2>2, <3>1, ToSetIs
  <2>3. CASE n \notin 1 .. Len(a)
    <3>1. n - Len(a) \in 1 .. Len(b) /\ h = b[n - Len(a)] BY <2>1, <2>3, Joined
    <3>2. QED BY <3>1, ToSetIs
  <2>4. QED BY <2>2, <2>3
<1>2. \A n \in 1 .. Len(a) : a[n] \in ToSet(a \o b)
  <2> TAKE n \in 1 .. Len(a)
  <2>1. n \in 1 .. Len(a \o b) /\ (a \o b)[n] = a[n] BY Joined
  <2>2. QED BY <1>0, <2>1, ToSetIs
<1>3. \A n \in 1 .. Len(b) : b[n] \in ToSet(a \o b)
  <2> TAKE n \in 1 .. Len(b)
  <2>1. Len(a) + n \in 1 .. Len(a \o b) /\ (a \o b)[Len(a) + n] = b[n] BY Joined
  <2>2. QED BY <1>0, <2>1, ToSetIs
<1>4. \A h \in ToSet(a) : h \in ToSet(a \o b) BY <1>2, ToSetIs
<1>5. \A h \in ToSet(b) : h \in ToSet(a \o b) BY <1>3, ToSetIs
<1>6. QED BY <1>1, <1>4, <1>5

LEMMA ToSetAppended ==
  ASSUME NEW S, NEW a \in Seq(S), NEW h \in S
  PROVE  ToSet(a \o <<h>>) = ToSet(a) \cup {h}
<1>1. <<h>> \in Seq(S) OBVIOUS
<1>2. ToSet(<<h>>) = {h}
  <2>1. DOMAIN <<h>> = {1} /\ <<h>>[1] = h OBVIOUS
  <2>2. QED BY <2>1 DEF ToSet
<1>3. ToSet(a \o <<h>>) = ToSet(a) \cup ToSet(<<h>>) BY <1>1, ToSetJoined
<1>4. QED BY <1>2, <1>3

LEMMA NothingYet == ToSet(<<>>) = {} /\ Ordered(<<>>) /\ \A pre : InOrder(<<>>, pre)
BY DEF ToSet, Ordered, InOrder

LEMMA MadeJoined ==
  ASSUME NEW a \in Seq(CallSet), NEW b \in Seq(CallSet)
  PROVE  Made(a \o b) = Made(a) \cup Made(b)
BY ToSetJoined DEF Made

LEMMA InOrderJoined ==
  ASSUME NEW a \in Seq(CallSet), NEW b \in Seq(CallSet), NEW pre, NEW given,
         InOrder(a, pre), InOrder(b, given), given \subseteq pre \cup Made(a)
  PROVE  InOrder(a \o b, pre)
<1> SUFFICES ASSUME NEW k \in 1 .. Len(a \o b), NEW h \in Wants((a \o b)[k])
             PROVE  h \in pre \/ \E j \in 1 .. k - 1 : h \in (a \o b)[j].makes
  BY DEF InOrder
<1>1. CASE k \in 1 .. Len(a)
  <2>1. (a \o b)[k] = a[k] BY <1>1, Joined
  <2>2. h \in pre \/ \E j \in 1 .. k - 1 : h \in a[j].makes BY <1>1, <2>1 DEF InOrder
  <2>3. \A j \in 1 .. k - 1 : (a \o b)[j] = a[j] BY <1>1, Joined
  <2>4. QED BY <2>2, <2>3
<1>2. CASE k \notin 1 .. Len(a)
  <2>1. k - Len(a) \in 1 .. Len(b) /\ (a \o b)[k] = b[k - Len(a)] BY <1>2, Joined
  <2>2. h \in given \/ \E j \in 1 .. (k - Len(a)) - 1 : h \in b[j].makes BY <2>1 DEF InOrder
  <2>3. CASE h \in given
    <3>1. h \in pre \/ \E j \in 1 .. Len(a) : h \in a[j].makes BY <2>3, MadeIs
    <3>2. \A j \in 1 .. Len(a) : j \in 1 .. k - 1 /\ (a \o b)[j] = a[j] BY <2>1, Joined
    <3>3. QED BY <3>1, <3>2
  <2>4. CASE \E j \in 1 .. (k - Len(a)) - 1 : h \in b[j].makes
    <3>1. PICK j \in 1 .. (k - Len(a)) - 1 : h \in b[j].makes BY <2>4
    <3>2. j \in 1 .. Len(b) /\ Len(a) + j \in 1 .. k - 1 /\ (a \o b)[Len(a) + j] = b[j]
      BY <2>1, Joined
    <3>3. QED BY <3>1, <3>2
  <2>5. QED BY <2>2, <2>3, <2>4
<1>3. QED BY <1>1, <1>2

LEMMA OrderedJoined ==
  ASSUME NEW a \in Seq(Handles), NEW b \in Seq(Handles), Ordered(a), Ordered(b),
         \A x \in ToSet(a), y \in ToSet(b) : Before(x, y)
  PROVE  Ordered(a \o b)
<1> SUFFICES ASSUME NEW i \in 1 .. Len(a \o b), NEW j \in 1 .. Len(a \o b), i < j
             PROVE  Before((a \o b)[i], (a \o b)[j])
  BY DEF Ordered
<1>1. CASE j \in 1 .. Len(a)
  <2>1. i \in 1 .. Len(a) BY <1>1
  <2>2. (a \o b)[i] = a[i] /\ (a \o b)[j] = a[j] BY <1>1, <2>1, Joined
  <2>3. QED BY <1>1, <2>1, <2>2 DEF Ordered
<1>2. CASE i \in 1 .. Len(a) /\ j \notin 1 .. Len(a)
  <2>1. (a \o b)[i] = a[i] /\ j - Len(a) \in 1 .. Len(b) /\ (a \o b)[j] = b[j - Len(a)]
    BY <1>2, Joined
  <2>2. a[i] \in ToSet(a) /\ b[j - Len(a)] \in ToSet(b) BY <1>2, <2>1 DEF ToSet
  <2>3. QED BY <2>1, <2>2
<1>3. CASE i \notin 1 .. Len(a) /\ j \notin 1 .. Len(a)
  <2>1. /\ i - Len(a) \in 1 .. Len(b) /\ (a \o b)[i] = b[i - Len(a)]
        /\ j - Len(a) \in 1 .. Len(b) /\ (a \o b)[j] = b[j - Len(a)]
    BY <1>3, Joined
  <2>2. i - Len(a) < j - Len(a) BY Joined
  <2>3. QED BY <2>1, <2>2 DEF Ordered
<1>4. QED BY <1>1, <1>2, <1>3

(* The same of all that FlattenSeq joins.                                  *)
LEMMA ToSetFlattened ==
  ASSUME NEW S, NEW ss \in Seq(Seq(S))
  PROVE  /\ FlattenSeq(ss) \in Seq(S)
         /\ ToSet(FlattenSeq(ss)) = UNION {ToSet(ss[n]) : n \in 1 .. Len(ss)}
<1> DEFINE N == Len(ss)
<1>1. N \in Nat /\ \A n \in 1 .. N : ss[n] \in Seq(S) OBVIOUS
<1>2. PICK f : Joins(f, ss) BY Flattened
<1> DEFINE Good == {n \in 0 .. N : /\ f[n] \in Seq(S)
                                   /\ ToSet(f[n]) = UNION {ToSet(ss[m]) : m \in 1 .. n}}
<1>3. 0 \in Good
  <2>1. f[0] = <<>> BY <1>2 DEF Joins
  <2>2. ToSet(f[0]) = UNION {ToSet(ss[m]) : m \in 1 .. 0}
    <3>1. \A m : m \notin 1 .. 0 OBVIOUS
    <3>2. QED BY <2>1, <3>1, NothingYet
  <2>3. f[0] \in Seq(S) BY <2>1
  <2>4. QED BY <1>1, <2>2, <2>3
<1>4. ASSUME NEW n \in 0 .. N - 1, n \in Good PROVE n + 1 \in Good
  <2>1. n + 1 \in 1 .. N /\ (n + 1) - 1 = n BY <1>1
  <2>2. f[n + 1] = f[n] \o ss[n + 1] BY <1>2, <2>1 DEF Joins
  <2>3. /\ f[n] \in Seq(S) /\ ss[n + 1] \in Seq(S)
        /\ ToSet(f[n]) = UNION {ToSet(ss[m]) : m \in 1 .. n}
    BY <1>1, <1>4, <2>1
  <2>4. f[n + 1] \in Seq(S) BY <2>2, <2>3
  <2>5. ToSet(f[n + 1]) = ToSet(f[n]) \cup ToSet(ss[n + 1]) BY <2>2, <2>3, ToSetJoined
  <2>6. \A m : m \in 1 .. n + 1 <=> m \in 1 .. n \/ m = n + 1 BY <1>1
  <2>7. ToSet(f[n + 1]) = UNION {ToSet(ss[m]) : m \in 1 .. n + 1} BY <2>3, <2>5, <2>6
  <2>8. QED BY <2>1, <2>4, <2>7
<1>5. N \in Good
  <2> HIDE DEF Good
  <2>1. \A n \in 0 .. N : n \in Good BY <1>1, <1>3, <1>4, UpTo
  <2>2. QED BY <1>1, <2>1
<1>6. FlattenSeq(ss) = f[N] BY <1>2 DEF Joins
<1>7. QED BY <1>5, <1>6

LEMMA InOrderFlattened ==
  ASSUME NEW pre, NEW ss \in Seq(Seq(CallSet)), \A n \in 1 .. Len(ss) : InOrder(ss[n], pre)
  PROVE  InOrder(FlattenSeq(ss), pre)
<1> DEFINE N == Len(ss)
<1>1. N \in Nat /\ \A n \in 1 .. N : ss[n] \in Seq(CallSet) OBVIOUS
<1>2. PICK f : Joins(f, ss) BY Flattened
<1> DEFINE Good == {n \in 0 .. N : f[n] \in Seq(CallSet) /\ InOrder(f[n], pre)}
<1>3. 0 \in Good
  <2>1. f[0] = <<>> BY <1>2 DEF Joins
  <2>2. InOrder(<<>>, pre) BY NothingYet
  <2>3. f[0] \in Seq(CallSet) BY <2>1
  <2>4. f[0] \in Seq(CallSet) /\ InOrder(f[0], pre) BY <2>1, <2>2, <2>3
  <2>5. QED BY <1>1, <2>4
<1>4. ASSUME NEW n \in 0 .. N - 1, n \in Good PROVE n + 1 \in Good
  <2>1. n + 1 \in 1 .. N /\ (n + 1) - 1 = n BY <1>1
  <2>2. f[n + 1] = f[n] \o ss[n + 1] BY <1>2, <2>1 DEF Joins
  <2>3. f[n] \in Seq(CallSet) /\ ss[n + 1] \in Seq(CallSet) /\ InOrder(f[n], pre)
    BY <1>1, <1>4, <2>1
  <2>4. f[n + 1] \in Seq(CallSet) BY <2>2, <2>3
  <2>5. InOrder(ss[n + 1], pre) BY <2>1
  <2>6. InOrder(f[n + 1], pre) BY <2>2, <2>3, <2>5, InOrderJoined
  <2>7. QED BY <2>1, <2>4, <2>6
<1>5. N \in Good
  <2> HIDE DEF Good
  <2>1. \A n \in 0 .. N : n \in Good BY <1>1, <1>3, <1>4, UpTo
  <2>2. QED BY <1>1, <2>1
<1>6. FlattenSeq(ss) = f[N] BY <1>2 DEF Joins
<1>7. QED BY <1>5, <1>6

LEMMA OrderedFlattened ==
  ASSUME NEW ss \in Seq(Seq(Handles)), \A n \in 1 .. Len(ss) : Ordered(ss[n]),
         \A m, n \in 1 .. Len(ss) : m < n =>
           \A x \in ToSet(ss[m]), y \in ToSet(ss[n]) : Before(x, y)
  PROVE  Ordered(FlattenSeq(ss))
<1> DEFINE N == Len(ss)
<1>1. N \in Nat /\ \A n \in 1 .. N : ss[n] \in Seq(Handles) OBVIOUS
<1>2. PICK f : Joins(f, ss) BY Flattened
<1> DEFINE Good == {n \in 0 .. N : /\ f[n] \in Seq(Handles) /\ Ordered(f[n])
                                   /\ ToSet(f[n]) = UNION {ToSet(ss[m]) : m \in 1 .. n}}
<1>3. 0 \in Good
  <2>1. f[0] = <<>> BY <1>2 DEF Joins
  <2>2. ToSet(f[0]) = UNION {ToSet(ss[m]) : m \in 1 .. 0}
    <3>1. \A m : m \notin 1 .. 0 OBVIOUS
    <3>2. QED BY <2>1, <3>1, NothingYet
  <2>3. f[0] \in Seq(Handles) /\ Ordered(f[0]) BY <2>1, NothingYet
  <2>4. QED BY <1>1, <2>2, <2>3
<1>4. ASSUME NEW n \in 0 .. N - 1, n \in Good PROVE n + 1 \in Good
  <2>1. n + 1 \in 1 .. N /\ (n + 1) - 1 = n BY <1>1
  <2>2. f[n + 1] = f[n] \o ss[n + 1] BY <1>2, <2>1 DEF Joins
  <2>3. /\ f[n] \in Seq(Handles) /\ ss[n + 1] \in Seq(Handles) /\ Ordered(f[n])
        /\ ToSet(f[n]) = UNION {ToSet(ss[m]) : m \in 1 .. n}
    BY <1>1, <1>4, <2>1
  <2>4. f[n + 1] \in Seq(Handles) BY <2>2, <2>3
  <2>5. ToSet(f[n + 1]) = ToSet(f[n]) \cup ToSet(ss[n + 1]) BY <2>2, <2>3, ToSetJoined
  <2>6. \A m : m \in 1 .. n + 1 <=> m \in 1 .. n \/ m = n + 1 BY <1>1
  <2>7. ToSet(f[n + 1]) = UNION {ToSet(ss[m]) : m \in 1 .. n + 1} BY <2>3, <2>5, <2>6
  <2>8. ASSUME NEW x \in ToSet(f[n]), NEW y \in ToSet(ss[n + 1]) PROVE Before(x, y)
    <3>1. PICK m \in 1 .. n : x \in ToSet(ss[m]) BY <2>3
    <3>2. m \in 1 .. N /\ m < n + 1 BY <1>1
    <3>3. QED BY <2>1, <3>1, <3>2
  <2>9. Ordered(ss[n + 1]) BY <2>1
  <2>10. Ordered(f[n + 1]) BY <2>2, <2>3, <2>8, <2>9, OrderedJoined
  <2>11. QED BY <2>1, <2>4, <2>7, <2>10
<1>5. N \in Good
  <2> HIDE DEF Good
  <2>1. \A n \in 0 .. N : n \in Good BY <1>1, <1>3, <1>4, UpTo
  <2>2. QED BY <1>1, <2>1
<1>6. FlattenSeq(ss) = f[N] BY <1>2 DEF Joins
<1>7. QED BY <1>5, <1>6

(* Where a sequence is cut: what was before, and what comes.               *)
LEMMA InOrderAt ==
  ASSUME NEW a \in Seq(CallSet), NEW b \in Seq(CallSet), NEW pre, InOrder(a \o b, pre), b # <<>>
  PROVE  Head(b) \in CallSet /\ Wants(Head(b)) \subseteq pre \cup Made(a)
<1>1. Len(b) \in Nat \ {0} /\ 1 \in 1 .. Len(b) /\ Head(b) = b[1] /\ Head(b) \in CallSet OBVIOUS
<1>2. Len(a) + 1 \in 1 .. Len(a \o b) /\ (a \o b)[Len(a) + 1] = Head(b) BY <1>1, Joined
<1> SUFFICES ASSUME NEW h \in Wants(Head(b)) PROVE h \in pre \cup Made(a) BY <1>1
<1>3. h \in pre \/ \E j \in 1 .. (Len(a) + 1) - 1 : h \in (a \o b)[j].makes BY <1>2 DEF InOrder
<1>4. \A j \in 1 .. (Len(a) + 1) - 1 : j \in 1 .. Len(a) /\ (a \o b)[j] = a[j] BY Joined
<1>5. h \in pre \/ \E j \in 1 .. Len(a) : h \in a[j].makes BY <1>3, <1>4
<1>6. QED BY <1>5, MadeIs

LEMMA InOrderBefore ==
  ASSUME NEW a \in Seq(CallSet), NEW b \in Seq(CallSet), NEW pre, InOrder(a \o b, pre)
  PROVE  \A h \in Made(a) : Needs(h) \subseteq pre \cup Made(a)
<1> SUFFICES ASSUME NEW h \in Made(a), NEW n \in Needs(h) PROVE n \in pre \cup Made(a) OBVIOUS
<1>1. PICK k \in 1 .. Len(a) : h \in a[k].makes BY MadeIs
<1>2. k \in 1 .. Len(a \o b) /\ (a \o b)[k] = a[k] BY Joined
<1>3. n \in Wants(a[k]) BY <1>1 DEF Wants
<1>4. n \in pre \/ \E j \in 1 .. k - 1 : n \in (a \o b)[j].makes BY <1>2, <1>3 DEF InOrder
<1>5. \A j \in 1 .. k - 1 : j \in 1 .. Len(a) /\ (a \o b)[j] = a[j] BY Joined
<1>6. n \in pre \/ \E j \in 1 .. Len(a) : n \in a[j].makes BY <1>4, <1>5
<1>7. QED BY <1>6, MadeIs

LEMMA OrderedAt ==
  ASSUME NEW a \in Seq(Handles), NEW b \in Seq(Handles), Ordered(a \o b),
         NEW x \in ToSet(a), NEW y \in ToSet(b)
  PROVE  Before(x, y)
<1>1. PICK i \in 1 .. Len(a) : x = a[i] BY ToSetIs
<1>2. PICK j \in 1 .. Len(b) : y = b[j] BY ToSetIs
<1>3. i \in 1 .. Len(a \o b) /\ (a \o b)[i] = x BY <1>1, Joined
<1>4. Len(a) + j \in 1 .. Len(a \o b) /\ (a \o b)[Len(a) + j] = y /\ i < Len(a) + j
  BY <1>2, Joined
<1>5. QED BY <1>3, <1>4 DEF Ordered

LEMMA CutBefore ==
  ASSUME NEW a \in Seq(CallSet), NEW b \in Seq(CallSet), NEW c \in Seq(CallSet),
         NEW d \in Seq(CallSet), a \o b = c \o d, b # <<>>, Head(b).fails,
         \A n \in 1 .. Len(d) : ~ d[n].fails
  PROVE  Made(a) \subseteq Made(c)
<1>1. Len(b) \in Nat \ {0} /\ 1 \in 1 .. Len(b) /\ Head(b) = b[1] OBVIOUS
<1>2. Len(a) + 1 \in 1 .. Len(c \o d) /\ (c \o d)[Len(a) + 1] = Head(b) BY <1>1, Joined
<1>3. Len(a) + 1 \in 1 .. Len(c)
  <2>1. ASSUME Len(a) + 1 \notin 1 .. Len(c) PROVE FALSE
    <3>1. /\ (Len(a) + 1) - Len(c) \in 1 .. Len(d)
          /\ (c \o d)[Len(a) + 1] = d[(Len(a) + 1) - Len(c)]
      BY <1>2, <2>1, Joined
    <3>2. QED BY <1>2, <3>1
  <2>2. QED BY <2>1
<1>4. \A n \in 1 .. Len(a) : n \in 1 .. Len(c) /\ a[n] = c[n]
  <2> TAKE n \in 1 .. Len(a)
  <2>1. n \in 1 .. Len(c) BY <1>3, Joined
  <2>2. (a \o b)[n] = a[n] BY Joined
  <2>3. (c \o d)[n] = c[n] BY <2>1, Joined
  <2>4. QED BY <2>1, <2>2, <2>3
<1> SUFFICES ASSUME NEW h \in Made(a) PROVE h \in Made(c) OBVIOUS
<1>5. PICK k \in 1 .. Len(a) : h \in a[k].makes BY MadeIs
<1>6. QED BY <1>4, <1>5, MadeIs

-----------------------------------------------------------------------------
(* What the calls of a function want and make.                             *)
Steps(q, pre, made) == q \in Seq(CallSet) /\ InOrder(q, pre) /\ Made(q) = made

LEMMA StepsJoined ==
  ASSUME NEW a, NEW b, NEW pre, NEW given, NEW m, NEW n,
         Steps(a, pre, m), Steps(b, given, n), given \subseteq pre \cup m
  PROVE  Steps(a \o b, pre, m \cup n)
<1>1. a \in Seq(CallSet) /\ b \in Seq(CallSet) /\ InOrder(a, pre) /\ InOrder(b, given)
      /\ Made(a) = m /\ Made(b) = n
  BY DEF Steps
<1>2. InOrder(a \o b, pre) BY <1>1, InOrderJoined
<1>3. Made(a \o b) = m \cup n BY <1>1, MadeJoined
<1>4. a \o b \in Seq(CallSet) BY <1>1
<1>5. QED BY <1>2, <1>3, <1>4 DEF Steps

LEMMA StepsOne ==
  ASSUME NEW c \in CallSet, NEW pre, Wants(c) \subseteq pre
  PROVE  Steps(<<c>>, pre, c.makes)
<1>1. <<c>> \in Seq(CallSet) /\ Len(<<c>>) = 1 /\ <<c>>[1] = c OBVIOUS
<1>2. InOrder(<<c>>, pre) BY <1>1 DEF InOrder
<1>3. ToSet(<<c>>) = {c}
  <2>1. DOMAIN <<c>> = {1} /\ <<c>>[1] = c OBVIOUS
  <2>2. QED BY <2>1 DEF ToSet
<1>4. Made(<<c>>) = c.makes BY <1>3 DEF Made
<1>5. QED BY <1>1, <1>2, <1>4 DEF Steps

LEMMA StepsTwo ==
  ASSUME NEW c \in CallSet, NEW d \in CallSet, NEW pre,
         Wants(c) \subseteq pre, Wants(d) \subseteq pre \cup c.makes
  PROVE  Steps(<<c, d>>, pre, c.makes \cup d.makes)
<1>1. Steps(<<c>>, pre, c.makes) /\ Steps(<<d>>, pre \cup c.makes, d.makes) BY StepsOne
<1>2. <<c>> \o <<d>> = <<c, d>>
  <2>1. <<c, d>> = Append(<<c>>, d) OBVIOUS
  <2>2. Append(<<c>>, d) = <<c>> \o <<d>> BY AppendIsConcat
  <2>3. QED BY <2>1, <2>2
<1>3. Steps(<<c>> \o <<d>>, pre, c.makes \cup d.makes) BY <1>1, StepsJoined
<1>4. QED BY <1>2, <1>3

LEMMA StepsThree ==
  ASSUME NEW c \in CallSet, NEW d \in CallSet, NEW e \in CallSet, NEW pre,
         Wants(c) \subseteq pre, Wants(d) \subseteq pre \cup c.makes,
         Wants(e) \subseteq pre \cup c.makes \cup d.makes
  PROVE  Steps(<<c, d, e>>, pre, c.makes \cup d.makes \cup e.makes)
<1> DEFINE two == <<c, d>>
           here == pre \cup (c.makes \cup d.makes)
<1>1. Steps(two, pre, c.makes \cup d.makes) BY StepsTwo
<1>2. Wants(e) \subseteq here OBVIOUS
<1>3. two \o <<e>> = <<c, d, e>>
  <2>1. <<c, d, e>> = Append(two, e) OBVIOUS
  <2>2. Append(two, e) = two \o <<e>> BY AppendIsConcat
  <2>3. QED BY <2>1, <2>2
<1> HIDE DEF two, here
<1>4. Steps(<<e>>, here, e.makes) BY <1>2, StepsOne
<1>5. here \subseteq pre \cup (c.makes \cup d.makes) BY DEF here
<1>6. Steps(two \o <<e>>, pre, (c.makes \cup d.makes) \cup e.makes) BY <1>1, <1>4, <1>5, StepsJoined
<1>7. QED BY <1>3, <1>6

LEMMA StepsFour ==
  ASSUME NEW c \in CallSet, NEW d \in CallSet, NEW e \in CallSet, NEW g \in CallSet, NEW pre,
         Wants(c) \subseteq pre, Wants(d) \subseteq pre \cup c.makes,
         Wants(e) \subseteq pre \cup c.makes \cup d.makes,
         Wants(g) \subseteq pre \cup c.makes \cup d.makes \cup e.makes
  PROVE  Steps(<<c, d, e, g>>, pre, c.makes \cup d.makes \cup e.makes \cup g.makes)
<1> DEFINE three == <<c, d, e>>
           here == pre \cup (c.makes \cup d.makes \cup e.makes)
<1>1. Steps(three, pre, c.makes \cup d.makes \cup e.makes) BY StepsThree
<1>2. Wants(g) \subseteq here OBVIOUS
<1>3. three \o <<g>> = <<c, d, e, g>>
  <2>1. <<c, d, e, g>> = Append(three, g) OBVIOUS
  <2>2. Append(three, g) = three \o <<g>> BY AppendIsConcat
  <2>3. QED BY <2>1, <2>2
<1> HIDE DEF three, here
<1>4. Steps(<<g>>, here, g.makes) BY <1>2, StepsOne
<1>5. here \subseteq pre \cup (c.makes \cup d.makes \cup e.makes) BY DEF here
<1>6. Steps(three \o <<g>>, pre, (c.makes \cup d.makes \cup e.makes) \cup g.makes)
  BY <1>1, <1>4, <1>5, StepsJoined
<1>7. QED BY <1>3, <1>6

LEMMA StepsFlattened ==
  ASSUME NEW N \in Nat, NEW q, NEW pre, NEW made,
         \A n \in 1 .. N : Steps(q[n], pre, made[n]),
         q = [n \in 1 .. N |-> q[n]]
  PROVE  Steps(FlattenSeq(q), pre, UNION {made[n] : n \in 1 .. N})
<1>1. \A n \in 1 .. N : q[n] \in Seq(CallSet) BY DEF Steps
<1>2. q \in Seq(Seq(CallSet)) /\ Len(q) = N
  <2> DEFINE s == [n \in 1 .. N |-> q[n]]
  <2>1. s \in Seq(Seq(CallSet)) /\ Len(s) = N BY <1>1
  <2> HIDE DEF s
  <2>2. q = s BY DEF s
  <2>3. QED BY <2>1, <2>2
<1>3. InOrder(FlattenSeq(q), pre) BY <1>2, InOrderFlattened DEF Steps
<1>4. /\ FlattenSeq(q) \in Seq(CallSet)
      /\ ToSet(FlattenSeq(q)) = UNION {ToSet(q[n]) : n \in 1 .. N}
  BY <1>2, ToSetFlattened
<1>5. \A n \in 1 .. N : Made(q[n]) = made[n] BY DEF Steps
<1>6. Made(FlattenSeq(q)) = UNION {made[n] : n \in 1 .. N}
  <2>1. \A h : h \in Made(FlattenSeq(q)) <=> \E n \in 1 .. N : h \in Made(q[n])
    <3>1. \A c : c \in ToSet(FlattenSeq(q)) <=> \E n \in 1 .. N : c \in ToSet(q[n]) BY <1>4
    <3>2. \A h : h \in Made(FlattenSeq(q)) <=> \E c \in ToSet(FlattenSeq(q)) : h \in c.makes BY DEF Made
    <3>3. \A n, h : h \in Made(q[n]) <=> \E c \in ToSet(q[n]) : h \in c.makes BY DEF Made
    <3> TAKE h
    <3>4. h \in Made(FlattenSeq(q)) => \E n \in 1 .. N : h \in Made(q[n]) BY <3>1, <3>2, <3>3
    <3>5. ASSUME NEW n \in 1 .. N, h \in Made(q[n]) PROVE h \in Made(FlattenSeq(q))
      <4>1. PICK c \in ToSet(q[n]) : h \in c.makes BY <3>3, <3>5
      <4>2. c \in ToSet(FlattenSeq(q)) BY <3>1, <4>1
      <4>3. QED BY <3>2, <4>1, <4>2
    <3>6. QED BY <3>4, <3>5
  <2>2. QED BY <1>5, <2>1
<1>7. QED BY <1>3, <1>4, <1>6 DEF Steps

-----------------------------------------------------------------------------
(* The handles, what they need, and the calls that make them.              *)

LEMMA HandlesAre ==
  /\ \A name \in Names : The(name) \in Handles
  /\ \A name \in Names, i \in Nat : Each(name, i) \in Handles
  /\ \A o \in Objects, name \in Names : Field(o, name) \in Handles
BY DEF Handles, Owners, The, Each, Field

LEMMA BlockIs ==
  \A h \in Handles : /\ Block(h) \in CallSet /\ Block(h).makes = {h}
                     /\ Wants(Block(h)) = Needs(h) /\ ~ Block(h).fails
BY DEF CallSet, Block, Wants

LEMMA MakesIs ==
  \A h \in Handles, use \in SUBSET Handles :
    /\ Makes(h, use) \in CallSet /\ Makes(h, use).makes = {h}
    /\ Wants(Makes(h, use)) = use \cup Needs(h)
BY DEF CallSet, Makes, Wants

LEMMA AsksIs ==
  \A use \in SUBSET Handles :
    Asks(use) \in CallSet /\ Asks(use).makes = {} /\ Wants(Asks(use)) = use
BY DEF CallSet, Asks, Wants

LEMMA NeedsOfGpu ==
  /\ Needs(The("block")) = {}
  /\ Needs(The("instance")) = {The("block")}
  /\ \A name \in {"device", "surface"} : Needs(The(name)) = {The("instance"), The("block")}
  /\ Needs(The("swap_chain")) = {The("device"), The("surface"), The("block")}
  /\ Needs(The("frames")) = {The("block")}
  /\ \A name \in {"depth_stencil_image", "depth_stencil_memory", "depth_stencil_view",
                  "render_pass", "present_complete_sema", "render_complete_sema",
                  "descriptor_pool", "cmd_pool"} :
       Needs(The(name)) = {The("device"), The("block")}
BY DEF Needs, Parents, Holder, The, Each, Field, Gpu

LEMMA NeedsOfFrames ==
  ASSUME NEW i \in Nat
  PROVE  /\ Needs(Each("view", i)) = {The("device"), The("swap_chain"), The("frames")}
         /\ Needs(Each("frame_buffer", i)) = {The("device"), The("frames")}
         /\ Needs(Each("cmd_buffer", i)) = {The("frames")}
         /\ Needs(Each("buffer", i)) =
              {The("device"), The("cmd_pool"), Each("cmd_buffer", i), The("block")}
         /\ Needs(Each("fence", i)) = {The("device"), The("frames")}
         /\ Needs(Each("binding", i)) = {The("block")}
         /\ Needs(Each("attributes", i)) = {The("block")}
BY DEF Needs, Parents, Holder, The, Each, Field, Gpu

LEMMA NeedsOfObject ==
  ASSUME NEW o \in Objects
  PROVE  /\ o # Gpu
         /\ Needs(Field(o, "block")) = {}
         /\ Needs(Field(o, "set")) = {The("device"), The("descriptor_pool"), Field(o, "block")}
         /\ \A name \in {"vertex_buffer", "vertex_memory", "index_buffer", "index_memory",
                         "buffer", "memory", "vertex_module", "fragment_module",
                         "descriptor_set_layout", "pipeline_layout", "pipe"} :
              Needs(Field(o, name)) = {The("device"), Field(o, "block")}
<1>1. o # Gpu BY DEF Objects, Kinds, Gpu
<1>2. QED BY <1>1 DEF Needs, Parents, Holder, The, Each, Field

-----------------------------------------------------------------------------
(* The calls of gpu_create.                                                *)

InstanceMade  == {The("block"), The("instance")}
DeviceMade    == {The("device")}
SurfaceMade   == {The("surface")}
SwapChainMade == {The("swap_chain"), The("frames")}
ViewsMade     == UNION {{Each("view", n - 1)} : n \in 1 .. FrameCount}
DepthMade     == {The("depth_stencil_image"), The("depth_stencil_memory"),
                  The("depth_stencil_view")}
RenderPassMade == {The("render_pass")}
FrameBuffersMade == UNION {{Each("frame_buffer", n - 1)} : n \in 1 .. FrameCount}
SemaphoresMade == {The("present_complete_sema"), The("render_complete_sema")}
PoolsMade      == {The("descriptor_pool"), The("cmd_pool")}
CommandsMade   == UNION {{Each("cmd_buffer", n - 1), Each("buffer", n - 1), Each("fence", n - 1)} :
                           n \in 1 .. FrameCount}
LayoutsMade    == UNION {{Each("binding", n - 1), Each("attributes", n - 1)} : n \in 1 .. Layouts}

LEMMA InstanceSteps == Steps(InstanceCalls, {}, InstanceMade)
<1> DEFINE c == Block(The("block"))
           d == Makes(The("instance"), {})
<1>0. {The("block"), The("instance")} \subseteq Handles
  BY HandlesAre DEF Names
<1>1. /\ c \in CallSet /\ c.makes = {The("block")} /\ Wants(c) = {}
      /\ d \in CallSet /\ d.makes = {The("instance")} /\ Wants(d) = {The("block")}
  BY <1>0, BlockIs, MakesIs, AsksIs, NeedsOfGpu
<1> HIDE DEF c, d
<1>2. Steps(<<c, d>>, {}, c.makes \cup d.makes) BY <1>1, StepsTwo
<1>3. c.makes \cup d.makes = InstanceMade BY <1>1 DEF InstanceMade
<1>4. QED BY <1>2, <1>3 DEF InstanceCalls, c, d

LEMMA PhysicalDeviceSteps == Steps(PhysicalDeviceCalls, InstanceMade, {})
<1> DEFINE c == Asks({The("instance")})
<1>0. {The("instance")} \subseteq Handles
  BY HandlesAre DEF Names
<1>1. c \in CallSet /\ c.makes = {} /\ Wants(c) = {The("instance")} BY <1>0, BlockIs, MakesIs, AsksIs
<1> HIDE DEF c
<1>2. Steps(<<c, c>>, InstanceMade, c.makes \cup c.makes) BY <1>1, StepsTwo DEF InstanceMade
<1>3. QED BY <1>1, <1>2 DEF PhysicalDeviceCalls, c

LEMMA DeviceSteps == Steps(DeviceCalls, InstanceMade, DeviceMade)
<1> DEFINE c == Asks({})
           d == Makes(The("device"), {The("instance")})
<1>0. {The("device"), The("instance")} \subseteq Handles
  BY HandlesAre DEF Names
<1>1. /\ c \in CallSet /\ c.makes = {} /\ Wants(c) = {}
      /\ d \in CallSet /\ d.makes = DeviceMade /\ Wants(d) = {The("instance"), The("block")}
  BY <1>0, BlockIs, MakesIs, AsksIs, NeedsOfGpu DEF DeviceMade
<1> HIDE DEF c, d
<1>2. Steps(<<c, d>>, InstanceMade, c.makes \cup d.makes) BY <1>1, StepsTwo DEF InstanceMade
<1>3. c.makes \cup d.makes = DeviceMade BY <1>1
<1>4. QED BY <1>2, <1>3 DEF DeviceCalls, c, d

LEMMA SurfaceSteps == Steps(SurfaceCalls, InstanceMade, SurfaceMade)
<1> DEFINE c == Makes(The("surface"), {The("instance")})
           d == Asks({The("surface")})
<1>0. {The("surface"), The("instance")} \subseteq Handles
  BY HandlesAre DEF Names
<1>1. /\ c \in CallSet /\ c.makes = SurfaceMade /\ Wants(c) = {The("instance"), The("block")}
      /\ d \in CallSet /\ d.makes = {} /\ Wants(d) = SurfaceMade
  BY <1>0, BlockIs, MakesIs, AsksIs, NeedsOfGpu DEF SurfaceMade
<1> HIDE DEF c, d
<1>2. Wants(c) \subseteq InstanceMade BY <1>1 DEF InstanceMade
<1>3. Steps(<<c, d>>, InstanceMade, c.makes \cup d.makes) BY <1>1, <1>2, StepsTwo
<1>4. c.makes \cup d.makes = SurfaceMade BY <1>1
<1>5. QED BY <1>3, <1>4 DEF SurfaceCalls, c, d

Chained == InstanceMade \cup DeviceMade \cup SurfaceMade

LEMMA SwapChainSteps == Steps(SwapChainCalls, Chained, SwapChainMade)
<1> DEFINE c == Makes(The("swap_chain"), {The("device"), The("surface")})
           d == Asks({The("swap_chain")})
           e == Block(The("frames"))
<1>0. {The("swap_chain"), The("device"), The("surface"), The("frames")} \subseteq Handles
  BY HandlesAre DEF Names
<1>1. /\ c \in CallSet /\ c.makes = {The("swap_chain")}
      /\ Wants(c) = {The("device"), The("surface")} \cup {The("device"), The("surface"), The("block")}
      /\ d \in CallSet /\ d.makes = {} /\ Wants(d) = {The("swap_chain")}
      /\ e \in CallSet /\ e.makes = {The("frames")} /\ Wants(e) = {The("block")}
  BY <1>0, BlockIs, MakesIs, AsksIs, NeedsOfGpu
<1> HIDE DEF c, d, e
<1>2. /\ Wants(c) \subseteq Chained /\ Wants(d) \subseteq Chained \cup c.makes
      /\ Wants(e) \subseteq Chained \cup c.makes \cup d.makes
      /\ Wants(d) \subseteq Chained \cup c.makes \cup d.makes \cup e.makes
  BY <1>1 DEF Chained, InstanceMade, DeviceMade, SurfaceMade
<1>3. Steps(<<c, d, e, d>>, Chained, c.makes \cup d.makes \cup e.makes \cup d.makes)
  BY <1>1, <1>2, StepsFour
<1>4. c.makes \cup d.makes \cup e.makes \cup d.makes = SwapChainMade BY <1>1 DEF SwapChainMade
<1>5. QED BY <1>3, <1>4 DEF SwapChainCalls, c, d, e

Swapped == Chained \cup SwapChainMade

LEMMA ViewSteps == Steps(PerFrame(ViewCalls), Swapped, ViewsMade)
<1> DEFINE q == [n \in 1 .. FrameCount |-> ViewCalls(n - 1)]
           made == [n \in 1 .. FrameCount |-> {Each("view", n - 1)}]
<1>1. ASSUME NEW n \in 1 .. FrameCount PROVE Steps(q[n], Swapped, made[n])
  <2> DEFINE c == Makes(Each("view", n - 1), {The("swap_chain")})
  <2>1. n - 1 \in Nat BY FrameCountAssumption
  <2>1a. {Each("view", n - 1), The("swap_chain")} \subseteq Handles
    BY <2>1, HandlesAre DEF Names
  <2>2. /\ c \in CallSet /\ c.makes = {Each("view", n - 1)}
        /\ Wants(c) = {The("swap_chain")} \cup {The("device"), The("swap_chain"), The("frames")}
    BY <2>1, <2>1a, BlockIs, MakesIs, AsksIs, NeedsOfFrames
  <2> HIDE DEF c
  <2>3. Wants(c) \subseteq Swapped
    BY <2>2 DEF Swapped, Chained, InstanceMade, DeviceMade, SurfaceMade, SwapChainMade
  <2>4. Steps(<<c>>, Swapped, c.makes) BY <2>2, <2>3, StepsOne
  <2>5. q[n] = <<c>> /\ made[n] = c.makes BY <2>2 DEF ViewCalls, c
  <2>6. QED BY <2>4, <2>5
<1>2. q = [n \in 1 .. FrameCount |-> q[n]] OBVIOUS
<1>3. ViewsMade = UNION {made[n] : n \in 1 .. FrameCount} BY DEF ViewsMade
<1>4. PerFrame(ViewCalls) = FlattenSeq(q) BY DEF PerFrame
<1> HIDE DEF q, made
<1>5. QED BY <1>1, <1>2, <1>3, <1>4, StepsFlattened, FrameCountAssumption

LEMMA DepthSteps == Steps(DepthCalls, Chained, DepthMade)
<1> DEFINE c == Makes(The("depth_stencil_image"), {The("device")})
           d == Makes(The("depth_stencil_memory"), {The("depth_stencil_image")})
           e == Asks({The("depth_stencil_image"), The("depth_stencil_memory")})
           g == Makes(The("depth_stencil_view"), {The("depth_stencil_image")})
<1>0. {The("depth_stencil_image"), The("device"), The("depth_stencil_memory"),
       The("depth_stencil_view")} \subseteq Handles
  BY HandlesAre DEF Names
<1>1. /\ c \in CallSet /\ c.makes = {The("depth_stencil_image")}
      /\ Wants(c) = {The("device")} \cup {The("device"), The("block")}
      /\ d \in CallSet /\ d.makes = {The("depth_stencil_memory")}
      /\ Wants(d) = {The("depth_stencil_image")} \cup {The("device"), The("block")}
  BY <1>0, BlockIs, MakesIs, AsksIs, NeedsOfGpu
<1>2. /\ e \in CallSet /\ e.makes = {}
      /\ Wants(e) = {The("depth_stencil_image"), The("depth_stencil_memory")}
      /\ g \in CallSet /\ g.makes = {The("depth_stencil_view")}
      /\ Wants(g) = {The("depth_stencil_image")} \cup {The("device"), The("block")}
  BY <1>0, BlockIs, MakesIs, AsksIs, NeedsOfGpu
<1> HIDE DEF c, d, e, g
<1>3. /\ Wants(c) \subseteq Chained /\ Wants(d) \subseteq Chained \cup c.makes
      /\ Wants(e) \subseteq Chained \cup c.makes \cup d.makes
      /\ Wants(g) \subseteq Chained \cup c.makes \cup d.makes \cup e.makes
  BY <1>1, <1>2 DEF Chained, InstanceMade, DeviceMade
<1>4. Steps(<<c, d, e, g>>, Chained, c.makes \cup d.makes \cup e.makes \cup g.makes)
  BY <1>1, <1>2, <1>3, StepsFour
<1>5. c.makes \cup d.makes \cup e.makes \cup g.makes = DepthMade BY <1>1, <1>2 DEF DepthMade
<1>6. QED BY <1>4, <1>5 DEF DepthCalls, c, d, e, g

LEMMA RenderPassSteps == Steps(RenderPassCalls, Chained, RenderPassMade)
<1> DEFINE c == Makes(The("render_pass"), {The("device")})
<1>0. {The("render_pass"), The("device")} \subseteq Handles
  BY HandlesAre DEF Names
<1>1. /\ c \in CallSet /\ c.makes = RenderPassMade
      /\ Wants(c) = {The("device")} \cup {The("device"), The("block")}
  BY <1>0, BlockIs, MakesIs, AsksIs, NeedsOfGpu DEF RenderPassMade
<1> HIDE DEF c
<1>2. Wants(c) \subseteq Chained BY <1>1 DEF Chained, InstanceMade, DeviceMade
<1>3. QED BY <1>1, <1>2, StepsOne DEF RenderPassCalls, c

Viewed == Swapped \cup ViewsMade \cup DepthMade \cup RenderPassMade

LEMMA FrameBufferSteps == Steps(PerFrame(FrameBufferCalls), Viewed, FrameBuffersMade)
<1> DEFINE q == [n \in 1 .. FrameCount |-> FrameBufferCalls(n - 1)]
           made == [n \in 1 .. FrameCount |-> {Each("frame_buffer", n - 1)}]
<1>1. ASSUME NEW n \in 1 .. FrameCount PROVE Steps(q[n], Viewed, made[n])
  <2> DEFINE use == {Each("view", n - 1), The("depth_stencil_view"), The("render_pass")}
             c == Makes(Each("frame_buffer", n - 1), use)
  <2>1. n - 1 \in Nat BY FrameCountAssumption
  <2>1a. {Each("view", n - 1), The("depth_stencil_view"), The("render_pass"),
         Each("frame_buffer", n - 1)} \subseteq Handles
    BY <2>1, HandlesAre DEF Names
  <2>2. /\ c \in CallSet /\ c.makes = {Each("frame_buffer", n - 1)}
        /\ Wants(c) = use \cup {The("device"), The("frames")}
    BY <2>1, <2>1a, BlockIs, MakesIs, AsksIs, NeedsOfFrames
  <2>3. use \subseteq Viewed BY DEF Viewed, ViewsMade, DepthMade, RenderPassMade
  <2>4. The("device") \in Viewed /\ The("frames") \in Viewed
    BY DEF Viewed, Swapped, Chained, DeviceMade, SwapChainMade
  <2>5. q[n] = <<c>> /\ made[n] = c.makes BY <2>2 DEF FrameBufferCalls
  <2> HIDE DEF c, use
  <2>6. Wants(c) \subseteq Viewed BY <2>2, <2>3, <2>4
  <2>7. Steps(<<c>>, Viewed, c.makes) BY <2>2, <2>6, StepsOne
  <2>8. QED BY <2>5, <2>7
<1>2. q = [n \in 1 .. FrameCount |-> q[n]] OBVIOUS
<1>3. FrameBuffersMade = UNION {made[n] : n \in 1 .. FrameCount} BY DEF FrameBuffersMade
<1>4. PerFrame(FrameBufferCalls) = FlattenSeq(q) BY DEF PerFrame
<1> HIDE DEF q, made
<1>5. QED BY <1>1, <1>2, <1>3, <1>4, StepsFlattened, FrameCountAssumption

LEMMA SemaphoreSteps == Steps(SemaphoreCalls, Chained, SemaphoresMade)
<1> DEFINE c == Makes(The("present_complete_sema"), {The("device")})
           d == Makes(The("render_complete_sema"), {The("device")})
<1>0. {The("present_complete_sema"), The("device"), The("render_complete_sema")} \subseteq Handles
  BY HandlesAre DEF Names
<1>1. /\ c \in CallSet /\ c.makes = {The("present_complete_sema")}
      /\ Wants(c) = {The("device")} \cup {The("device"), The("block")}
      /\ d \in CallSet /\ d.makes = {The("render_complete_sema")}
      /\ Wants(d) = {The("device")} \cup {The("device"), The("block")}
  BY <1>0, BlockIs, MakesIs, AsksIs, NeedsOfGpu
<1> HIDE DEF c, d
<1>2. Wants(c) \subseteq Chained /\ Wants(d) \subseteq Chained
  BY <1>1 DEF Chained, InstanceMade, DeviceMade
<1>3. Steps(<<c, d>>, Chained, c.makes \cup d.makes) BY <1>1, <1>2, StepsTwo
<1>4. c.makes \cup d.makes = SemaphoresMade BY <1>1 DEF SemaphoresMade
<1>5. QED BY <1>3, <1>4 DEF SemaphoreCalls, c, d

LEMMA PoolSteps == Steps(PoolCalls, Chained, PoolsMade)
<1> DEFINE c == Makes(The("descriptor_pool"), {The("device")})
           d == Makes(The("cmd_pool"), {The("device")})
<1>0. {The("descriptor_pool"), The("device"), The("cmd_pool")} \subseteq Handles
  BY HandlesAre DEF Names
<1>1. /\ c \in CallSet /\ c.makes = {The("descriptor_pool")}
      /\ Wants(c) = {The("device")} \cup {The("device"), The("block")}
      /\ d \in CallSet /\ d.makes = {The("cmd_pool")}
      /\ Wants(d) = {The("device")} \cup {The("device"), The("block")}
  BY <1>0, BlockIs, MakesIs, AsksIs, NeedsOfGpu
<1> HIDE DEF c, d
<1>2. Wants(c) \subseteq Chained /\ Wants(d) \subseteq Chained
  BY <1>1 DEF Chained, InstanceMade, DeviceMade
<1>3. Steps(<<c, d>>, Chained, c.makes \cup d.makes) BY <1>1, <1>2, StepsTwo
<1>4. c.makes \cup d.makes = PoolsMade BY <1>1 DEF PoolsMade
<1>5. QED BY <1>3, <1>4 DEF PoolCalls, c, d

Pooled == Swapped \cup PoolsMade

LEMMA CommandSteps == Steps(PerFrame(CommandCalls), Pooled, CommandsMade)
<1> DEFINE q == [n \in 1 .. FrameCount |-> CommandCalls(n - 1)]
           made == [n \in 1 .. FrameCount |->
                      {Each("cmd_buffer", n - 1), Each("buffer", n - 1), Each("fence", n - 1)}]
<1>1. ASSUME NEW n \in 1 .. FrameCount PROVE Steps(q[n], Pooled, made[n])
  <2> DEFINE c == Block(Each("cmd_buffer", n - 1))
             d == Makes(Each("buffer", n - 1), {The("cmd_pool")})
             e == Makes(Each("fence", n - 1), {The("device")})
  <2>1. n - 1 \in Nat BY FrameCountAssumption
  <2>1a. {Each("cmd_buffer", n - 1), Each("buffer", n - 1), Each("fence", n - 1),
          The("cmd_pool"), The("device")} \subseteq Handles
    BY <2>1, HandlesAre DEF Names
  <2>2. /\ c \in CallSet /\ c.makes = {Each("cmd_buffer", n - 1)} /\ Wants(c) = {The("frames")}
        /\ d \in CallSet /\ d.makes = {Each("buffer", n - 1)}
        /\ Wants(d) = {The("cmd_pool")} \cup {The("device"), The("cmd_pool"),
                                              Each("cmd_buffer", n - 1), The("block")}
        /\ e \in CallSet /\ e.makes = {Each("fence", n - 1)}
        /\ Wants(e) = {The("device")} \cup {The("device"), The("frames")}
    BY <2>1, <2>1a, BlockIs, MakesIs, AsksIs, NeedsOfFrames
  <2>3. q[n] = <<c, d, e>> BY DEF CommandCalls
  <2> HIDE DEF c, d, e
  <2>4. {The("device"), The("cmd_pool"), The("block"), The("frames")} \subseteq Pooled
    BY DEF Pooled, PoolsMade, Swapped, Chained, InstanceMade, DeviceMade, SwapChainMade
  <2>5. /\ Wants(c) \subseteq Pooled /\ Wants(d) \subseteq Pooled \cup c.makes
        /\ Wants(e) \subseteq Pooled \cup c.makes \cup d.makes
    BY <2>2, <2>4
  <2>6. Steps(<<c, d, e>>, Pooled, c.makes \cup d.makes \cup e.makes) BY <2>2, <2>5, StepsThree
  <2>7. made[n] = c.makes \cup d.makes \cup e.makes BY <2>2
  <2>8. QED BY <2>3, <2>6, <2>7
<1>2. q = [n \in 1 .. FrameCount |-> q[n]] OBVIOUS
<1>3. CommandsMade = UNION {made[n] : n \in 1 .. FrameCount} BY DEF CommandsMade
<1>4. PerFrame(CommandCalls) = FlattenSeq(q) BY DEF PerFrame
<1> HIDE DEF q, made
<1>5. QED BY <1>1, <1>2, <1>3, <1>4, StepsFlattened, FrameCountAssumption

LEMMA LayoutSteps == Steps(PerLayout(LayoutCalls), InstanceMade, LayoutsMade)
<1> DEFINE q == [n \in 1 .. Layouts |-> LayoutCalls(n - 1)]
           made == [n \in 1 .. Layouts |-> {Each("binding", n - 1), Each("attributes", n - 1)}]
<1>1. ASSUME NEW n \in 1 .. Layouts PROVE Steps(q[n], InstanceMade, made[n])
  <2> DEFINE c == Block(Each("binding", n - 1))
             d == Block(Each("attributes", n - 1))
  <2>1. n - 1 \in Nat BY BoundsAssumption
  <2>1a. {Each("binding", n - 1), Each("attributes", n - 1)} \subseteq Handles
    BY <2>1, HandlesAre DEF Names
  <2>2. /\ c \in CallSet /\ c.makes = {Each("binding", n - 1)} /\ Wants(c) = {The("block")}
        /\ d \in CallSet /\ d.makes = {Each("attributes", n - 1)} /\ Wants(d) = {The("block")}
    BY <2>1, <2>1a, BlockIs, MakesIs, AsksIs, NeedsOfFrames
  <2>3. q[n] = <<c, d>> BY DEF LayoutCalls
  <2> HIDE DEF c, d
  <2>4. Steps(<<c, d>>, InstanceMade, c.makes \cup d.makes) BY <2>2, StepsTwo DEF InstanceMade
  <2>5. made[n] = c.makes \cup d.makes BY <2>2
  <2>6. QED BY <2>3, <2>4, <2>5
<1>2. q = [n \in 1 .. Layouts |-> q[n]] OBVIOUS
<1>3. LayoutsMade = UNION {made[n] : n \in 1 .. Layouts} BY DEF LayoutsMade
<1>4. PerLayout(LayoutCalls) = FlattenSeq(q) BY DEF PerLayout
<1> HIDE DEF q, made
<1>5. QED BY <1>1, <1>2, <1>3, <1>4, StepsFlattened, BoundsAssumption

(* gpu_create as a whole; the mesh layouts come last.                      *)
BodyCalls ==
  InstanceCalls \o PhysicalDeviceCalls \o DeviceCalls \o SurfaceCalls
    \o SwapChainCalls \o PerFrame(ViewCalls) \o DepthCalls \o RenderPassCalls
    \o PerFrame(FrameBufferCalls) \o SemaphoreCalls \o PoolCalls
    \o PerFrame(CommandCalls)

BodyMade == Viewed \cup FrameBuffersMade \cup SemaphoresMade \cup PoolsMade \cup CommandsMade

LEMMA BodySteps == Steps(BodyCalls, {}, BodyMade)
<1> DEFINE a1 == InstanceCalls \o PhysicalDeviceCalls
           a2 == a1 \o DeviceCalls
           a3 == a2 \o SurfaceCalls
           a4 == a3 \o SwapChainCalls
           a5 == a4 \o PerFrame(ViewCalls)
           a6 == a5 \o DepthCalls
           a7 == a6 \o RenderPassCalls
           a8 == a7 \o PerFrame(FrameBufferCalls)
           a9 == a8 \o SemaphoreCalls
           a10 == a9 \o PoolCalls
           a11 == a10 \o PerFrame(CommandCalls)
<1>0. BodyCalls = a11 BY DEF BodyCalls
<1> HIDE DEF a11
<1>1. Steps(a1, {}, InstanceMade)
  <2>1. Steps(a1, {}, InstanceMade \cup {})
    BY InstanceSteps, PhysicalDeviceSteps, StepsJoined
  <2>2. InstanceMade \cup {} = InstanceMade OBVIOUS
  <2>3. QED BY <2>1, <2>2
<1> HIDE DEF a1
<1>2. Steps(a2, {}, InstanceMade \cup DeviceMade) BY <1>1, DeviceSteps, StepsJoined
<1> HIDE DEF a2
<1>3. Steps(a3, {}, Chained) BY <1>2, SurfaceSteps, StepsJoined DEF Chained
<1> HIDE DEF a3
<1>4. Steps(a4, {}, Swapped) BY <1>3, SwapChainSteps, StepsJoined DEF Swapped
<1> HIDE DEF a4
<1>5. Steps(a5, {}, Swapped \cup ViewsMade) BY <1>4, ViewSteps, StepsJoined
<1> HIDE DEF a5
<1>6. Steps(a6, {}, Swapped \cup ViewsMade \cup DepthMade)
  <2>1. Chained \subseteq {} \cup (Swapped \cup ViewsMade) BY DEF Swapped
  <2>2. QED BY <1>5, <2>1, DepthSteps, StepsJoined
<1> HIDE DEF a6
<1>7. Steps(a7, {}, Viewed)
  <2>1. Chained \subseteq {} \cup (Swapped \cup ViewsMade \cup DepthMade) BY DEF Swapped
  <2>2. QED BY <1>6, <2>1, RenderPassSteps, StepsJoined DEF Viewed
<1> HIDE DEF a7
<1>8. Steps(a8, {}, Viewed \cup FrameBuffersMade) BY <1>7, FrameBufferSteps, StepsJoined
<1> HIDE DEF a8
<1>9. Steps(a9, {}, Viewed \cup FrameBuffersMade \cup SemaphoresMade)
  <2>1. Chained \subseteq {} \cup (Viewed \cup FrameBuffersMade) BY DEF Viewed, Swapped
  <2>2. QED BY <1>8, <2>1, SemaphoreSteps, StepsJoined
<1> HIDE DEF a9
<1>10. Steps(a10, {}, Viewed \cup FrameBuffersMade \cup SemaphoresMade \cup PoolsMade)
  <2>1. Chained \subseteq {} \cup (Viewed \cup FrameBuffersMade \cup SemaphoresMade)
    BY DEF Viewed, Swapped
  <2>2. QED BY <1>9, <2>1, PoolSteps, StepsJoined
<1> HIDE DEF a10
<1>11. Steps(a11, {}, BodyMade)
  <2>1. Pooled \subseteq {} \cup (Viewed \cup FrameBuffersMade \cup SemaphoresMade \cup PoolsMade)
    BY DEF Viewed, Pooled
  <2>2. QED BY <1>10, <2>1, CommandSteps, StepsJoined DEF BodyMade, a11
<1>12. QED BY <1>0, <1>11

GpuMade == BodyMade \cup LayoutsMade

LEMMA GpuSteps == Steps(GpuCalls, {}, GpuMade)
<1>1. GpuCalls = BodyCalls \o PerLayout(LayoutCalls) BY DEF GpuCalls, BodyCalls
<1>2. InstanceMade \subseteq {} \cup BodyMade BY DEF BodyMade, Viewed, Swapped, Chained
<1>3. Steps(BodyCalls \o PerLayout(LayoutCalls), {}, BodyMade \cup LayoutsMade)
  BY <1>2, BodySteps, LayoutSteps, StepsJoined
<1>4. QED BY <1>1, <1>3 DEF GpuMade

(* No call for a layout fails.                                             *)
LEMMA LayoutsNeverFail ==
  \A n \in 1 .. Len(PerLayout(LayoutCalls)) : ~ PerLayout(LayoutCalls)[n].fails
<1> DEFINE q == [n \in 1 .. Layouts |-> LayoutCalls(n - 1)]
           S == {c \in CallSet : ~ c.fails}
<1>1. ASSUME NEW n \in 1 .. Layouts PROVE q[n] \in Seq(S)
  <2>1. n - 1 \in Nat BY BoundsAssumption
  <2>2. Each("binding", n - 1) \in Handles /\ Each("attributes", n - 1) \in Handles
    BY <2>1, HandlesAre DEF Names
  <2>3. Block(Each("binding", n - 1)) \in S /\ Block(Each("attributes", n - 1)) \in S
    BY <2>2, BlockIs
  <2> HIDE DEF S
  <2>4. <<Block(Each("binding", n - 1)), Block(Each("attributes", n - 1))>> \in Seq(S) BY <2>3
  <2>5. QED BY <2>4 DEF LayoutCalls
<1>2. q \in Seq(Seq(S)) BY <1>1, BoundsAssumption
<1>3. PerLayout(LayoutCalls) = FlattenSeq(q) BY DEF PerLayout
<1> HIDE DEF q, S
<1>4. PerLayout(LayoutCalls) \in Seq(S) BY <1>2, <1>3, ToSetFlattened
<1>5. \A n \in 1 .. Len(PerLayout(LayoutCalls)) : PerLayout(LayoutCalls)[n] \in S BY <1>4
<1>6. QED BY <1>5 DEF S

-----------------------------------------------------------------------------
(* The calls of the other create functions; the GPU is there.              *)
OwnFields(o) ==
  CASE o[1] = "mesh"       -> {Field(o, "block"), Field(o, "vertex_buffer"), Field(o, "vertex_memory"),
                               Field(o, "index_buffer"), Field(o, "index_memory")}
    [] o[1] = "uniform"    -> {Field(o, "block"), Field(o, "buffer"), Field(o, "memory")}
    [] o[1] = "shader"     -> {Field(o, "block"), Field(o, "vertex_module"),
                               Field(o, "fragment_module"), Field(o, "descriptor_set_layout")}
    [] o[1] = "pipeline"   -> {Field(o, "block"), Field(o, "pipeline_layout"), Field(o, "pipe")}
    [] o[1] = "descriptor" -> {Field(o, "block"), Field(o, "set")}

LEMMA GpuHas ==
  /\ {The("device"), The("descriptor_pool"), The("render_pass")} \subseteq GpuMade
  /\ \A l \in 0 .. Layouts - 1 : Each("binding", l) \in GpuMade
<1>1. The("device") \in GpuMade /\ The("render_pass") \in GpuMade
  BY DEF GpuMade, BodyMade, Viewed, Swapped, Chained, DeviceMade, RenderPassMade
<1>2. The("descriptor_pool") \in GpuMade BY DEF GpuMade, BodyMade, PoolsMade
<1>3. ASSUME NEW l \in 0 .. Layouts - 1 PROVE Each("binding", l) \in GpuMade
  <2>1. l + 1 \in 1 .. Layouts /\ (l + 1) - 1 = l BY BoundsAssumption
  <2>2. Each("binding", l) \in LayoutsMade BY <2>1 DEF LayoutsMade
  <2>3. QED BY <2>2 DEF GpuMade
<1>4. QED BY <1>1, <1>2, <1>3

LEMMA BlockSteps ==
  ASSUME NEW o \in Objects
  PROVE  Steps(<<Block(Field(o, "block"))>>, GpuMade, {Field(o, "block")})
<1> DEFINE c == Block(Field(o, "block"))
<1>1. Field(o, "block") \in Handles BY HandlesAre DEF Names
<1>2. c \in CallSet /\ c.makes = {Field(o, "block")} /\ Wants(c) = {}
  BY <1>1, BlockIs, NeedsOfObject
<1> HIDE DEF c
<1>3. Steps(<<c>>, GpuMade, c.makes) BY <1>2, StepsOne
<1>4. QED BY <1>2, <1>3 DEF c

LEMMA BufferSteps ==
  ASSUME NEW o \in Objects,
         NEW buffer \in {"vertex_buffer", "index_buffer", "buffer"},
         NEW memory \in {"vertex_memory", "index_memory", "memory"},
         NEW between, between = <<>> \/ between = <<Asks({Field(o, memory)})>>
  PROVE  Steps(Buffer(o, buffer, memory, between), GpuMade \cup {Field(o, "block")},
               {Field(o, buffer), Field(o, memory)})
<1> DEFINE c == Makes(Field(o, buffer), {The("device")})
           d == Makes(Field(o, memory), {Field(o, buffer)})
           e == Asks({Field(o, buffer), Field(o, memory)})
           g == Asks({Field(o, memory)})
           given == GpuMade \cup {Field(o, "block")}
           both == {Field(o, buffer), Field(o, memory)}
<1>1. /\ Field(o, buffer) \in Handles /\ Field(o, memory) \in Handles
      /\ The("device") \in Handles
  BY HandlesAre DEF Names
<1>2. /\ Needs(Field(o, buffer)) = {The("device"), Field(o, "block")}
      /\ Needs(Field(o, memory)) = {The("device"), Field(o, "block")}
  BY NeedsOfObject
<1>3. c \in CallSet /\ c.makes = {Field(o, buffer)} /\ Wants(c) \subseteq given
  BY <1>1, <1>2, MakesIs, GpuHas
<1>4. d \in CallSet /\ d.makes = {Field(o, memory)} /\ Wants(d) \subseteq given \cup {Field(o, buffer)}
  BY <1>1, <1>2, MakesIs, GpuHas
<1>5. e \in CallSet /\ e.makes = {} /\ Wants(e) = both BY <1>1, AsksIs
<1>6. g \in CallSet /\ g.makes = {} /\ Wants(g) \subseteq both BY <1>1, AsksIs
<1>7. Buffer(o, buffer, memory, between) = (<<c, d>> \o between) \o <<e>> BY DEF Buffer
<1>8. both = c.makes \cup d.makes BY <1>3, <1>4
<1>9. between = <<>> \/ between = <<g>> OBVIOUS
<1> HIDE DEF c, d, e, g, given
<1>10. Steps(<<c, d>>, given, both) BY <1>3, <1>4, <1>8, StepsTwo
<1>11. Steps(between, both, {})
  <2>1. CASE between = <<>>
    <3>1. Made(<<>>) = {} BY NothingYet DEF Made
    <3>2. <<>> \in Seq(CallSet) OBVIOUS
    <3>3. QED BY <2>1, <3>1, <3>2, NothingYet DEF Steps
  <2>2. CASE between = <<g>> BY <1>6, <2>2, StepsOne
  <2>3. QED BY <1>9, <2>1, <2>2
<1>12. Steps(<<e>>, both, {}) BY <1>5, StepsOne
<1> HIDE DEF both
<1>13. Steps(<<c, d>> \o between, given, both \cup {}) BY <1>10, <1>11, StepsJoined
<1>14. both \cup {} = both OBVIOUS
<1>15. Steps(<<c, d>> \o between, given, both) BY <1>13, <1>14
<1>16. Steps((<<c, d>> \o between) \o <<e>>, given, both \cup {}) BY <1>12, <1>15, StepsJoined
<1>17. QED BY <1>7, <1>14, <1>16 DEF given, both

LEMMA MeshSteps ==
  ASSUME NEW o \in Objects
  PROVE  Steps(MeshCalls(o), GpuMade,
               {Field(o, "block"), Field(o, "vertex_buffer"), Field(o, "vertex_memory"),
                Field(o, "index_buffer"), Field(o, "index_memory")})
<1> DEFINE a == <<Block(Field(o, "block"))>>
           b == Buffer(o, "vertex_buffer", "vertex_memory", <<Asks({Field(o, "vertex_memory")})>>)
           c == Buffer(o, "index_buffer", "index_memory", <<Asks({Field(o, "index_memory")})>>)
           m == {Field(o, "block")}
           n == {Field(o, "vertex_buffer"), Field(o, "vertex_memory")}
           k == {Field(o, "index_buffer"), Field(o, "index_memory")}
<1>1. Steps(a, GpuMade, m) BY BlockSteps
<1>2. Steps(b, GpuMade \cup m, n) BY BufferSteps
<1>3. Steps(c, GpuMade \cup m, k) BY BufferSteps
<1>4. MeshCalls(o) = (a \o b) \o c BY DEF MeshCalls
<1>5. (m \cup n) \cup k = {Field(o, "block"), Field(o, "vertex_buffer"), Field(o, "vertex_memory"),
                           Field(o, "index_buffer"), Field(o, "index_memory")}
  OBVIOUS
<1> HIDE DEF a, b, c, m, n, k
<1>6. Steps(a \o b, GpuMade, m \cup n) BY <1>1, <1>2, StepsJoined
<1>7. GpuMade \cup m \subseteq GpuMade \cup (m \cup n) OBVIOUS
<1>8. Steps((a \o b) \o c, GpuMade, (m \cup n) \cup k) BY <1>3, <1>6, <1>7, StepsJoined
<1>9. QED BY <1>4, <1>5, <1>8

LEMMA UniformSteps ==
  ASSUME NEW o \in Objects
  PROVE  Steps(UniformCalls(o), GpuMade,
               {Field(o, "block"), Field(o, "buffer"), Field(o, "memory")})
<1> DEFINE a == <<Block(Field(o, "block"))>>
           b == Buffer(o, "buffer", "memory", <<>>)
           m == {Field(o, "block")}
           n == {Field(o, "buffer"), Field(o, "memory")}
<1>1. Steps(a, GpuMade, m) BY BlockSteps
<1>2. Steps(b, GpuMade \cup m, n) BY BufferSteps
<1>3. UniformCalls(o) = a \o b BY DEF UniformCalls
<1>4. m \cup n = {Field(o, "block"), Field(o, "buffer"), Field(o, "memory")} OBVIOUS
<1> HIDE DEF a, b, m, n
<1>5. Steps(a \o b, GpuMade, m \cup n) BY <1>1, <1>2, StepsJoined
<1>6. QED BY <1>3, <1>4, <1>5

LEMMA ShaderSteps ==
  ASSUME NEW o \in Objects
  PROVE  Steps(ShaderCalls(o), GpuMade,
               {Field(o, "block"), Field(o, "vertex_module"), Field(o, "fragment_module"),
                Field(o, "descriptor_set_layout")})
<1> DEFINE c == Block(Field(o, "block"))
           d == Makes(Field(o, "vertex_module"), {The("device")})
           e == Makes(Field(o, "fragment_module"), {The("device")})
           g == Makes(Field(o, "descriptor_set_layout"), {The("device")})
<1>1. {Field(o, "block"), Field(o, "vertex_module"), Field(o, "fragment_module"),
       Field(o, "descriptor_set_layout"), The("device")} \subseteq Handles
  BY HandlesAre DEF Names
<1>2. /\ c \in CallSet /\ c.makes = {Field(o, "block")} /\ Wants(c) = {}
      /\ d \in CallSet /\ d.makes = {Field(o, "vertex_module")}
      /\ Wants(d) = {The("device")} \cup {The("device"), Field(o, "block")}
  BY <1>1, BlockIs, MakesIs, NeedsOfObject
<1>3. /\ e \in CallSet /\ e.makes = {Field(o, "fragment_module")}
      /\ Wants(e) = {The("device")} \cup {The("device"), Field(o, "block")}
      /\ g \in CallSet /\ g.makes = {Field(o, "descriptor_set_layout")}
      /\ Wants(g) = {The("device")} \cup {The("device"), Field(o, "block")}
  BY <1>1, MakesIs, NeedsOfObject
<1> HIDE DEF c, d, e, g
<1>4. /\ Wants(c) \subseteq GpuMade /\ Wants(d) \subseteq GpuMade \cup c.makes
      /\ Wants(e) \subseteq GpuMade \cup c.makes \cup d.makes
      /\ Wants(g) \subseteq GpuMade \cup c.makes \cup d.makes \cup e.makes
  BY <1>2, <1>3, GpuHas
<1>5. Steps(<<c, d, e, g>>, GpuMade, c.makes \cup d.makes \cup e.makes \cup g.makes)
  BY <1>2, <1>3, <1>4, StepsFour
<1>6. c.makes \cup d.makes \cup e.makes \cup g.makes
        = {Field(o, "block"), Field(o, "vertex_module"), Field(o, "fragment_module"),
           Field(o, "descriptor_set_layout")}
  BY <1>2, <1>3
<1>7. QED BY <1>5, <1>6 DEF ShaderCalls, c, d, e, g

LEMMA PipelineSteps ==
  ASSUME NEW o \in Objects
  PROVE  Steps(PipelineCalls(o), GpuMade,
               {Field(o, "block"), Field(o, "pipeline_layout"), Field(o, "pipe")})
<1> DEFINE bindings == {Each("binding", l) : l \in 0 .. Layouts - 1}
           use == {Field(o, "pipeline_layout"), The("render_pass")} \cup bindings
           c == Block(Field(o, "block"))
           d == Makes(Field(o, "pipeline_layout"), {The("device")})
           e == Makes(Field(o, "pipe"), use)
<1>1. {Field(o, "block"), Field(o, "pipeline_layout"), Field(o, "pipe"), The("device"),
       The("render_pass")} \subseteq Handles
  BY HandlesAre DEF Names
<1>2. bindings \subseteq Handles /\ bindings \subseteq GpuMade
  BY HandlesAre, GpuHas, BoundsAssumption DEF Names
<1> HIDE DEF bindings
<1>3. use \subseteq Handles /\ use \subseteq GpuMade \cup {Field(o, "pipeline_layout")}
  BY <1>1, <1>2, GpuHas
<1> HIDE DEF use
<1>4. /\ c \in CallSet /\ c.makes = {Field(o, "block")} /\ Wants(c) = {}
      /\ d \in CallSet /\ d.makes = {Field(o, "pipeline_layout")}
      /\ Wants(d) = {The("device")} \cup {The("device"), Field(o, "block")}
      /\ e \in CallSet /\ e.makes = {Field(o, "pipe")}
      /\ Wants(e) = use \cup {The("device"), Field(o, "block")}
  BY <1>1, <1>3, BlockIs, MakesIs, NeedsOfObject
<1>5. PipelineCalls(o) = <<c, d, e>> BY DEF PipelineCalls, use, bindings
<1> HIDE DEF c, d, e
<1>6. /\ Wants(c) \subseteq GpuMade /\ Wants(d) \subseteq GpuMade \cup c.makes
      /\ Wants(e) \subseteq GpuMade \cup c.makes \cup d.makes
  BY <1>3, <1>4, GpuHas
<1>7. Steps(<<c, d, e>>, GpuMade, c.makes \cup d.makes \cup e.makes)
  BY <1>4, <1>6, StepsThree
<1>8. c.makes \cup d.makes \cup e.makes
        = {Field(o, "block"), Field(o, "pipeline_layout"), Field(o, "pipe")}
  BY <1>4
<1>9. QED BY <1>5, <1>7, <1>8

LEMMA DescriptorSteps ==
  ASSUME NEW o \in Objects
  PROVE  Steps(DescriptorCalls(o), GpuMade, {Field(o, "block"), Field(o, "set")})
<1> DEFINE c == Block(Field(o, "block"))
           d == Makes(Field(o, "set"), {The("descriptor_pool")})
<1>1. {Field(o, "block"), Field(o, "set"), The("descriptor_pool")} \subseteq Handles
  BY HandlesAre DEF Names
<1>2. /\ c \in CallSet /\ c.makes = {Field(o, "block")} /\ Wants(c) = {}
      /\ d \in CallSet /\ d.makes = {Field(o, "set")}
      /\ Wants(d) = {The("descriptor_pool")}
                      \cup {The("device"), The("descriptor_pool"), Field(o, "block")}
  BY <1>1, BlockIs, MakesIs, NeedsOfObject
<1> HIDE DEF c, d
<1>3. Wants(c) \subseteq GpuMade /\ Wants(d) \subseteq GpuMade \cup c.makes BY <1>2, GpuHas
<1>4. Steps(<<c, d>>, GpuMade, c.makes \cup d.makes) BY <1>2, <1>3, StepsTwo
<1>5. c.makes \cup d.makes = {Field(o, "block"), Field(o, "set")} BY <1>2
<1>6. QED BY <1>4, <1>5 DEF DescriptorCalls, c, d

LEMMA KindsAre ==
  ASSUME NEW o \in Objects
  PROVE  o # Gpu /\ o[1] \in {"shader", "pipeline", "mesh", "uniform", "descriptor"}
BY DEF Objects, Kinds, Gpu

LEMMA ObjectSteps ==
  ASSUME NEW o \in Objects
  PROVE  Steps(Calls(o), GpuMade, OwnFields(o))
<1>1. CASE o[1] = "mesh"
  <2>1. Calls(o) = MeshCalls(o) BY <1>1, KindsAre DEF Calls
  <2>2. QED BY <1>1, <2>1, MeshSteps DEF OwnFields
<1>2. CASE o[1] = "uniform"
  <2>1. Calls(o) = UniformCalls(o) BY <1>2, KindsAre DEF Calls
  <2>2. QED BY <1>2, <2>1, UniformSteps DEF OwnFields
<1>3. CASE o[1] = "shader"
  <2>1. Calls(o) = ShaderCalls(o) BY <1>3, KindsAre DEF Calls
  <2>2. QED BY <1>3, <2>1, ShaderSteps DEF OwnFields
<1>4. CASE o[1] = "pipeline"
  <2>1. Calls(o) = PipelineCalls(o) BY <1>4, KindsAre DEF Calls
  <2>2. QED BY <1>4, <2>1, PipelineSteps DEF OwnFields
<1>5. CASE o[1] = "descriptor"
  <2>1. Calls(o) = DescriptorCalls(o) BY <1>5, KindsAre DEF Calls
  <2>2. QED BY <1>5, <2>1, DescriptorSteps DEF OwnFields
<1>6. QED BY <1>1, <1>2, <1>3, <1>4, <1>5, KindsAre

(* What a create function is given, and its parts.                         *)
GivenTo(o) == IF o = Gpu THEN {} ELSE GpuMade

LEMMA CallsInOrder ==
  ASSUME NEW o \in Owners
  PROVE  /\ Calls(o) \in Seq(CallSet) /\ InOrder(Calls(o), GivenTo(o)) /\ Made(Calls(o)) = Parts(o)
         /\ Parts(o) = IF o = Gpu THEN GpuMade ELSE OwnFields(o)
<1>1. Parts(o) = Made(Calls(o)) BY DEF Parts, Made
<1>2. CASE o = Gpu
  <2>1. Calls(o) = GpuCalls BY <1>2 DEF Calls, Gpu
  <2>2. QED BY <1>1, <1>2, <2>1, GpuSteps DEF Steps, GivenTo
<1>3. CASE o # Gpu
  <2>1. o \in Objects BY <1>3 DEF Owners
  <2>2. Steps(Calls(o), GpuMade, OwnFields(o)) BY <2>1, ObjectSteps
  <2>3. QED BY <1>1, <1>3, <2>2 DEF Steps, GivenTo
<1>4. QED BY <1>2, <1>3

-----------------------------------------------------------------------------
(* The orders in which handles are destroyed.                              *)
Ends(q, made) == q \in Seq(Handles) /\ Ordered(q) /\ ToSet(q) = made

LEMMA EndsJoined ==
  ASSUME NEW a, NEW b, NEW m, NEW n, Ends(a, m), Ends(b, n),
         \A x \in m, y \in n : Before(x, y)
  PROVE  Ends(a \o b, m \cup n)
<1>1. /\ a \in Seq(Handles) /\ Ordered(a) /\ ToSet(a) = m
      /\ b \in Seq(Handles) /\ Ordered(b) /\ ToSet(b) = n
  BY DEF Ends
<1>2. Ordered(a \o b) BY <1>1, OrderedJoined
<1>3. ToSet(a \o b) = m \cup n BY <1>1, ToSetJoined
<1>4. a \o b \in Seq(Handles) BY <1>1
<1>5. QED BY <1>2, <1>3, <1>4 DEF Ends

LEMMA EndsOne == ASSUME NEW h \in Handles PROVE Ends(<<h>>, {h})
<1>1. ToSet(<<h>>) = {h}
  <2>1. DOMAIN <<h>> = {1} /\ <<h>>[1] = h OBVIOUS
  <2>2. QED BY <2>1 DEF ToSet
<1>2. Ordered(<<h>>) BY DEF Ordered
<1>3. <<h>> \in Seq(Handles) OBVIOUS
<1>4. QED BY <1>1, <1>2, <1>3 DEF Ends

LEMMA EndsAppend ==
  ASSUME NEW q, NEW m, NEW h \in Handles, Ends(q, m), \A x \in m : Before(x, h)
  PROVE  Ends(Append(q, h), m \cup {h})
<1>1. q \in Seq(Handles) BY DEF Ends
<1>2. Append(q, h) = q \o <<h>> BY <1>1, AppendIsConcat
<1>3. Ends(q \o <<h>>, m \cup {h}) BY EndsOne, EndsJoined
<1>4. QED BY <1>2, <1>3

LEMMA EndsTwo ==
  ASSUME NEW a \in Handles, NEW b \in Handles, Before(a, b)
  PROVE  Ends(<<a, b>>, {a, b})
<1>1. <<a, b>> = Append(<<a>>, b) OBVIOUS
<1>2. Ends(Append(<<a>>, b), {a} \cup {b}) BY EndsOne, EndsAppend
<1>3. {a} \cup {b} = {a, b} OBVIOUS
<1>4. QED BY <1>1, <1>2, <1>3

LEMMA EndsThree ==
  ASSUME NEW a \in Handles, NEW b \in Handles, NEW c \in Handles,
         Before(a, b), \A x \in {a, b} : Before(x, c)
  PROVE  Ends(<<a, b, c>>, {a, b, c})
<1>1. <<a, b, c>> = Append(<<a, b>>, c) OBVIOUS
<1>2. Ends(Append(<<a, b>>, c), {a, b} \cup {c}) BY EndsTwo, EndsAppend
<1>3. {a, b} \cup {c} = {a, b, c} OBVIOUS
<1>4. QED BY <1>1, <1>2, <1>3

LEMMA EndsFour ==
  ASSUME NEW a \in Handles, NEW b \in Handles, NEW c \in Handles, NEW d \in Handles,
         Before(a, b), \A x \in {a, b} : Before(x, c), \A x \in {a, b, c} : Before(x, d)
  PROVE  Ends(<<a, b, c, d>>, {a, b, c, d})
<1>1. <<a, b, c, d>> = Append(<<a, b, c>>, d) OBVIOUS
<1>2. Ends(Append(<<a, b, c>>, d), {a, b, c} \cup {d}) BY EndsThree, EndsAppend
<1>3. {a, b, c} \cup {d} = {a, b, c, d} OBVIOUS
<1>4. QED BY <1>1, <1>2, <1>3

LEMMA EndsFive ==
  ASSUME NEW a \in Handles, NEW b \in Handles, NEW c \in Handles, NEW d \in Handles,
         NEW e \in Handles,
         Before(a, b), \A x \in {a, b} : Before(x, c), \A x \in {a, b, c} : Before(x, d),
         \A x \in {a, b, c, d} : Before(x, e)
  PROVE  Ends(<<a, b, c, d, e>>, {a, b, c, d, e})
<1>1. <<a, b, c, d, e>> = Append(<<a, b, c, d>>, e) OBVIOUS
<1>2. Ends(Append(<<a, b, c, d>>, e), {a, b, c, d} \cup {e}) BY EndsFour, EndsAppend
<1>3. {a, b, c, d} \cup {e} = {a, b, c, d, e} OBVIOUS
<1>4. QED BY <1>1, <1>2, <1>3

LEMMA EndsFlattened ==
  ASSUME NEW N \in Nat, NEW q, NEW made,
         \A n \in 1 .. N : Ends(q[n], made[n]),
         \A m, n \in 1 .. N : m < n => \A x \in made[m], y \in made[n] : Before(x, y),
         q = [n \in 1 .. N |-> q[n]]
  PROVE  Ends(FlattenSeq(q), UNION {made[n] : n \in 1 .. N})
<1>1. \A n \in 1 .. N : q[n] \in Seq(Handles) /\ Ordered(q[n]) /\ ToSet(q[n]) = made[n] BY DEF Ends
<1>2. q \in Seq(Seq(Handles)) /\ Len(q) = N
  <2> DEFINE s == [n \in 1 .. N |-> q[n]]
  <2>1. s \in Seq(Seq(Handles)) /\ Len(s) = N BY <1>1
  <2> HIDE DEF s
  <2>2. q = s BY DEF s
  <2>3. QED BY <2>1, <2>2
<1>3. \A m, n \in 1 .. Len(q) : m < n => \A x \in ToSet(q[m]), y \in ToSet(q[n]) : Before(x, y)
  BY <1>1, <1>2
<1>4. Ordered(FlattenSeq(q)) BY <1>1, <1>2, <1>3, OrderedFlattened
<1>5. /\ FlattenSeq(q) \in Seq(Handles)
      /\ ToSet(FlattenSeq(q)) = UNION {ToSet(q[n]) : n \in 1 .. N}
  BY <1>2, ToSetFlattened
<1>6. ToSet(FlattenSeq(q)) = UNION {made[n] : n \in 1 .. N}
  <2>1. \A h : h \in ToSet(FlattenSeq(q)) <=> \E n \in 1 .. N : h \in ToSet(q[n]) BY <1>5
  <2>2. QED BY <1>1, <2>1
<1>7. QED BY <1>4, <1>5, <1>6 DEF Ends

(* The other objects: the block, which holds the rest, comes last.         *)
LEMMA FieldsBefore ==
  ASSUME NEW o \in Objects, NEW m \in Names, NEW n \in Names \ {m}, m # "block"
  PROVE  Field(o, m) \in Handles /\ Field(o, n) \in Handles
         /\ (n \in {"block", "vertex_buffer", "vertex_memory", "index_buffer", "index_memory",
                    "buffer", "memory", "vertex_module", "fragment_module",
                    "descriptor_set_layout", "pipeline_layout", "pipe", "set"}
              => Before(Field(o, m), Field(o, n)))
<1>1. o # Gpu BY KindsAre
<1>2. Field(o, m) \in Handles /\ Field(o, n) \in Handles BY HandlesAre
<1>3. Field(o, m) # Field(o, n) BY DEF Field
<1>4. \A name \in Names : Field(o, m) # The(name) BY <1>1 DEF The, Field
<1>5. Field(o, m) # Field(o, "block") BY DEF Field
<1>6. QED BY <1>2, <1>3, <1>4, <1>5, NeedsOfObject DEF Before, Names

LEMMA ObjectEnds ==
  ASSUME NEW o \in Objects
  PROVE  Ends(Destroys(o), OwnFields(o))
<1>1. CASE o[1] = "mesh"
  <2>1. Ends(MeshDestroys(o), {Field(o, "index_buffer"), Field(o, "index_memory"),
                               Field(o, "vertex_buffer"), Field(o, "vertex_memory"),
                               Field(o, "block")})
    <3> DEFINE a == Field(o, "index_buffer")
               b == Field(o, "index_memory")
               c == Field(o, "vertex_buffer")
               d == Field(o, "vertex_memory")
               e == Field(o, "block")
    <3>1. /\ a \in Handles /\ b \in Handles /\ c \in Handles /\ d \in Handles /\ e \in Handles
          /\ Before(a, b) /\ \A x \in {a, b} : Before(x, c)
      BY FieldsBefore DEF Names
    <3>2. \A x \in {a, b, c} : Before(x, d) BY FieldsBefore DEF Names
    <3>3. \A x \in {a, b, c, d} : Before(x, e) BY FieldsBefore DEF Names
    <3>4. MeshDestroys(o) = <<a, b, c, d, e>> BY DEF MeshDestroys
    <3> HIDE DEF a, b, c, d, e
    <3>5. Ends(<<a, b, c, d, e>>, {a, b, c, d, e}) BY <3>1, <3>2, <3>3, EndsFive
    <3>6. QED BY <3>4, <3>5 DEF a, b, c, d, e
  <2>2. Destroys(o) = MeshDestroys(o) BY <1>1, KindsAre DEF Destroys
  <2>3. OwnFields(o) = {Field(o, "index_buffer"), Field(o, "index_memory"),
                        Field(o, "vertex_buffer"), Field(o, "vertex_memory"), Field(o, "block")}
    BY <1>1 DEF OwnFields
  <2>4. QED BY <2>1, <2>2, <2>3
<1>2. CASE o[1] = "uniform"
  <2>1. Ends(UniformDestroys(o), {Field(o, "buffer"), Field(o, "memory"), Field(o, "block")})
    <3> DEFINE a == Field(o, "buffer")
               b == Field(o, "memory")
               c == Field(o, "block")
    <3>1. /\ a \in Handles /\ b \in Handles /\ c \in Handles
          /\ Before(a, b) /\ \A x \in {a, b} : Before(x, c)
      BY FieldsBefore DEF Names
    <3>2. UniformDestroys(o) = <<a, b, c>> BY DEF UniformDestroys
    <3> HIDE DEF a, b, c
    <3>3. Ends(<<a, b, c>>, {a, b, c}) BY <3>1, EndsThree
    <3>4. QED BY <3>2, <3>3 DEF a, b, c
  <2>2. Destroys(o) = UniformDestroys(o) BY <1>2, KindsAre DEF Destroys
  <2>3. OwnFields(o) = {Field(o, "buffer"), Field(o, "memory"), Field(o, "block")}
    BY <1>2 DEF OwnFields
  <2>4. QED BY <2>1, <2>2, <2>3
<1>3. CASE o[1] = "shader"
  <2>1. Ends(ShaderDestroys(o), {Field(o, "vertex_module"), Field(o, "fragment_module"),
                                 Field(o, "descriptor_set_layout"), Field(o, "block")})
    <3> DEFINE a == Field(o, "vertex_module")
               b == Field(o, "fragment_module")
               c == Field(o, "descriptor_set_layout")
               d == Field(o, "block")
    <3>1. /\ a \in Handles /\ b \in Handles /\ c \in Handles /\ d \in Handles
          /\ Before(a, b) /\ \A x \in {a, b} : Before(x, c)
      BY FieldsBefore DEF Names
    <3>2. \A x \in {a, b, c} : Before(x, d) BY FieldsBefore DEF Names
    <3>3. ShaderDestroys(o) = <<a, b, c, d>> BY DEF ShaderDestroys
    <3> HIDE DEF a, b, c, d
    <3>4. Ends(<<a, b, c, d>>, {a, b, c, d}) BY <3>1, <3>2, EndsFour
    <3>5. QED BY <3>3, <3>4 DEF a, b, c, d
  <2>2. Destroys(o) = ShaderDestroys(o) BY <1>3, KindsAre DEF Destroys
  <2>3. OwnFields(o) = {Field(o, "vertex_module"), Field(o, "fragment_module"),
                        Field(o, "descriptor_set_layout"), Field(o, "block")}
    BY <1>3 DEF OwnFields
  <2>4. QED BY <2>1, <2>2, <2>3
<1>4. CASE o[1] = "pipeline"
  <2>1. Ends(PipelineDestroys(o), {Field(o, "pipeline_layout"), Field(o, "pipe"), Field(o, "block")})
    <3> DEFINE a == Field(o, "pipeline_layout")
               b == Field(o, "pipe")
               c == Field(o, "block")
    <3>1. /\ a \in Handles /\ b \in Handles /\ c \in Handles
          /\ Before(a, b) /\ \A x \in {a, b} : Before(x, c)
      BY FieldsBefore DEF Names
    <3>2. PipelineDestroys(o) = <<a, b, c>> BY DEF PipelineDestroys
    <3> HIDE DEF a, b, c
    <3>3. Ends(<<a, b, c>>, {a, b, c}) BY <3>1, EndsThree
    <3>4. QED BY <3>2, <3>3 DEF a, b, c
  <2>2. Destroys(o) = PipelineDestroys(o) BY <1>4, KindsAre DEF Destroys
  <2>3. OwnFields(o) = {Field(o, "pipeline_layout"), Field(o, "pipe"), Field(o, "block")}
    BY <1>4 DEF OwnFields
  <2>4. QED BY <2>1, <2>2, <2>3
<1>5. CASE o[1] = "descriptor"
  <2>1. Ends(DescriptorDestroys(o), {Field(o, "set"), Field(o, "block")})
    <3> DEFINE a == Field(o, "set")
               b == Field(o, "block")
    <3>1. a \in Handles /\ b \in Handles /\ Before(a, b) BY FieldsBefore DEF Names
    <3>2. DescriptorDestroys(o) = <<a, b>> BY DEF DescriptorDestroys
    <3> HIDE DEF a, b
    <3>3. Ends(<<a, b>>, {a, b}) BY <3>1, EndsTwo
    <3>4. QED BY <3>2, <3>3 DEF a, b
  <2>2. Destroys(o) = DescriptorDestroys(o) BY <1>5, KindsAre DEF Destroys
  <2>3. OwnFields(o) = {Field(o, "set"), Field(o, "block")} BY <1>5 DEF OwnFields
  <2>4. QED BY <2>1, <2>2, <2>3
<1>6. QED BY <1>1, <1>2, <1>3, <1>4, <1>5, KindsAre

(* The GPU: layouts, then what is made once, the frames, and what they and *)
(* all the rest were made from.                                            *)
OnceMade == {The("render_complete_sema"), The("present_complete_sema"), The("depth_stencil_view"),
             The("depth_stencil_image"), The("depth_stencil_memory")}
FrameMade(i) == {Each("fence", i), Each("buffer", i), Each("cmd_buffer", i),
                 Each("frame_buffer", i), Each("view", i)}
FramesMade == UNION {FrameMade(n - 1) : n \in 1 .. FrameCount}
RootsMade == {The("frames"), The("descriptor_pool"), The("cmd_pool"), The("render_pass"),
              The("swap_chain"), The("surface"), The("device"), The("instance"), The("block")}

LEMMA Differ ==
  /\ \A m, n : The(m) = The(n) <=> m = n
  /\ \A m, n, i, j : Each(m, i) = Each(n, j) <=> m = n /\ i = j
  /\ \A m, n, i : The(m) = Each(n, i) => m = n
BY DEF The, Each, Field

LEMMA LayoutEnds == Ends(PerLayout(LayoutDestroys), LayoutsMade)
<1> DEFINE q == [n \in 1 .. Layouts |-> LayoutDestroys(n - 1)]
           made == [n \in 1 .. Layouts |-> {Each("binding", n - 1), Each("attributes", n - 1)}]
<1>1. \A n \in 1 .. Layouts : n - 1 \in Nat BY BoundsAssumption
<1>2. ASSUME NEW n \in 1 .. Layouts PROVE Ends(q[n], made[n])
  <2> DEFINE a == Each("binding", n - 1)
             b == Each("attributes", n - 1)
  <2>1. a \in Handles /\ b \in Handles BY <1>1, HandlesAre DEF Names
  <2>2. Before(a, b) BY <1>1, Differ, NeedsOfFrames DEF Before
  <2>3. q[n] = <<a, b>> /\ made[n] = {a, b} BY DEF LayoutDestroys
  <2> HIDE DEF a, b, q, made
  <2>4. QED BY <2>1, <2>2, <2>3, EndsTwo
<1>3. ASSUME NEW m \in 1 .. Layouts, NEW n \in 1 .. Layouts, m < n,
             NEW x \in made[m], NEW y \in made[n]
      PROVE  Before(x, y)
  <2>1. m - 1 # n - 1 /\ n - 1 \in Nat BY <1>1, <1>3
  <2>2. Needs(y) = {The("block")} BY <2>1, NeedsOfFrames
  <2>3. x # y BY <2>1, Differ
  <2>4. x # The("block") BY Differ
  <2>5. QED BY <2>2, <2>3, <2>4 DEF Before
<1>4. q = [n \in 1 .. Layouts |-> q[n]] OBVIOUS
<1>5. LayoutsMade = UNION {made[n] : n \in 1 .. Layouts} BY DEF LayoutsMade
<1>6. PerLayout(LayoutDestroys) = FlattenSeq(q) BY DEF PerLayout
<1> HIDE DEF q, made
<1>7. \A m, n \in 1 .. Layouts : m < n => \A x \in made[m], y \in made[n] : Before(x, y) BY <1>3
<1>8. QED BY <1>2, <1>4, <1>5, <1>6, <1>7, EndsFlattened, BoundsAssumption

LEMMA OnceEnds ==
  Ends(<<The("render_complete_sema"), The("present_complete_sema"), The("depth_stencil_view"),
         The("depth_stencil_image"), The("depth_stencil_memory")>>, OnceMade)
<1> DEFINE a == The("render_complete_sema")
           b == The("present_complete_sema")
           c == The("depth_stencil_view")
           d == The("depth_stencil_image")
           e == The("depth_stencil_memory")
<1>1. a \in Handles /\ b \in Handles /\ c \in Handles /\ d \in Handles /\ e \in Handles
  BY HandlesAre DEF Names
<1>2. \A y \in {b, c, d, e} : Needs(y) = {The("device"), The("block")} BY NeedsOfGpu
<1>3. \A x \in {a, b, c, d} : x # The("device") /\ x # The("block") BY Differ
<1>4. a # b /\ c \notin {a, b} /\ d \notin {a, b, c} /\ e \notin {a, b, c, d} BY Differ
<1>5. OnceMade = {a, b, c, d, e} BY DEF OnceMade
<1> HIDE DEF a, b, c, d, e
<1>6. /\ Before(a, b) /\ \A x \in {a, b} : Before(x, c)
      /\ \A x \in {a, b, c} : Before(x, d) /\ \A y \in {a, b, c, d} : Before(y, e)
  BY <1>2, <1>3, <1>4 DEF Before
<1>7. Ends(<<a, b, c, d, e>>, {a, b, c, d, e}) BY <1>1, <1>6, EndsFive
<1>8. QED BY <1>5, <1>7 DEF a, b, c, d, e

LEMMA FrameEnds ==
  ASSUME NEW i \in Nat
  PROVE  Ends(FrameDestroys(i), FrameMade(i))
<1> DEFINE a == Each("fence", i)
           b == Each("buffer", i)
           c == Each("cmd_buffer", i)
           d == Each("frame_buffer", i)
           e == Each("view", i)
<1>1. a \in Handles /\ b \in Handles /\ c \in Handles /\ d \in Handles /\ e \in Handles
  BY HandlesAre DEF Names
<1>2. a # b /\ c \notin {a, b} /\ d \notin {a, b, c} /\ e \notin {a, b, c, d} BY Differ
<1>3. \A x \in {a, b, c, d} :
        /\ x # The("device") /\ x # The("block") /\ x # The("cmd_pool")
        /\ x # The("frames") /\ x # The("swap_chain")
  BY Differ
<1>4. /\ Needs(b) = {The("device"), The("cmd_pool"), c, The("block")}
      /\ Needs(c) = {The("frames")} /\ Needs(d) = {The("device"), The("frames")}
      /\ Needs(e) = {The("device"), The("swap_chain"), The("frames")}
  BY NeedsOfFrames
<1>5. FrameMade(i) = {a, b, c, d, e} /\ FrameDestroys(i) = <<a, b, c, d, e>>
  BY DEF FrameMade, FrameDestroys
<1> HIDE DEF a, b, c, d, e
<1>6. Before(a, b) BY <1>2, <1>3, <1>4 DEF Before
<1>7. \A x \in {a, b} : Before(x, c) BY <1>2, <1>3, <1>4 DEF Before
<1>8. \A x \in {a, b, c} : Before(x, d) BY <1>2, <1>3, <1>4 DEF Before
<1>9. \A x \in {a, b, c, d} : Before(x, e) BY <1>2, <1>3, <1>4 DEF Before
<1>10. QED BY <1>1, <1>5, <1>6, <1>7, <1>8, <1>9, EndsFive

LEMMA FramesBefore ==
  ASSUME NEW i \in Nat, NEW j \in Nat, i # j, NEW x \in FrameMade(i), NEW y \in FrameMade(j)
  PROVE  Before(x, y)
<1>1. x # y BY Differ DEF FrameMade
<1>2. Needs(y) \subseteq {The("device"), The("swap_chain"), The("frames"), The("cmd_pool"),
                          The("block"), Each("cmd_buffer", j)}
  BY NeedsOfFrames DEF FrameMade
<1>3. x # Each("cmd_buffer", j) BY Differ DEF FrameMade
<1>4. /\ x # The("device") /\ x # The("block") /\ x # The("cmd_pool")
      /\ x # The("frames") /\ x # The("swap_chain")
  BY Differ DEF FrameMade
<1>5. QED BY <1>1, <1>2, <1>3, <1>4 DEF Before

LEMMA FramesEnd == Ends(PerFrame(FrameDestroys), FramesMade)
<1> DEFINE q == [n \in 1 .. FrameCount |-> FrameDestroys(n - 1)]
           made == [n \in 1 .. FrameCount |-> FrameMade(n - 1)]
<1>1. \A n \in 1 .. FrameCount : n - 1 \in Nat BY FrameCountAssumption
<1>2. \A n \in 1 .. FrameCount : Ends(q[n], made[n]) BY <1>1, FrameEnds
<1>3. ASSUME NEW m \in 1 .. FrameCount, NEW n \in 1 .. FrameCount, m < n,
             NEW x \in made[m], NEW y \in made[n]
      PROVE  Before(x, y)
  <2>1. m - 1 # n - 1 /\ m - 1 \in Nat /\ n - 1 \in Nat BY <1>1, <1>3
  <2>2. x \in FrameMade(m - 1) /\ y \in FrameMade(n - 1) OBVIOUS
  <2>3. QED BY <2>1, <2>2, FramesBefore
<1>4. q = [n \in 1 .. FrameCount |-> q[n]] OBVIOUS
<1>5. FramesMade = UNION {made[n] : n \in 1 .. FrameCount} BY DEF FramesMade
<1>6. PerFrame(FrameDestroys) = FlattenSeq(q) BY DEF PerFrame
<1> HIDE DEF q, made
<1>7. \A m, n \in 1 .. FrameCount : m < n => \A x \in made[m], y \in made[n] : Before(x, y) BY <1>3
<1>8. QED BY <1>2, <1>4, <1>5, <1>6, <1>7, EndsFlattened, FrameCountAssumption

LEMMA RootsEnd ==
  Ends(<<The("frames"), The("descriptor_pool"), The("cmd_pool"), The("render_pass"),
         The("swap_chain"), The("surface"), The("device"), The("instance"), The("block")>>,
       RootsMade)
<1> DEFINE a == The("frames")
           b == The("descriptor_pool")
           c == The("cmd_pool")
           d == The("render_pass")
           e == The("swap_chain")
           f == The("surface")
           g == The("device")
           h == The("instance")
           k == The("block")
           five == <<a, b, c, d, e>>
           six == Append(five, f)
           seven == Append(six, g)
           eight == Append(seven, h)
<1>1. /\ a \in Handles /\ b \in Handles /\ c \in Handles /\ d \in Handles /\ e \in Handles
      /\ f \in Handles /\ g \in Handles /\ h \in Handles /\ k \in Handles
  BY HandlesAre DEF Names
<1>2. /\ \A y \in {b, c, d} : Needs(y) = {g, k} 
      /\ Needs(e) = {g, f, k} /\ \A y \in {f, g} : Needs(y) = {h, k}
      /\ Needs(h) = {k} /\ Needs(k) = {}
  BY NeedsOfGpu
<1>3. /\ a # b /\ c \notin {a, b} /\ d \notin {a, b, c} /\ e \notin {a, b, c, d}
      /\ f \notin {a, b, c, d, e} /\ g \notin {a, b, c, d, e, f}
  BY Differ
<1>4. h \notin {a, b, c, d, e, f, g} /\ k \notin {a, b, c, d, e, f, g, h} BY Differ
<1>5. RootsMade = {a, b, c, d, e} \cup {f} \cup {g} \cup {h} \cup {k} BY DEF RootsMade
<1>6. <<a, b, c, d, e, f, g, h, k>> = Append(eight, k) OBVIOUS
<1> HIDE DEF a, b, c, d, e, f, g, h, k, five, six, seven, eight
<1>7. /\ Before(a, b) /\ \A x \in {a, b} : Before(x, c)
      /\ \A x \in {a, b, c} : Before(x, d) /\ \A y \in {a, b, c, d} : Before(y, e)
  BY <1>2, <1>3, <1>4 DEF Before
<1>8. Ends(five, {a, b, c, d, e}) BY <1>1, <1>7, EndsFive DEF five
<1>9. \A x \in {a, b, c, d, e} : Before(x, f) BY <1>2, <1>3, <1>4 DEF Before
<1>10. Ends(six, {a, b, c, d, e} \cup {f}) BY <1>1, <1>8, <1>9, EndsAppend DEF six
<1>11. \A x \in {a, b, c, d, e} \cup {f} : Before(x, g) BY <1>2, <1>3, <1>4 DEF Before
<1>12. Ends(seven, {a, b, c, d, e} \cup {f} \cup {g}) BY <1>1, <1>10, <1>11, EndsAppend DEF seven
<1>13. \A x \in {a, b, c, d, e} \cup {f} \cup {g} : Before(x, h) BY <1>2, <1>3, <1>4 DEF Before
<1>14. Ends(eight, {a, b, c, d, e} \cup {f} \cup {g} \cup {h})
  BY <1>1, <1>12, <1>13, EndsAppend DEF eight
<1>15. \A x \in {a, b, c, d, e} \cup {f} \cup {g} \cup {h} : Before(x, k)
  BY <1>2, <1>3, <1>4 DEF Before
<1>16. Ends(Append(eight, k), {a, b, c, d, e} \cup {f} \cup {g} \cup {h} \cup {k})
  BY <1>1, <1>14, <1>15, EndsAppend
<1>17. QED BY <1>5, <1>6, <1>16 DEF a, b, c, d, e, f, g, h, k

LEMMA GpuMadeIs == GpuMade = LayoutsMade \cup OnceMade \cup FramesMade \cup RootsMade
<1>1. FramesMade = ViewsMade \cup FrameBuffersMade \cup CommandsMade
  BY DEF FramesMade, FrameMade, ViewsMade, FrameBuffersMade, CommandsMade
<1>2. OnceMade = DepthMade \cup SemaphoresMade BY DEF OnceMade, DepthMade, SemaphoresMade
<1>3. RootsMade = InstanceMade \cup DeviceMade \cup SurfaceMade \cup SwapChainMade
                    \cup RenderPassMade \cup PoolsMade
  BY DEF RootsMade, InstanceMade, DeviceMade, SurfaceMade, SwapChainMade, RenderPassMade, PoolsMade
<1>4. QED BY <1>1, <1>2, <1>3 DEF GpuMade, BodyMade, Viewed, Swapped, Chained

LEMMA NeedsFew ==
  /\ \A y \in OnceMade : Needs(y) = {The("device"), The("block")}
  /\ \A y \in RootsMade : Needs(y) \subseteq {The("device"), The("surface"), The("instance"), The("block")}
  /\ \A y \in FramesMade :
       \E i \in Nat : Needs(y) \subseteq {The("device"), The("swap_chain"), The("frames"), The("cmd_pool"),
                                          The("block"), Each("cmd_buffer", i)}
<1>1. \A y \in OnceMade : Needs(y) = {The("device"), The("block")} BY NeedsOfGpu DEF OnceMade
<1>2. ASSUME NEW y \in RootsMade
      PROVE  Needs(y) \subseteq {The("device"), The("surface"), The("instance"), The("block")}
  BY NeedsOfGpu DEF RootsMade
<1>3. ASSUME NEW y \in FramesMade
      PROVE  \E i \in Nat :
               Needs(y) \subseteq {The("device"), The("swap_chain"), The("frames"), The("cmd_pool"),
                                   The("block"), Each("cmd_buffer", i)}
  <2>1. PICK n \in 1 .. FrameCount : y \in FrameMade(n - 1) BY DEF FramesMade
  <2>2. n - 1 \in Nat BY FrameCountAssumption
  <2>3. Needs(y) \subseteq {The("device"), The("swap_chain"), The("frames"), The("cmd_pool"),
                            The("block"), Each("cmd_buffer", n - 1)}
    BY <2>1, <2>2, NeedsOfFrames DEF FrameMade
  <2>4. QED BY <2>2, <2>3
<1>4. QED BY <1>1, <1>2, <1>3

(* The names of each group, which tell the groups apart.                   *)
Called(h) == h[2]

LEMMA NamesAre ==
  /\ \A y \in LayoutsMade : Called(y) \in {"binding", "attributes"}
  /\ \A y \in OnceMade : Called(y) \in {"render_complete_sema", "present_complete_sema",
       "depth_stencil_view", "depth_stencil_image", "depth_stencil_memory"}
  /\ \A y \in FramesMade : Called(y) \in {"fence", "buffer", "cmd_buffer", "frame_buffer", "view"}
  /\ \A y \in RootsMade : Called(y) \in {"frames", "descriptor_pool", "cmd_pool", "render_pass",
       "swap_chain", "surface", "device", "instance", "block"}
  /\ \A name : Called(The(name)) = name
  /\ \A name, i : Called(Each(name, i)) = name
<1>1. /\ \A name : Called(The(name)) = name
      /\ \A name, i : Called(Each(name, i)) = name
  BY DEF Called, The, Each, Field
<1>2. \A y \in LayoutsMade : Called(y) \in {"binding", "attributes"} BY <1>1 DEF LayoutsMade
<1>3. \A y \in OnceMade : Called(y) \in {"render_complete_sema", "present_complete_sema",
        "depth_stencil_view", "depth_stencil_image", "depth_stencil_memory"}
  BY <1>1 DEF OnceMade
<1>4. \A y \in FramesMade : Called(y) \in {"fence", "buffer", "cmd_buffer", "frame_buffer", "view"}
  BY <1>1 DEF FramesMade, FrameMade
<1>5. \A y \in RootsMade : Called(y) \in {"frames", "descriptor_pool", "cmd_pool", "render_pass",
        "swap_chain", "surface", "device", "instance", "block"}
  BY <1>1 DEF RootsMade
<1>6. QED BY <1>1, <1>2, <1>3, <1>4, <1>5

LEMMA GpuEnds == Ends(GpuDestroys, GpuMade)
<1> DEFINE b == <<The("render_complete_sema"), The("present_complete_sema"), The("depth_stencil_view"),
                  The("depth_stencil_image"), The("depth_stencil_memory")>>
           d == <<The("frames"), The("descriptor_pool"), The("cmd_pool"), The("render_pass"),
                  The("swap_chain"), The("surface"), The("device"), The("instance"), The("block")>>
           a == PerLayout(LayoutDestroys)
           c == PerFrame(FrameDestroys)
<1>1. GpuDestroys = ((a \o b) \o c) \o d BY DEF GpuDestroys
<1>2. /\ Ends(a, LayoutsMade) /\ Ends(b, OnceMade) /\ Ends(c, FramesMade) /\ Ends(d, RootsMade)
  BY LayoutEnds, OnceEnds, FramesEnd, RootsEnd
<1> HIDE DEF a, b, c, d
<1>3. ASSUME NEW x \in LayoutsMade, NEW y \in OnceMade PROVE Before(x, y)
  <2>1. x # y /\ x # The("device") /\ x # The("block") BY NamesAre
  <2>2. QED BY <2>1, NeedsFew DEF Before
<1>4. Ends(a \o b, LayoutsMade \cup OnceMade) BY <1>2, <1>3, EndsJoined
<1>5. ASSUME NEW x \in LayoutsMade \cup OnceMade, NEW y \in FramesMade PROVE Before(x, y)
  <2>1. PICK i \in Nat : Needs(y) \subseteq {The("device"), The("swap_chain"), The("frames"),
                                             The("cmd_pool"), The("block"), Each("cmd_buffer", i)}
    BY NeedsFew
  <2>2. x # y BY NamesAre
  <2>3. /\ x # The("device") /\ x # The("swap_chain") /\ x # The("frames")
        /\ x # The("cmd_pool") /\ x # The("block") /\ x # Each("cmd_buffer", i)
    BY NamesAre
  <2>4. QED BY <2>1, <2>2, <2>3 DEF Before
<1>6. Ends((a \o b) \o c, (LayoutsMade \cup OnceMade) \cup FramesMade) BY <1>2, <1>4, <1>5, EndsJoined
<1>7. ASSUME NEW x \in (LayoutsMade \cup OnceMade) \cup FramesMade, NEW y \in RootsMade
      PROVE  Before(x, y)
  <2>1. x # y BY NamesAre
  <2>2. x # The("device") /\ x # The("surface") /\ x # The("instance") /\ x # The("block")
    BY NamesAre
  <2>3. QED BY <2>1, <2>2, NeedsFew DEF Before
<1>8. Ends(((a \o b) \o c) \o d, ((LayoutsMade \cup OnceMade) \cup FramesMade) \cup RootsMade)
  BY <1>2, <1>6, <1>7, EndsJoined
<1>9. QED BY <1>1, <1>8, GpuMadeIs

LEMMA DestroysEnd ==
  ASSUME NEW o \in Owners
  PROVE  Ends(Destroys(o), Parts(o))
<1>1. CASE o = Gpu
  <2>1. Destroys(o) = GpuDestroys BY <1>1 DEF Destroys, Gpu
  <2>2. QED BY <1>1, <2>1, GpuEnds, CallsInOrder
<1>2. CASE o # Gpu
  <2>1. o \in Objects BY <1>2 DEF Owners
  <2>2. QED BY <1>2, <2>1, ObjectEnds, CallsInOrder
<1>3. QED BY <1>1, <1>2

-----------------------------------------------------------------------------
(* What is made when a call fails, or none is left, can be unmade.         *)

LEMMA PartsOwn ==
  ASSUME NEW o \in Owners, NEW h \in Parts(o)
  PROVE  h[1] = o
<1>1. CASE o = Gpu
  <2>1. h \in GpuMade BY <1>1, CallsInOrder
  <2>2. QED BY <1>1, <2>1, GpuMadeIs
      DEF LayoutsMade, OnceMade, FramesMade, FrameMade, RootsMade, The, Each, Field
<1>2. CASE o # Gpu
  <2>1. o \in Objects BY <1>2 DEF Owners
  <2>2. h \in OwnFields(o) BY <1>2, CallsInOrder
  <2>3. \A name : Field(o, name)[1] = o BY DEF Field
  <2>4. o[1] \in {"shader", "pipeline", "mesh", "uniform", "descriptor"} BY <2>1, KindsAre
  <2>5. QED BY <2>2, <2>3, <2>4 DEF OwnFields
<1>3. QED BY <1>1, <1>2

LEMMA PartsNeed ==
  ASSUME NEW o \in Owners, NEW h \in Parts(o)
  PROVE  Needs(h) \subseteq GivenTo(o) \cup Parts(o)
<1>1. Calls(o) \in Seq(CallSet) /\ InOrder(Calls(o), GivenTo(o)) /\ Made(Calls(o)) = Parts(o)
  BY CallsInOrder
<1>2. Calls(o) \o <<>> = Calls(o) /\ <<>> \in Seq(CallSet) BY <1>1
<1>3. InOrder(Calls(o) \o <<>>, GivenTo(o)) BY <1>1, <1>2
<1>4. \A n \in Made(Calls(o)) : Needs(n) \subseteq GivenTo(o) \cup Made(Calls(o))
  BY <1>1, <1>2, <1>3, InOrderBefore
<1>5. QED BY <1>1, <1>4

(* The field that is tested is another one for two kinds of fields.        *)
Stands(h, i) ==
  \/ h = Each("buffer", i) /\ Tested(h) = Each("cmd_buffer", i) /\ MayBeNull(h)
  \/ h = Each("attributes", i) /\ Tested(h) = Each("binding", i)

LEMMA TestedOfObject ==
  ASSUME NEW o \in Objects, NEW h \in Parts(o)
  PROVE  Tested(h) = h
<1>1. h \in OwnFields(o) BY KindsAre, CallsInOrder DEF Owners
<1>2. o # Gpu /\ o[1] \in {"shader", "pipeline", "mesh", "uniform", "descriptor"} BY KindsAre
<1>3. \A name : name # "attributes" => Tested(Field(o, name)) = Field(o, name)
  BY <1>2 DEF Tested, Field
<1>4. QED BY <1>1, <1>2, <1>3 DEF OwnFields

LEMMA TestedOfGpu ==
  ASSUME NEW h \in GpuMade
  PROVE  /\ Tested(h) \in GpuMade
         /\ Tested(h) = h \/ \E i \in Nat : Stands(h, i)
<1>1. \A name : name # "attributes" /\ name # "buffer" => Tested(The(name)) = The(name)
  BY DEF Tested, The, Field, Gpu
<1>2. \A name, i : name # "attributes" /\ name # "buffer" => Tested(Each(name, i)) = Each(name, i)
  BY DEF Tested, Each
<1>3. \A i : Stands(Each("buffer", i), i) /\ Stands(Each("attributes", i), i)
  BY DEF Stands, Tested, Each, MayBeNull
<1>4. CASE h \in LayoutsMade
  <2>1. PICK n \in 1 .. Layouts : h = Each("binding", n - 1) \/ h = Each("attributes", n - 1)
    BY <1>4 DEF LayoutsMade
  <2>2. n - 1 \in Nat /\ Each("binding", n - 1) \in LayoutsMade BY BoundsAssumption DEF LayoutsMade
  <2>3. CASE h = Each("binding", n - 1)
    <3>1. Tested(h) = h BY <1>2, <2>3
    <3>2. QED BY <3>1
  <2>4. CASE h = Each("attributes", n - 1)
    <3>1. Stands(h, n - 1) BY <1>3, <2>4
    <3>2. Tested(h) = Each("binding", n - 1) BY <2>4, <3>1, Differ DEF Stands
    <3>3. QED BY <2>2, <3>1, <3>2, GpuMadeIs
  <2>5. QED BY <2>1, <2>3, <2>4
<1>5. CASE h \in OnceMade BY <1>1, <1>5 DEF OnceMade
<1>6. CASE h \in RootsMade BY <1>1, <1>6 DEF RootsMade
<1>7. CASE h \in FramesMade
  <2>1. PICK n \in 1 .. FrameCount : h \in FrameMade(n - 1) BY <1>7 DEF FramesMade
  <2>2. n - 1 \in Nat BY FrameCountAssumption
  <2>3. CASE h = Each("buffer", n - 1)
    <3>1. Stands(h, n - 1) BY <1>3, <2>3
    <3>2. Tested(h) = Each("cmd_buffer", n - 1) BY <2>3, <3>1, Differ DEF Stands
    <3>3. Each("cmd_buffer", n - 1) \in FramesMade BY DEF FramesMade, FrameMade
    <3>4. QED BY <2>2, <3>1, <3>2, <3>3, GpuMadeIs
  <2>4. CASE h # Each("buffer", n - 1)
    <3>1. Tested(h) = h BY <1>2, <2>1, <2>4 DEF FrameMade
    <3>2. QED BY <3>1
  <2>5. QED BY <2>3, <2>4
<1>8. QED BY <1>4, <1>5, <1>6, <1>7, GpuMadeIs

(* Got is part of o that its destroy function can destroy.                 *)
Whole(o, got) ==
  /\ got \subseteq Parts(o)
  /\ \A h \in got : Needs(h) \subseteq GivenTo(o) \cup got
  /\ \A h \in got : Tested(h) \in got
  /\ \A h \in Parts(o) : /\ Tested(h) \in Parts(o)
                         /\ Tested(h) \in got => h \in got \/ MayBeNull(h)

LEMMA WholeParts ==
  ASSUME NEW o \in Owners
  PROVE  Whole(o, Parts(o))
<1>1. \A h \in Parts(o) : Tested(h) \in Parts(o)
  <2>1. CASE o = Gpu BY <2>1, CallsInOrder, TestedOfGpu
  <2>2. CASE o # Gpu BY <2>2, TestedOfObject DEF Owners
  <2>3. QED BY <2>1, <2>2
<1>2. QED BY <1>1, PartsNeed DEF Whole

LEMMA WholeMade ==
  ASSUME NEW o \in Owners, NEW done \in Seq(CallSet), NEW rest \in Seq(CallSet),
         done \o rest = Calls(o), rest # <<>>, Head(rest).fails
  PROVE  Whole(o, Made(done))
<1>1. /\ Calls(o) \in Seq(CallSet) /\ InOrder(Calls(o), GivenTo(o))
      /\ Made(Calls(o)) = Parts(o)
  BY CallsInOrder
<1>2. Made(done) \subseteq Parts(o)
  <2>1. Made(done \o rest) = Made(done) \cup Made(rest) BY MadeJoined
  <2>2. QED BY <1>1, <2>1
<1>3. \A h \in Made(done) : Needs(h) \subseteq GivenTo(o) \cup Made(done)
  <2>1. InOrder(done \o rest, GivenTo(o)) BY <1>1
  <2>2. QED BY <2>1, InOrderBefore
<1>4. CASE o # Gpu
  <2>1. \A h \in Parts(o) : Tested(h) = h BY <1>4, TestedOfObject DEF Owners
  <2>2. QED BY <1>2, <1>3, <2>1 DEF Whole
<1>5. CASE o = Gpu
  <2>1. Calls(o) = GpuCalls /\ Parts(o) = GpuMade BY <1>5, CallsInOrder DEF Calls, Gpu
  <2>2. GpuCalls = BodyCalls \o PerLayout(LayoutCalls) BY DEF GpuCalls, BodyCalls
  <2>3. /\ BodyCalls \in Seq(CallSet) /\ Made(BodyCalls) = BodyMade
        /\ PerLayout(LayoutCalls) \in Seq(CallSet)
    BY BodySteps, LayoutSteps DEF Steps
  <2>4. Made(done) \subseteq BodyMade BY <2>1, <2>2, <2>3, LayoutsNeverFail, CutBefore
  <2>5. \A h \in BodyMade : Called(h) # "binding" /\ Called(h) # "attributes"
    <3>1. BodyMade \subseteq OnceMade \cup FramesMade \cup RootsMade
      BY DEF BodyMade, Viewed, Swapped, Chained, ViewsMade, FrameBuffersMade, CommandsMade,
             FramesMade, FrameMade, OnceMade, DepthMade, SemaphoresMade, RootsMade, InstanceMade,
             DeviceMade, SurfaceMade, SwapChainMade, RenderPassMade, PoolsMade
    <3>2. QED BY <3>1, NamesAre
  <2>6. ASSUME NEW h \in Made(done) PROVE Tested(h) \in Made(done)
    <3>1. h \in GpuMade BY <1>2, <2>1
    <3>2. ASSUME NEW i \in Nat, Stands(h, i) PROVE Tested(h) \in Made(done)
      <4>1. h # Each("attributes", i) BY <2>4, <2>5, NamesAre
      <4>2. h = Each("buffer", i) /\ Tested(h) = Each("cmd_buffer", i) BY <3>2, <4>1 DEF Stands
      <4>3. Each("cmd_buffer", i) \in Needs(h) BY <4>2, NeedsOfFrames
      <4>4. QED BY <1>3, <1>5, <4>2, <4>3 DEF GivenTo
    <3>3. QED BY <3>1, <3>2, TestedOfGpu
  <2>7. ASSUME NEW h \in Parts(o), Tested(h) \in Made(done) PROVE h \in Made(done) \/ MayBeNull(h)
    <3>1. h \in GpuMade BY <2>1
    <3>2. ASSUME NEW i \in Nat, Stands(h, i) PROVE MayBeNull(h)
      <4>1. Tested(h) # Each("binding", i) BY <2>4, <2>5, <2>7, NamesAre
      <4>2. QED BY <3>2, <4>1 DEF Stands
    <3>3. QED BY <2>7, <3>1, <3>2, TestedOfGpu
  <2>8. \A h \in Parts(o) : Tested(h) \in Parts(o) BY <2>1, TestedOfGpu
  <2>9. QED BY <1>2, <1>3, <2>6, <2>7, <2>8 DEF Whole
<1>6. QED BY <1>4, <1>5

-----------------------------------------------------------------------------
(* The invariant: where the render thread is says what exists.             *)

HasOf(r) == UNION {Parts(o) : o \in r}

(* o is being made or unmade; the GPU is there unless it is o.             *)
Owner(o, r) == o \in Owners \ r /\ (IF o = Gpu THEN r = {} ELSE Gpu \in r)

Making(o, td, s, l, r, w) ==
  /\ Owner(o, r) /\ w \subseteq HasOf(r) /\ l = s
  /\ td \in Seq(CallSet)
  /\ \E done \in Seq(CallSet) : done \o td = Calls(o) /\ s = HasOf(r) \cup Made(done)

Ready(s, l, r, w) ==
  Gpu \in r /\ s = HasOf(r) /\ l = HasOf(r) /\ w \subseteq HasOf(r)

Waits(o, td, s, l, r, w) ==
  /\ o = Gpu /\ r = {} /\ td = Destroys(Gpu) /\ l = s
  /\ Whole(Gpu, s) /\ w \subseteq s
  /\ w # {} => The("device") \in s

Unmaking(o, td, s, l, r, w) ==
  /\ Owner(o, r) /\ w \subseteq HasOf(r)
  /\ td \in Seq(Handles)
  /\ \E gone \in Seq(Handles), got \in SUBSET Parts(o) :
       /\ gone \o td = Destroys(o) /\ Whole(o, got)
       /\ s = HasOf(r) \cup got /\ l = HasOf(r) \cup (got \ ToSet(gone))

Over(s, l, r, w) == s = {} /\ l = {} /\ r = {} /\ w = {}

GpuInv ==
  /\ returned \subseteq Owners /\ misused = {}
  /\ \/ at = "creating" /\ Making(who, todo, set, live, returned, work)
     \/ at = "idle" /\ Ready(set, live, returned, work)
     \/ at = "waiting" /\ Waits(who, todo, set, live, returned, work)
     \/ at = "destroying" /\ Unmaking(who, todo, set, live, returned, work)
     \/ at = "gone" /\ Over(set, live, returned, work)

LEMMA Apart ==
  ASSUME NEW r, r \subseteq Owners, NEW o \in Owners \ r
  PROVE  Parts(o) \cap HasOf(r) = {}
<1> SUFFICES ASSUME NEW h \in Parts(o), h \in HasOf(r) PROVE FALSE OBVIOUS
<1>1. PICK p \in r : h \in Parts(p) BY DEF HasOf
<1>2. h[1] = o /\ h[1] = p BY <1>1, PartsOwn
<1>3. QED BY <1>2

LEMMA HasNeeds ==
  ASSUME NEW r, r \subseteq Owners, r = {} \/ Gpu \in r, NEW h \in HasOf(r)
  PROVE  Needs(h) \subseteq HasOf(r)
<1>1. PICK p \in r : h \in Parts(p) BY DEF HasOf
<1>2. Needs(h) \subseteq GivenTo(p) \cup Parts(p) BY <1>1, PartsNeed
<1>3. Parts(p) \subseteq HasOf(r) BY DEF HasOf
<1>4. Gpu \in r /\ Gpu \in Owners BY DEF Owners
<1>5. Parts(Gpu) \subseteq HasOf(r) /\ Parts(Gpu) = GpuMade BY <1>4, CallsInOrder DEF HasOf
<1>6. GivenTo(p) \subseteq HasOf(r) BY <1>5 DEF GivenTo
<1>7. QED BY <1>2, <1>3, <1>6

(* What o is given is there.                                               *)
LEMMA GivenThere ==
  ASSUME NEW r, r \subseteq Owners, NEW o, Owner(o, r)
  PROVE  GivenTo(o) \subseteq HasOf(r)
<1>1. CASE o = Gpu BY <1>1 DEF GivenTo
<1>2. CASE o # Gpu
  <2>1. Gpu \in r /\ Gpu \in Owners BY <1>2 DEF Owner, Owners
  <2>2. Parts(Gpu) \subseteq HasOf(r) /\ Parts(Gpu) = GpuMade BY <2>1, CallsInOrder DEF HasOf
  <2>3. QED BY <1>2, <2>2 DEF GivenTo
<1>3. QED BY <1>1, <1>2

LEMMA HasMore ==
  ASSUME NEW r, NEW o
  PROVE  HasOf(r \cup {o}) = HasOf(r) \cup Parts(o)
BY DEF HasOf

LEMMA HasLess ==
  ASSUME NEW r, r \subseteq Owners, NEW o \in r
  PROVE  HasOf(r) = HasOf(r \ {o}) \cup Parts(o) /\ Parts(o) \cap HasOf(r \ {o}) = {}
<1>1. (r \ {o}) \cup {o} = r OBVIOUS
<1>2. HasOf(r) = HasOf(r \ {o}) \cup Parts(o) BY <1>1, HasMore
<1>3. QED BY <1>2, Apart

-----------------------------------------------------------------------------
LEMMA InitGpu == Init => GpuInv
<1> SUFFICES ASSUME Init PROVE GpuInv OBVIOUS
<1>1. Gpu \in Owners /\ Calls(Gpu) = GpuCalls BY DEF Owners, Calls, Gpu
<1>2. GpuCalls \in Seq(CallSet) BY GpuSteps DEF Steps
<1>3. <<>> \o GpuCalls = Calls(Gpu) /\ <<>> \in Seq(CallSet) BY <1>1, <1>2
<1>4. Made(<<>>) = {} /\ HasOf({}) = {} BY NothingYet DEF Made, HasOf
<1>5. {} = HasOf({}) \cup Made(<<>>) BY <1>4
<1>6. Owner(Gpu, {}) BY <1>1 DEF Owner
<1>7. Making(Gpu, GpuCalls, {}, {}, {}, {}) BY <1>2, <1>3, <1>5, <1>6 DEF Making
<1>8. QED BY <1>7 DEF Init, GpuInv

LEMMA CallKeeps ==
  ASSUME NEW o, NEW td, NEW s, NEW l, NEW r, NEW w, Making(o, td, s, l, r, w), td # <<>>
  PROVE  Making(o, Tail(td), s \cup Head(td).makes, l \cup Head(td).makes, r, w)
<1>1. PICK done \in Seq(CallSet) : done \o td = Calls(o) /\ s = HasOf(r) \cup Made(done)
  BY DEF Making
<1>2. td \in Seq(CallSet) /\ Head(td) \in CallSet /\ Tail(td) \in Seq(CallSet) BY DEF Making
<1> DEFINE c == Head(td)
<1>3. Append(done, c) \in Seq(CallSet) /\ Append(done, c) = done \o <<c>> BY <1>2, AppendIsConcat
<1>4. td = <<c>> \o Tail(td) BY <1>2
<1>5. <<c>> \in Seq(CallSet) BY <1>2
<1> HIDE DEF c
<1>6. (done \o <<c>>) \o Tail(td) = done \o (<<c>> \o Tail(td)) BY <1>2, <1>5, ConcatAssociative
<1>7. (done \o <<c>>) \o Tail(td) = Calls(o) BY <1>1, <1>4, <1>6
<1>8. Made(done \o <<c>>) = Made(done) \cup Made(<<c>>) BY <1>5, MadeJoined
<1>9. Made(<<c>>) = c.makes
  <2>1. ToSet(<<c>>) = {c}
    <3>1. DOMAIN <<c>> = {1} /\ <<c>>[1] = c OBVIOUS
    <3>2. QED BY <3>1 DEF ToSet
  <2>2. QED BY <2>1 DEF Made
<1>10. s \cup c.makes = HasOf(r) \cup Made(done \o <<c>>) BY <1>1, <1>8, <1>9
<1>11. QED BY <1>2, <1>3, <1>7, <1>10 DEF Making, c

LEMMA MadeAll ==
  ASSUME NEW o, NEW s, NEW l, NEW r, NEW w, r \subseteq Owners, Making(o, <<>>, s, l, r, w)
  PROVE  o \in Owners /\ Ready(s, l, r \cup {o}, w)
<1>1. PICK done \in Seq(CallSet) : done \o <<>> = Calls(o) /\ s = HasOf(r) \cup Made(done)
  BY DEF Making
<1>2. done \o <<>> = done OBVIOUS
<1>3. o \in Owners /\ (o = Gpu \/ Gpu \in r) BY DEF Making, Owner
<1>4. Made(done) = Parts(o) BY <1>1, <1>2, <1>3, CallsInOrder
<1>5. s = HasOf(r \cup {o}) BY <1>1, <1>4, HasMore
<1>6. w \subseteq HasOf(r) /\ l = s BY DEF Making
<1>7. w \subseteq s BY <1>1, <1>6
<1>8. QED BY <1>3, <1>5, <1>6, <1>7 DEF Ready

(* Whatever destroy function it goes to.                                   *)
LEMMA DestroyStarts ==
  ASSUME NEW o, NEW got, NEW s, NEW r, NEW w, r \subseteq Owners, Owner(o, r), Whole(o, got),
         s = HasOf(r) \cup got, w \subseteq HasOf(r)
  PROVE  Unmaking(o, Destroys(o), s, s, r, w)
<1>1. o \in Owners BY DEF Owner
<1>2. Destroys(o) \in Seq(Handles) BY <1>1, DestroysEnd DEF Ends
<1>3. <<>> \o Destroys(o) = Destroys(o) /\ <<>> \in Seq(Handles) BY <1>2
<1>4. s = HasOf(r) \cup (got \ ToSet(<<>>)) BY NothingYet
<1>5. got \in SUBSET Parts(o) BY DEF Whole
<1>6. QED BY <1>2, <1>3, <1>4, <1>5 DEF Unmaking

LEMMA NextKeeps ==
  ASSUME NEW o, NEW td, NEW s, NEW l, NEW r, NEW w, r \subseteq Owners,
         Unmaking(o, td, s, l, r, w), td # <<>>
  PROVE  /\ Tested(Head(td)) \in s => Head(td) \in l \/ (MayBeNull(Head(td)) /\ Head(td) \notin s)
         /\ Tested(Head(td)) \in s => Unmaking(o, Tail(td), s, l \ {Head(td)}, r, w)
         /\ Tested(Head(td)) \notin s => Unmaking(o, Tail(td), s, l, r, w)
<1>1. PICK gone \in Seq(Handles), got \in SUBSET Parts(o) :
        /\ gone \o td = Destroys(o) /\ Whole(o, got)
        /\ s = HasOf(r) \cup got /\ l = HasOf(r) \cup (got \ ToSet(gone))
  BY DEF Unmaking
<1>2. td \in Seq(Handles) /\ Head(td) \in Handles /\ Tail(td) \in Seq(Handles) BY DEF Unmaking
<1>3. Owner(o, r) /\ o \in Owners \ r /\ w \subseteq HasOf(r) BY DEF Unmaking, Owner
<1> DEFINE h == Head(td)
<1>4. Append(gone, h) \in Seq(Handles) /\ Append(gone, h) = gone \o <<h>> BY <1>2, AppendIsConcat
<1>5. td = <<h>> \o Tail(td) /\ <<h>> \in Seq(Handles) BY <1>2
<1>6. h \in ToSet(td)
  <2>1. 1 \in 1 .. Len(td) /\ h = td[1] BY <1>2
  <2>2. QED BY <1>2, <2>1, ToSetIs
<1> HIDE DEF h
<1>7. (gone \o <<h>>) \o Tail(td) = Destroys(o)
  <2>1. (gone \o <<h>>) \o Tail(td) = gone \o (<<h>> \o Tail(td)) BY <1>2, <1>5, ConcatAssociative
  <2>2. QED BY <1>1, <1>5, <2>1
<1>8. ToSet(gone \o <<h>>) = ToSet(gone) \cup {h} BY <1>2, ToSetAppended DEF h
<1>9. /\ Ordered(gone \o td) /\ ToSet(gone \o td) = Parts(o) BY <1>1, <1>3, DestroysEnd DEF Ends
<1>10. h \in Parts(o) BY <1>2, <1>6, <1>9, ToSetJoined
<1>11. h \notin ToSet(gone) BY <1>2, <1>6, <1>9, OrderedAt DEF Before
<1>12. h \notin HasOf(r) /\ Tested(h) \notin HasOf(r)
  <2>1. Parts(o) \cap HasOf(r) = {} BY <1>3, Apart
  <2>2. QED BY <1>1, <1>10, <2>1 DEF Whole
<1>13. Tested(h) \in s => h \in got \/ MayBeNull(h) BY <1>1, <1>10, <1>12 DEF Whole
<1>14. h \in got => Tested(h) \in s BY <1>1 DEF Whole
<1>15. Tested(h) \in s => h \in l \/ (MayBeNull(h) /\ h \notin s) BY <1>1, <1>11, <1>12, <1>13
<1>16. l \ {h} = HasOf(r) \cup (got \ ToSet(gone \o <<h>>)) BY <1>1, <1>8, <1>12
<1>17. Unmaking(o, Tail(td), s, l \ {h}, r, w)
  BY <1>1, <1>2, <1>3, <1>4, <1>7, <1>16 DEF Unmaking
<1>18. Tested(h) \notin s => l \ {h} = l BY <1>1, <1>12, <1>14
<1>19. QED BY <1>15, <1>17, <1>18 DEF h

LEMMA UnmadeAll ==
  ASSUME NEW o, NEW s, NEW l, NEW r, NEW w, r \subseteq Owners, Unmaking(o, <<>>, s, l, r, w)
  PROVE  /\ o = Gpu => Over(s \ Parts(o), l, r, w)
         /\ o # Gpu => Ready(s \ Parts(o), l, r, w)
<1>1. PICK gone \in Seq(Handles), got \in SUBSET Parts(o) :
        /\ gone \o <<>> = Destroys(o) /\ Whole(o, got)
        /\ s = HasOf(r) \cup got /\ l = HasOf(r) \cup (got \ ToSet(gone))
  BY DEF Unmaking
<1>2. Owner(o, r) /\ o \in Owners \ r /\ w \subseteq HasOf(r) BY DEF Unmaking, Owner
<1>3. gone \o <<>> = gone OBVIOUS
<1>4. ToSet(gone) = Parts(o) BY <1>1, <1>2, <1>3, DestroysEnd DEF Ends
<1>5. Parts(o) \cap HasOf(r) = {} BY <1>2, Apart
<1>6. l = HasOf(r) /\ s \ Parts(o) = HasOf(r) BY <1>1, <1>4, <1>5
<1>7. CASE o = Gpu
  <2>1. r = {} BY <1>2, <1>7 DEF Owner
  <2>2. HasOf(r) = {} BY <2>1 DEF HasOf
  <2>3. QED BY <1>2, <1>6, <1>7, <2>1, <2>2 DEF Over
<1>8. CASE o # Gpu BY <1>2, <1>6, <1>8 DEF Owner, Ready
<1>9. QED BY <1>7, <1>8

-----------------------------------------------------------------------------
LEMMA DeviceMadeToo == The("device") \in Parts(Gpu)
BY CallsInOrder, GpuHas DEF Owners

LEMMA DestroyingKeeps ==
  ASSUME NEW o, NEW got, NEW r, NEW w, r \subseteq Owners, Owner(o, r), Whole(o, got),
         w \subseteq HasOf(r) \cup (IF o = Gpu THEN got ELSE {}),
         w # {} /\ o = Gpu => The("device") \in got
  PROVE  LET s == HasOf(r) \cup got
         IN  IF o = Gpu THEN Waits(o, Destroys(o), s, s, r, w)
             ELSE Unmaking(o, Destroys(o), s, s, r, w)
<1>1. CASE o = Gpu
  <2>1. r = {} /\ HasOf(r) = {} BY <1>1 DEF Owner, HasOf
  <2>2. HasOf(r) \cup got = got BY <2>1
  <2>3. Waits(o, Destroys(o), got, got, r, w) BY <1>1, <2>1 DEF Waits
  <2>4. QED BY <1>1, <2>2, <2>3
<1>2. CASE o # Gpu
  <2>1. w \subseteq HasOf(r) BY <1>2
  <2>2. QED BY <1>2, <2>1, DestroyStarts
<1>3. QED BY <1>1, <1>2

LEMMA CreatingNext ==
  ASSUME GpuInv, Call \/ CallFails \/ Created
  PROVE  GpuInv'
<1>1. at = "creating" BY DEF Call, CallFails, Created
<1>2. /\ returned \subseteq Owners /\ misused = {}
      /\ Making(who, todo, set, live, returned, work)
  BY <1>1 DEF GpuInv
<1>3. CASE Call
  <2>1. /\ todo # <<>> /\ todo' = Tail(todo) /\ set' = set \cup Head(todo).makes
        /\ live' = live \cup Head(todo).makes
        /\ UNCHANGED <<at, who, misused, returned, work>>
    BY <1>3 DEF Call
  <2>2. Making(who, Tail(todo), set \cup Head(todo).makes, live \cup Head(todo).makes, returned, work)
    BY <1>2, <2>1, CallKeeps
  <2>3. QED BY <1>1, <1>2, <2>1, <2>2 DEF GpuInv
<1>4. CASE CallFails
  <2>1. /\ todo # <<>> /\ Head(todo).fails
        /\ at' = (IF who = Gpu THEN "waiting" ELSE "destroying")
        /\ who' = who /\ todo' = Destroys(who)
        /\ UNCHANGED <<set, live, misused, returned, work>>
    BY <1>4 DEF CallFails, Destroying
  <2>2. /\ Owner(who, returned) /\ who \in Owners /\ todo \in Seq(CallSet)
        /\ work \subseteq HasOf(returned) /\ live = set
    BY <1>2 DEF Making, Owner
  <2>3. PICK done \in Seq(CallSet) :
          done \o todo = Calls(who) /\ set = HasOf(returned) \cup Made(done)
    BY <1>2 DEF Making
  <2>4. Whole(who, Made(done)) BY <2>1, <2>2, <2>3, WholeMade
  <2>5. who = Gpu => work = {} BY <2>2 DEF Owner, HasOf
  <2>6. CASE who = Gpu
    <3>1. Waits(who, Destroys(who), set, set, returned, work)
      BY <1>2, <2>2, <2>3, <2>4, <2>5, <2>6, DestroyingKeeps
    <3>2. QED BY <1>2, <2>1, <2>2, <2>6, <3>1 DEF GpuInv
  <2>7. CASE who # Gpu
    <3>1. Unmaking(who, Destroys(who), set, set, returned, work)
      BY <1>2, <2>2, <2>3, <2>4, <2>7, DestroyingKeeps
    <3>2. QED BY <1>2, <2>1, <2>2, <2>7, <3>1 DEF GpuInv
  <2>8. QED BY <2>6, <2>7
<1>5. CASE Created
  <2>1. /\ todo = <<>> /\ returned' = returned \cup {who} /\ at' = "idle"
        /\ UNCHANGED <<who, todo, set, live, misused, work>>
    BY <1>5 DEF Created
  <2>2. who \in Owners /\ Ready(set, live, returned \cup {who}, work) BY <1>2, <2>1, MadeAll
  <2>3. QED BY <1>2, <2>1, <2>2 DEF GpuInv
<1>6. QED BY <1>3, <1>4, <1>5

LEMMA WaitNext ==
  ASSUME GpuInv, WaitIdle
  PROVE  GpuInv'
<1>1. /\ at = "waiting" /\ at' = "destroying" /\ (The("device") \in set => work = {})
      /\ UNCHANGED <<who, todo, set, live, misused, returned, work>>
  BY DEF WaitIdle
<1>2. /\ returned \subseteq Owners /\ misused = {}
      /\ Waits(who, todo, set, live, returned, work)
  BY <1>1 DEF GpuInv
<1>3. /\ who = Gpu /\ returned = {} /\ todo = Destroys(Gpu) /\ live = set
      /\ Whole(Gpu, set) /\ work = {}
  BY <1>1, <1>2 DEF Waits
<1>4. Owner(Gpu, {}) BY DEF Owner, Owners
<1>5. HasOf({}) = {} BY DEF HasOf
<1>6. set = HasOf({}) \cup set /\ work \subseteq HasOf({}) BY <1>3, <1>5
<1>7. Unmaking(Gpu, Destroys(Gpu), set, set, {}, work) BY <1>3, <1>4, <1>6, DestroyStarts
<1>8. QED BY <1>1, <1>2, <1>3, <1>7 DEF GpuInv

LEMMA DestroyingNext ==
  ASSUME GpuInv, DestroyNext \/ Destroyed
  PROVE  GpuInv'
<1>1. at = "destroying" BY DEF DestroyNext, Destroyed
<1>2. /\ returned \subseteq Owners /\ misused = {}
      /\ Unmaking(who, todo, set, live, returned, work)
  BY <1>1 DEF GpuInv
<1>3. CASE DestroyNext
  <2> DEFINE h == Head(todo)
  <2>1. /\ todo # <<>> /\ todo' = Tail(todo)
        /\ UNCHANGED <<at, who, set, returned, work>>
    BY <1>3 DEF DestroyNext
  <2>2. /\ Tested(h) \in set => h \in live \/ (MayBeNull(h) /\ h \notin set)
        /\ Tested(h) \in set => Unmaking(who, Tail(todo), set, live \ {h}, returned, work)
        /\ Tested(h) \notin set => Unmaking(who, Tail(todo), set, live, returned, work)
    BY <1>2, <2>1, NextKeeps
  <2>3. CASE Tested(h) \in set
    <3>1. /\ live' = live \ {h}
          /\ misused' = IF h \in live \/ (MayBeNull(h) /\ h \notin set)
                        THEN misused ELSE misused \cup {h}
      BY <1>3, <2>3 DEF DestroyNext
    <3>2. misused' = misused BY <2>2, <2>3, <3>1
    <3>3. Unmaking(who, Tail(todo), set, live', returned, work) BY <2>2, <2>3, <3>1
    <3>4. QED BY <1>1, <1>2, <2>1, <3>2, <3>3 DEF GpuInv
  <2>4. CASE Tested(h) \notin set
    <3>1. UNCHANGED <<live, misused>> BY <1>3, <2>4 DEF DestroyNext
    <3>2. QED BY <1>1, <1>2, <2>1, <2>2, <2>4, <3>1 DEF GpuInv
  <2>5. QED BY <2>3, <2>4
<1>4. CASE Destroyed
  <2>1. /\ todo = <<>> /\ at' = (IF who = Gpu THEN "gone" ELSE "idle") /\ set' = set \ Parts(who)
        /\ UNCHANGED <<who, todo, live, misused, returned, work>>
    BY <1>4 DEF Destroyed
  <2>2. /\ who = Gpu => Over(set \ Parts(who), live, returned, work)
        /\ who # Gpu => Ready(set \ Parts(who), live, returned, work)
    BY <1>2, <2>1, UnmadeAll
  <2>3. CASE who = Gpu BY <1>2, <2>1, <2>2, <2>3 DEF GpuInv
  <2>4. CASE who # Gpu BY <1>2, <2>1, <2>2, <2>4 DEF GpuInv
  <2>5. QED BY <2>3, <2>4
<1>5. QED BY <1>3, <1>4

LEMMA RendererNext ==
  ASSUME GpuInv,
         \/ \E o \in Objects : Create(o) \/ Destroy(o)
         \/ GpuDestroy
         \/ \E drawn \in SUBSET (returned \cap Objects) : Submit(drawn)
  PROVE  GpuInv'
<1>1. at = "idle" BY DEF Create, Destroy, GpuDestroy, Submit
<1>2. /\ returned \subseteq Owners /\ misused = {}
      /\ Ready(set, live, returned, work)
  BY <1>1 DEF GpuInv
<1>3. /\ Gpu \in returned /\ set = HasOf(returned) /\ live = HasOf(returned)
      /\ work \subseteq HasOf(returned)
  BY <1>2 DEF Ready
<1>4. ASSUME NEW o \in Objects, Create(o) PROVE GpuInv'
  <2>1. /\ o \notin returned /\ at' = "creating" /\ who' = o /\ todo' = Calls(o)
        /\ UNCHANGED <<set, live, misused, returned, work>>
    BY <1>4 DEF Create
  <2>2. o \in Owners /\ o # Gpu BY KindsAre DEF Owners
  <2>3. Owner(o, returned) BY <1>3, <2>1, <2>2 DEF Owner
  <2>4. Calls(o) \in Seq(CallSet) BY <2>2, CallsInOrder
  <2>5. <<>> \o Calls(o) = Calls(o) /\ <<>> \in Seq(CallSet) BY <2>4
  <2>6. set = HasOf(returned) \cup Made(<<>>) BY <1>3, NothingYet DEF Made
  <2>7. Making(o, Calls(o), set, live, returned, work)
    BY <1>3, <2>3, <2>4, <2>5, <2>6 DEF Making
  <2>8. QED BY <1>2, <2>1, <2>7 DEF GpuInv
<1>5. ASSUME NEW o \in Objects, Destroy(o) PROVE GpuInv'
  <2>1. /\ o \in returned /\ Parts(o) \cap work = {} /\ o # Gpu /\ o \in Owners
        /\ at' = "destroying" /\ who' = o /\ todo' = Destroys(o) /\ returned' = returned \ {o}
        /\ UNCHANGED <<set, live, misused, work>>
    BY <1>5, KindsAre DEF Destroy, Destroying, Owners
  <2> DEFINE r == returned \ {o}
  <2>2. HasOf(returned) = HasOf(r) \cup Parts(o) /\ Parts(o) \cap HasOf(r) = {}
    BY <1>2, <2>1, HasLess
  <2>3. work \subseteq HasOf(r) /\ set = HasOf(r) \cup Parts(o) BY <1>3, <2>1, <2>2
  <2>4. Owner(o, r) /\ r \subseteq Owners BY <1>2, <1>3, <2>1 DEF Owner
  <2>5. Whole(o, Parts(o)) BY <2>1, WholeParts
  <2> HIDE DEF r
  <2>6. Unmaking(o, Destroys(o), set, set, r, work) BY <2>3, <2>4, <2>5, DestroyStarts
  <2>7. live = set BY <1>3
  <2>8. returned' = r BY <2>1 DEF r
  <2>9. Unmaking(who', todo', set', live', returned', work') BY <2>1, <2>6, <2>7, <2>8
  <2>10. QED BY <1>2, <2>1, <2>4, <2>8, <2>9 DEF GpuInv
<1>6. CASE GpuDestroy
  <2>1. /\ returned = {Gpu} /\ at' = "waiting" /\ who' = Gpu /\ todo' = Destroys(Gpu)
        /\ returned' = {} /\ UNCHANGED <<set, live, misused, work>>
    BY <1>6 DEF GpuDestroy, Destroying
  <2>2. HasOf(returned) = Parts(Gpu) BY <2>1 DEF HasOf
  <2>3. Whole(Gpu, Parts(Gpu)) BY WholeParts DEF Owners
  <2>4. Waits(Gpu, Destroys(Gpu), set, live, {}, work)
    BY <1>3, <2>2, <2>3, DeviceMadeToo DEF Waits
  <2>5. QED BY <1>2, <2>1, <2>4 DEF GpuInv
<1>7. ASSUME NEW drawn \in SUBSET (returned \cap Objects), Submit(drawn) PROVE GpuInv'
  <2>1. /\ work' = work \cup Parts(Gpu) \cup UNION {Parts(o) : o \in drawn}
        /\ UNCHANGED <<at, who, todo, set, live, misused, returned>>
    BY <1>7 DEF Submit
  <2>2. Parts(Gpu) \subseteq HasOf(returned) BY <1>3 DEF HasOf
  <2>3. UNION {Parts(o) : o \in drawn} \subseteq HasOf(returned) BY DEF HasOf
  <2>4. Ready(set, live, returned, work') BY <1>3, <2>1, <2>2, <2>3 DEF Ready
  <2>5. QED BY <1>1, <1>2, <2>1, <2>4 DEF GpuInv
<1>8. QED BY <1>4, <1>5, <1>6, <1>7

LEMMA CompleteNext ==
  ASSUME GpuInv, Complete
  PROVE  GpuInv'
<1>1. /\ work # {} /\ work' = {}
      /\ UNCHANGED <<at, who, todo, set, live, misused, returned>>
  BY DEF Complete
<1>2. returned \subseteq Owners /\ misused = {} BY DEF GpuInv
<1>3. CASE at = "creating"
  <2>1. Making(who, todo, set, live, returned, {}) BY <1>3 DEF GpuInv, Making
  <2>2. QED BY <1>1, <1>2, <1>3, <2>1 DEF GpuInv
<1>4. CASE at = "idle"
  <2>1. Ready(set, live, returned, {}) BY <1>4 DEF GpuInv, Ready
  <2>2. QED BY <1>1, <1>2, <1>4, <2>1 DEF GpuInv
<1>5. CASE at = "waiting"
  <2>1. Waits(who, todo, set, live, returned, {}) BY <1>5 DEF GpuInv, Waits
  <2>2. QED BY <1>1, <1>2, <1>5, <2>1 DEF GpuInv
<1>6. CASE at = "destroying"
  <2>1. Unmaking(who, todo, set, live, returned, {}) BY <1>6 DEF GpuInv, Unmaking
  <2>2. QED BY <1>1, <1>2, <1>6, <2>1 DEF GpuInv
<1>7. CASE at = "gone" BY <1>1, <1>7 DEF GpuInv, Over
<1>8. QED BY <1>3, <1>4, <1>5, <1>6, <1>7 DEF GpuInv

LEMMA GpuNext == GpuInv /\ [Next]_vars => GpuInv'
<1> SUFFICES ASSUME GpuInv, [Next]_vars PROVE GpuInv' OBVIOUS
<1>1. CASE Call \/ CallFails \/ Created BY <1>1, CreatingNext
<1>2. CASE WaitIdle BY <1>2, WaitNext
<1>3. CASE DestroyNext \/ Destroyed BY <1>3, DestroyingNext
<1>4. CASE \/ \E o \in Objects : Create(o) \/ Destroy(o)
           \/ GpuDestroy
           \/ \E drawn \in SUBSET (returned \cap Objects) : Submit(drawn)
  BY <1>4, RendererNext
<1>5. CASE Complete BY <1>5, CompleteNext
<1>6. CASE UNCHANGED vars BY <1>6 DEF vars, GpuInv
<1>7. CASE Finished BY <1>6, <1>7 DEF Finished
<1>8. QED BY <1>1, <1>2, <1>3, <1>4, <1>5, <1>6, <1>7 DEF Next

-----------------------------------------------------------------------------
LEMMA OwnersThere == GpuInv => OwnersOutlive
<1> SUFFICES ASSUME GpuInv PROVE OwnersOutlive OBVIOUS
<1>1. returned \subseteq Owners /\ misused = {} BY DEF GpuInv
<1>2. CASE at = "creating"
  <2>1. Making(who, todo, set, live, returned, work) BY <1>2 DEF GpuInv
  <2>2. PICK done \in Seq(CallSet) :
          done \o todo = Calls(who) /\ set = HasOf(returned) \cup Made(done)
    BY <2>1 DEF Making
  <2>3. /\ Owner(who, returned) /\ who \in Owners /\ todo \in Seq(CallSet) /\ live = set
        /\ work \subseteq HasOf(returned) /\ (returned = {} \/ Gpu \in returned)
    BY <2>1 DEF Making, Owner
  <2>4. GivenTo(who) \subseteq HasOf(returned) BY <1>1, <2>3, GivenThere
  <2>5. InOrder(done \o todo, GivenTo(who)) BY <2>2, <2>3, CallsInOrder
  <2>6. \A h \in Made(done) : Needs(h) \subseteq GivenTo(who) \cup Made(done)
    BY <2>3, <2>5, InOrderBefore
  <2>7. \A h \in HasOf(returned) : Needs(h) \subseteq HasOf(returned) BY <1>1, <2>3, HasNeeds
  <2>8. \A h \in live : Needs(h) \subseteq live BY <2>2, <2>3, <2>4, <2>6, <2>7
  <2>9. todo # <<>> => Head(todo).uses \subseteq live
    <3>1. todo # <<>> => Wants(Head(todo)) \subseteq GivenTo(who) \cup Made(done)
      BY <2>3, <2>5, InOrderAt
    <3>2. Head(todo).uses \subseteq Wants(Head(todo)) BY DEF Wants
    <3>3. QED BY <2>2, <2>3, <2>4, <3>1, <3>2
  <2>10. work \subseteq live BY <2>2, <2>3
  <2>11. QED BY <1>1, <2>8, <2>9, <2>10 DEF OwnersOutlive, Needs
<1>3. CASE at = "idle"
  <2>1. Ready(set, live, returned, work) BY <1>3 DEF GpuInv
  <2>2. \A h \in live : Needs(h) \subseteq live BY <1>1, <2>1, HasNeeds DEF Ready
  <2>3. work \subseteq live BY <2>1 DEF Ready
  <2>4. QED BY <1>1, <1>3, <2>2, <2>3 DEF OwnersOutlive, Needs
<1>4. CASE at = "waiting"
  <2>1. Waits(who, todo, set, live, returned, work) BY <1>4 DEF GpuInv
  <2>2. \A h \in live : Needs(h) \subseteq live BY <2>1 DEF Waits, Whole, GivenTo
  <2>3. work \subseteq live BY <2>1 DEF Waits
  <2>4. QED BY <1>1, <1>4, <2>2, <2>3 DEF OwnersOutlive, Needs
<1>5. CASE at = "destroying"
  <2>1. Unmaking(who, todo, set, live, returned, work) BY <1>5 DEF GpuInv
  <2>2. PICK gone \in Seq(Handles), got \in SUBSET Parts(who) :
          /\ gone \o todo = Destroys(who) /\ Whole(who, got)
          /\ set = HasOf(returned) \cup got /\ live = HasOf(returned) \cup (got \ ToSet(gone))
    BY <2>1 DEF Unmaking
  <2>3. /\ Owner(who, returned) /\ who \in Owners /\ todo \in Seq(Handles)
        /\ work \subseteq HasOf(returned) /\ (returned = {} \/ Gpu \in returned)
    BY <2>1 DEF Unmaking, Owner
  <2>4. GivenTo(who) \subseteq HasOf(returned) BY <1>1, <2>3, GivenThere
  <2>5. \A h \in HasOf(returned) : Needs(h) \subseteq HasOf(returned) BY <1>1, <2>3, HasNeeds
  <2>6. Ordered(gone \o todo) /\ ToSet(gone \o todo) = Parts(who) BY <2>2, <2>3, DestroysEnd DEF Ends
  <2>7. ToSet(gone \o todo) = ToSet(gone) \cup ToSet(todo) BY <2>3, ToSetJoined
  <2>8. ASSUME NEW h \in got \ ToSet(gone) PROVE Needs(h) \subseteq live
    <3>1. Needs(h) \subseteq GivenTo(who) \cup got BY <2>2 DEF Whole
    <3>2. h \in ToSet(todo) BY <2>6, <2>7
    <3>3. \A g \in ToSet(gone) : g \notin Needs(h) BY <2>3, <2>6, <3>2, OrderedAt DEF Before
    <3>4. QED BY <2>2, <2>4, <3>1, <3>3
  <2>9. \A h \in live : Needs(h) \subseteq live BY <2>2, <2>5, <2>8
  <2>10. work \subseteq live BY <2>2, <2>3
  <2>11. QED BY <1>1, <1>5, <2>9, <2>10 DEF OwnersOutlive, Needs
<1>6. CASE at = "gone" BY <1>1, <1>6 DEF GpuInv, Over, OwnersOutlive
<1>7. QED BY <1>2, <1>3, <1>4, <1>5, <1>6 DEF GpuInv

LEMMA AllThere == GpuInv => AllOrNothing
<1> SUFFICES ASSUME GpuInv, at \in {"idle", "gone"}
             PROVE  live = UNION {Parts(o) : o \in returned}
  BY DEF AllOrNothing
<1>1. CASE at = "idle" BY <1>1 DEF GpuInv, Ready, HasOf
<1>2. CASE at = "gone" BY <1>2 DEF GpuInv, Over
<1>3. QED BY <1>1, <1>2

(* Whichever of the calls of gpu_create or of another create function      *)
(* fails, and in whatever order the renderer makes and destroys objects,   *)
(* nothing outlives what it was made from or the memory that holds it, no  *)
(* call is given what does not exist, nothing is destroyed twice, without  *)
(* having been made, or while a frame uses it.                             *)
THEOREM OwnersKept == Spec => []OwnersOutlive
<1>1. Spec => []GpuInv BY InitGpu, GpuNext, PTL DEF Spec
<1>2. QED BY <1>1, OwnersThere, PTL

(* Between two calls exactly the parts of the objects that were returned   *)
(* exist: a create function that fails has undone what it made, and after  *)
(* gpu_destroy nothing is left.                                            *)
THEOREM NothingHalfMade == Spec => []AllOrNothing
<1>1. Spec => []GpuInv BY InitGpu, GpuNext, PTL DEF Spec
<1>2. QED BY <1>1, AllThere, PTL

-----------------------------------------------------------------------------
(* An object's transform and its matrix.  Four times a rotation's matrix   *)
(* is quadratic in the numbers of its quaternion, so that what is to be    *)
(* shown are identities between polynomials; that the halves taken by      *)
(* Transforms are exact is shown first.                                    *)

Vec   == [Axes -> Int]
Table == [Axes -> Vec]

LEMMA AxesAre ==
  /\ Axes = {1, 2, 3} /\ AxisAfter(1) = 2 /\ AxisAfter(2) = 3 /\ AxisAfter(3) = 1
  /\ Entries = {1, 2, 3, 4}
BY DEF Axes, AxisAfter, Entries

LEMMA SameVec ==
  ASSUME NEW a, NEW b, NEW S, NEW T, a \in [Axes -> S], b \in [Axes -> T],
         a[1] = b[1], a[2] = b[2], a[3] = b[3]
  PROVE  a = b
<1>1. \A i \in Axes : a[i] = b[i] BY AxesAre
<1>2. QED BY <1>1

LEMMA VecParts ==
  ASSUME NEW a \in Vec
  PROVE  a[1] \in Int /\ a[2] \in Int /\ a[3] \in Int
BY AxesAre DEF Vec

LEMMA AddEntries ==
  ASSUME NEW a \in Vec, NEW b \in Vec
  PROVE  /\ Add(a, b) \in Vec
         /\ Add(a, b)[1] = a[1] + b[1] /\ Add(a, b)[2] = a[2] + b[2]
         /\ Add(a, b)[3] = a[3] + b[3]
BY AxesAre DEF Vec, Add

LEMMA MulEntries ==
  ASSUME NEW a \in Vec, NEW b \in Vec
  PROVE  /\ Mul(a, b) \in Vec
         /\ Mul(a, b)[1] = a[1] * b[1] /\ Mul(a, b)[2] = a[2] * b[2]
         /\ Mul(a, b)[3] = a[3] * b[3]
BY AxesAre DEF Vec, Mul

LEMMA ScaledEntries ==
  ASSUME NEW a \in Vec, NEW f \in Int
  PROVE  /\ Scaled(a, f) \in Vec
         /\ Scaled(a, f)[1] = a[1] * f /\ Scaled(a, f)[2] = a[2] * f
         /\ Scaled(a, f)[3] = a[3] * f
BY AxesAre DEF Vec, Scaled

LEMMA HalvedEntries ==
  ASSUME NEW a \in Vec
  PROVE  /\ Halved(a) \in Vec
         /\ Halved(a)[1] = a[1] \div 2 /\ Halved(a)[2] = a[2] \div 2
         /\ Halved(a)[3] = a[3] \div 2
BY AxesAre DEF Vec, Halved

LEMMA DotIs ==
  ASSUME NEW a \in Vec, NEW b \in Vec
  PROVE  Dot(a, b) \in Int /\ Dot(a, b) = a[1] * b[1] + a[2] * b[2] + a[3] * b[3]
BY AxesAre DEF Vec, Dot

LEMMA CrossEntries ==
  ASSUME NEW a \in Vec, NEW b \in Vec
  PROVE  /\ Cross(a, b) \in Vec
         /\ Cross(a, b)[1] = a[2] * b[3] - a[3] * b[2]
         /\ Cross(a, b)[2] = a[3] * b[1] - a[1] * b[3]
         /\ Cross(a, b)[3] = a[1] * b[2] - a[2] * b[1]
BY AxesAre DEF Cross, Vec

-----------------------------------------------------------------------------
(* The numbers of a rotation are all odd, or all even.                     *)

IsEven(n) == n \in Int /\ 2 * (n \div 2) = n

Odd4(a, b, c, d)  == {a, b, c, d} \subseteq {-1, 1}
Even4(a, b, c, d) == {a, b, c, d} \subseteq {-2, 0, 2}

LEMMA RotationNumbers ==
  ASSUME NEW q \in Rotations
  PROVE  /\ q = Quaternion(q.v, q.s) /\ q.v \in Vec /\ q.s \in -2 .. 2
         /\ q.v[1] \in -2 .. 2 /\ q.v[2] \in -2 .. 2 /\ q.v[3] \in -2 .. 2
         /\ q.v[1] * q.v[1] + q.v[2] * q.v[2] + q.v[3] * q.v[3] + q.s * q.s = 4
         /\ Odd4(q.v[1], q.v[2], q.v[3], q.s) \/ Even4(q.v[1], q.v[2], q.v[3], q.s)
<1>1. q \in [v : [Axes -> -2 .. 2], s : -2 .. 2] /\ Dot(q.v, q.v) + q.s * q.s = 4
      /\ q.s % 2 = q.v[1] % 2 /\ q.v[2] % 2 = q.v[1] % 2 /\ q.v[3] % 2 = q.v[1] % 2
  BY DEF Rotations
<1>2. q = Quaternion(q.v, q.s) /\ q.v \in [Axes -> -2 .. 2] /\ q.s \in -2 .. 2
  BY <1>1 DEF Quaternion
<1>3. q.v[1] \in -2 .. 2 /\ q.v[2] \in -2 .. 2 /\ q.v[3] \in -2 .. 2 BY <1>2, AxesAre
<1>4. q.v \in Vec BY <1>2 DEF Vec
<1>5. Odd4(q.v[1], q.v[2], q.v[3], q.s) \/ Even4(q.v[1], q.v[2], q.v[3], q.s)
  <2> DEFINE x == q.v[1]  y == q.v[2]  z == q.v[3]  w == q.s
  <2>1. x \in -2 .. 2 /\ y \in -2 .. 2 /\ z \in -2 .. 2 /\ w \in -2 .. 2 BY <1>2, <1>3
  <2>2. w % 2 = x % 2 /\ y % 2 = x % 2 /\ z % 2 = x % 2 BY <1>1
  <2> HIDE DEF x, y, z, w
  <2>3. ASSUME NEW n \in -2 .. 2 PROVE (n \in {-1, 1} /\ n % 2 = 1) \/ (n \in {-2, 0, 2} /\ n % 2 = 0)
    OBVIOUS
  <2>4. QED BY <2>1, <2>2, <2>3 DEF Odd4, Even4, x, y, z, w
<1>6. QED BY <1>1, <1>2, <1>3, <1>4, <1>5 DEF Dot

(* And whatever has length 1 is one.                                       *)
LEMMA IsRotation ==
  ASSUME NEW v \in Vec, NEW s \in Int, v[1] * v[1] + v[2] * v[2] + v[3] * v[3] + s * s = 4
  PROVE  Quaternion(v, s) \in Rotations
<1> DEFINE x == v[1]  y == v[2]  z == v[3]
<1>1. x \in Int /\ y \in Int /\ z \in Int BY AxesAre DEF Vec
<1>2. x * x + y * y + z * z + s * s = 4 OBVIOUS
<1>3. v \in [Axes -> Int] BY DEF Vec
<1>4. ASSUME x \in -2 .. 2, y \in -2 .. 2, z \in -2 .. 2 PROVE v \in [Axes -> -2 .. 2]
  BY <1>3, <1>4, AxesAre
<1>5. ASSUME s \in -2 .. 2, v \in [Axes -> -2 .. 2],
             s % 2 = x % 2, y % 2 = x % 2, z % 2 = x % 2
      PROVE  Quaternion(v, s) \in Rotations
  BY <1>2, <1>5 DEF Rotations, Quaternion, Dot
<1> HIDE DEF x, y, z
<1>6. ASSUME NEW n \in Int PROVE n * n >= 0 /\ (n * n <= 4 => n \in -2 .. 2)
  <2>1. CASE n \in -2 .. 2
    <3>1. n \in {-2, -1, 0, 1, 2} BY <2>1
    <3>2. QED BY <3>1
  <2>2. CASE n >= 3
    <3>1. n * n >= 3 * n BY <2>2
    <3>2. QED BY <2>2, <3>1
  <2>3. CASE n <= -3
    <3>1. n * n >= 3 * (-n) BY <2>3
    <3>2. QED BY <2>3, <3>1
  <2>4. QED BY <2>1, <2>2, <2>3
<1>7. x * x \in Int /\ y * y \in Int /\ z * z \in Int /\ s * s \in Int BY <1>1
<1>8. x \in -2 .. 2 /\ y \in -2 .. 2 /\ z \in -2 .. 2 /\ s \in -2 .. 2
  BY <1>1, <1>2, <1>6, <1>7
<1>9. s % 2 = x % 2 /\ y % 2 = x % 2 /\ z % 2 = x % 2
  <2>1. ASSUME NEW n \in -2 .. 2
        PROVE  \/ n * n = 1 /\ n % 2 = 1
               \/ n * n = 0 /\ n % 2 = 0
               \/ n * n = 4 /\ n % 2 = 0
    <3>1. n \in {-2, -1, 0, 1, 2} OBVIOUS
    <3>2. QED BY <3>1
  <2>2. QED BY <1>2, <1>8, <2>1
<1>10. QED BY <1>4, <1>5, <1>8, <1>9

LEMMA ProductsAlike ==
  ASSUME NEW a \in Int, NEW b \in Int, NEW c \in Int, NEW d \in Int,
         Odd4(a, b, c, d) \/ Even4(a, b, c, d)
  PROVE  /\ IsEven(a * a + b * b) /\ IsEven(a * b + c * d) /\ IsEven(a * b - c * d)
<1>1. CASE Odd4(a, b, c, d)
  <2>1. a \in {-1, 1} /\ b \in {-1, 1} /\ c \in {-1, 1} /\ d \in {-1, 1} BY <1>1 DEF Odd4
  <2>2. a * a = 1 /\ b * b = 1 /\ a * b \in {-1, 1} /\ c * d \in {-1, 1} BY <2>1
  <2>3. QED BY <2>2 DEF IsEven
<1>2. CASE Even4(a, b, c, d)
  <2>1. a \in {-2, 0, 2} /\ b \in {-2, 0, 2} /\ c \in {-2, 0, 2} /\ d \in {-2, 0, 2}
    BY <1>2 DEF Even4
  <2>2. a * a \in {0, 4} /\ b * b \in {0, 4} /\ a * b \in {-4, 0, 4} /\ c * d \in {-4, 0, 4}
    BY <2>1
  <2>3. QED BY <2>2 DEF IsEven
<1>3. QED BY <1>1, <1>2

FourHalve(a, b, c, d, x, y, z, w) ==
  /\ IsEven(a * x - b * y + (c * z + d * w))
  /\ IsEven(a * x - (b * y + c * z + d * w))

LEMMA FourProducts ==
  ASSUME NEW a \in Int, NEW b \in Int, NEW c \in Int, NEW d \in Int,
         NEW x \in Int, NEW y \in Int, NEW z \in Int, NEW w \in Int,
         Odd4(a, b, c, d) \/ Even4(a, b, c, d), Odd4(x, y, z, w) \/ Even4(x, y, z, w)
  PROVE  FourHalve(a, b, c, d, x, y, z, w)
<1>1. \/ {a * x, b * y, c * z, d * w} \subseteq {-1, 1}
      \/ {a * x, b * y, c * z, d * w} \subseteq {-4, -2, 0, 2, 4}
  <2>1. CASE Odd4(a, b, c, d) /\ Odd4(x, y, z, w)
    <3>1. a \in {-1, 1} /\ b \in {-1, 1} /\ c \in {-1, 1} /\ d \in {-1, 1} BY <2>1 DEF Odd4
    <3>2. x \in {-1, 1} /\ y \in {-1, 1} /\ z \in {-1, 1} /\ w \in {-1, 1} BY <2>1 DEF Odd4
    <3>3. a * x \in {-1, 1} /\ b * y \in {-1, 1} /\ c * z \in {-1, 1} /\ d * w \in {-1, 1}
      BY <3>1, <3>2
    <3>4. QED BY <3>3
  <2>2. CASE Even4(a, b, c, d) \/ Even4(x, y, z, w)
    <3>1. ASSUME NEW m \in {-2, 0, 2}, NEW n \in {-2, -1, 0, 1, 2}
          PROVE  m * n \in {-4, -2, 0, 2, 4} /\ n * m \in {-4, -2, 0, 2, 4}
      OBVIOUS
    <3>2. /\ a \in {-2, -1, 0, 1, 2} /\ b \in {-2, -1, 0, 1, 2}
          /\ c \in {-2, -1, 0, 1, 2} /\ d \in {-2, -1, 0, 1, 2}
          /\ x \in {-2, -1, 0, 1, 2} /\ y \in {-2, -1, 0, 1, 2}
          /\ z \in {-2, -1, 0, 1, 2} /\ w \in {-2, -1, 0, 1, 2}
      BY DEF Odd4, Even4
    <3>3. \/ a \in {-2, 0, 2} /\ b \in {-2, 0, 2} /\ c \in {-2, 0, 2} /\ d \in {-2, 0, 2}
          \/ x \in {-2, 0, 2} /\ y \in {-2, 0, 2} /\ z \in {-2, 0, 2} /\ w \in {-2, 0, 2}
      BY <2>2 DEF Even4
    <3>4. /\ a * x \in {-4, -2, 0, 2, 4} /\ b * y \in {-4, -2, 0, 2, 4}
          /\ c * z \in {-4, -2, 0, 2, 4} /\ d * w \in {-4, -2, 0, 2, 4}
      BY <3>1, <3>2, <3>3
    <3>5. QED BY <3>4
  <2>3. QED BY <2>1, <2>2
<1>2. a * x \in Int /\ b * y \in Int /\ c * z \in Int /\ d * w \in Int OBVIOUS
<1> DEFINE p == a * x  q == b * y  r == c * z  s == d * w
<1>3. {p, q, r, s} \subseteq {-1, 1} \/ {p, q, r, s} \subseteq {-4, -2, 0, 2, 4} BY <1>1
<1>4. p \in Int /\ q \in Int /\ r \in Int /\ s \in Int BY <1>2
<1> HIDE DEF p, q, r, s
<1>5. IsEven(p - q + (r + s)) /\ IsEven(p - (q + r + s))
  <2>1. CASE {p, q, r, s} \subseteq {-1, 1}
    <3>1. p \in {-1, 1} /\ q \in {-1, 1} /\ r \in {-1, 1} /\ s \in {-1, 1} BY <2>1
    <3>2. QED BY <3>1 DEF IsEven
  <2>2. CASE {p, q, r, s} \subseteq {-4, -2, 0, 2, 4}
    <3>1. ASSUME NEW n \in {-4, -2, 0, 2, 4} PROVE \E k \in -2 .. 2 : n = 2 * k OBVIOUS
    <3>2. PICK i \in -2 .. 2, j \in -2 .. 2, k \in -2 .. 2, l \in -2 .. 2 :
            p = 2 * i /\ q = 2 * j /\ r = 2 * k /\ s = 2 * l
      BY <2>2, <3>1
    <3>3. QED BY <3>2 DEF IsEven
  <2>3. QED BY <1>3, <2>1, <2>2
<1>6. QED BY <1>5 DEF FourHalve, p, q, r, s

-----------------------------------------------------------------------------
(* R is four times the matrix of the rotation by these numbers.            *)

FourTimes(R, x, y, z, w) ==
  /\ 4 * R[1][1] = w * w + x * x - y * y - z * z
  /\ 4 * R[1][2] = 2 * (x * y + z * w)
  /\ 4 * R[1][3] = 2 * (x * z - y * w)
  /\ 4 * R[2][1] = 2 * (x * y - z * w)
  /\ 4 * R[2][2] = w * w - x * x + y * y - z * z
  /\ 4 * R[2][3] = 2 * (y * z + x * w)
  /\ 4 * R[3][1] = 2 * (x * z + y * w)
  /\ 4 * R[3][2] = 2 * (y * z - x * w)
  /\ 4 * R[3][3] = w * w - x * x - y * y + z * z

RotationTable(q) == [i \in Axes |-> RotationRow(q, i)]

LEMMA RowEntries ==
  ASSUME NEW q, NEW x, NEW y, NEW z, NEW w,
         x = q.v[1], y = q.v[2], z = q.v[3], w = q.s
  PROVE  /\ RotationTable(q)[1][1] = (2 - y * y - z * z) \div 2
         /\ RotationTable(q)[2][2] = (2 - z * z - x * x) \div 2
         /\ RotationTable(q)[3][3] = (2 - x * x - y * y) \div 2
         /\ RotationTable(q)[1][2] = (x * y + 1 * z * w) \div 2
         /\ RotationTable(q)[1][3] = (x * z + (-1) * y * w) \div 2
         /\ RotationTable(q)[2][1] = (y * x + (-1) * z * w) \div 2
         /\ RotationTable(q)[2][3] = (y * z + 1 * x * w) \div 2
         /\ RotationTable(q)[3][1] = (z * x + 1 * y * w) \div 2
         /\ RotationTable(q)[3][2] = (z * y + (-1) * x * w) \div 2
<1>1. \A i, j \in Axes : RotationTable(q)[i][j] = RotationRow(q, i)[j] BY DEF RotationTable
<1>2. \A i \in Axes : RotationRow(q, i)[i]
        = (2 - q.v[AxisAfter(i)] * q.v[AxisAfter(i)]
             - q.v[AxisAfter(AxisAfter(i))] * q.v[AxisAfter(AxisAfter(i))]) \div 2
  BY DEF RotationRow
<1>3. \A i, j \in Axes : i # j => RotationRow(q, i)[j]
        = (q.v[i] * q.v[j] + (IF j = AxisAfter(i) THEN 1 ELSE -1) * q.v[6 - i - j] * q.s) \div 2
  BY DEF RotationRow
<1>4. 6 - 1 - 2 = 3 /\ 6 - 1 - 3 = 2 /\ 6 - 2 - 1 = 3 /\ 6 - 2 - 3 = 1 /\ 6 - 3 - 1 = 2
      /\ 6 - 3 - 2 = 1
  OBVIOUS
<1>5. /\ RotationRow(q, 1)[1] = (2 - y * y - z * z) \div 2
      /\ RotationRow(q, 2)[2] = (2 - z * z - x * x) \div 2
      /\ RotationRow(q, 3)[3] = (2 - x * x - y * y) \div 2
  BY <1>2, AxesAre
<1>6. /\ RotationRow(q, 1)[2] = (x * y + 1 * z * w) \div 2
      /\ RotationRow(q, 1)[3] = (x * z + (-1) * y * w) \div 2
  BY <1>3, <1>4, AxesAre
<1>7. /\ RotationRow(q, 2)[1] = (y * x + (-1) * z * w) \div 2
      /\ RotationRow(q, 2)[3] = (y * z + 1 * x * w) \div 2
  BY <1>3, <1>4, AxesAre
<1>8. /\ RotationRow(q, 3)[1] = (z * x + 1 * y * w) \div 2
      /\ RotationRow(q, 3)[2] = (z * y + (-1) * x * w) \div 2
  BY <1>3, <1>4, AxesAre
<1>9. QED BY <1>1, <1>5, <1>6, <1>7, <1>8, AxesAre

RowHalves(a, b, c, d) ==
  /\ 2 * ((2 - a * a - b * b) \div 2) = 2 - a * a - b * b
  /\ 2 * ((a * b + 1 * c * d) \div 2) = a * b + c * d
  /\ 2 * ((a * b + (-1) * c * d) \div 2) = a * b - c * d

LEMMA RowsHalve ==
  ASSUME NEW a \in Int, NEW b \in Int, NEW c \in Int, NEW d \in Int,
         Odd4(a, b, c, d) \/ Even4(a, b, c, d)
  PROVE  RowHalves(a, b, c, d)
<1>1. IsEven(a * a + b * b) /\ IsEven(a * b + c * d) /\ IsEven(a * b - c * d)
  BY ProductsAlike
<1>2. a * a + b * b \in Int /\ 2 - a * a - b * b = 2 - (a * a + b * b) OBVIOUS
<1>3. ASSUME NEW n, IsEven(n) PROVE 2 * ((2 - n) \div 2) = 2 - n BY <1>3 DEF IsEven
<1>4. 2 * ((2 - (a * a + b * b)) \div 2) = 2 - (a * a + b * b) BY <1>1, <1>3
<1>5. a * b + 1 * c * d = a * b + c * d /\ a * b + (-1) * c * d = a * b - c * d OBVIOUS
<1>6. QED BY <1>1, <1>2, <1>4, <1>5 DEF IsEven, RowHalves

LEMMA TurnFourTimes ==
  ASSUME NEW q \in Rotations
  PROVE  RotationTable(q) \in Table /\ FourTimes(RotationTable(q), q.v[1], q.v[2], q.v[3], q.s)
<1> DEFINE x == q.v[1]  y == q.v[2]  z == q.v[3]  w == q.s  R == RotationTable(q)
<1>1. /\ x \in Int /\ y \in Int /\ z \in Int /\ w \in Int
      /\ x * x + y * y + z * z + w * w = 4
      /\ Odd4(x, y, z, w) \/ Even4(x, y, z, w)
  BY RotationNumbers
<1>2. R \in Table
  <2>1. q.v \in Vec /\ q.s \in Int BY RotationNumbers
  <2>2. ASSUME NEW i \in Axes PROVE RotationRow(q, i) \in Vec
    <3>1. \A j \in Axes : q.v[j] \in Int /\ AxisAfter(j) \in Axes
      BY <2>1, AxesAre DEF Vec
    <3>2. ASSUME NEW j \in Axes, i # j PROVE 6 - i - j \in Axes BY <3>2, AxesAre
    <3>3. ASSUME NEW j \in Axes PROVE RotationRow(q, i)[j] \in Int
      BY <2>1, <3>1, <3>2 DEF RotationRow
    <3>4. RotationRow(q, i) = [j \in Axes |-> RotationRow(q, i)[j]] BY DEF RotationRow
    <3>5. QED BY <3>3, <3>4 DEF Vec
  <2>3. QED BY <2>2 DEF RotationTable, Table
<1>3. /\ R[1][1] = (2 - y * y - z * z) \div 2
      /\ R[2][2] = (2 - z * z - x * x) \div 2
      /\ R[3][3] = (2 - x * x - y * y) \div 2
      /\ R[1][2] = (x * y + 1 * z * w) \div 2
      /\ R[1][3] = (x * z + (-1) * y * w) \div 2
      /\ R[2][1] = (y * x + (-1) * z * w) \div 2
      /\ R[2][3] = (y * z + 1 * x * w) \div 2
      /\ R[3][1] = (z * x + 1 * y * w) \div 2
      /\ R[3][2] = (z * y + (-1) * x * w) \div 2
  BY RowEntries
<1> HIDE DEF x, y, z, w, R
<1>4. /\ Odd4(x, y, z, w) \/ Even4(x, y, z, w)
      /\ Odd4(y, z, x, w) \/ Even4(y, z, x, w)
      /\ Odd4(z, x, y, w) \/ Even4(z, x, y, w)
      /\ Odd4(y, x, z, w) \/ Even4(y, x, z, w)
      /\ Odd4(x, z, y, w) \/ Even4(x, z, y, w)
      /\ Odd4(z, y, x, w) \/ Even4(z, y, x, w)
  BY <1>1 DEF Odd4, Even4
<1>5. /\ RowHalves(x, y, z, w) /\ RowHalves(y, z, x, w) /\ RowHalves(z, x, y, w)
      /\ RowHalves(y, x, z, w) /\ RowHalves(x, z, y, w) /\ RowHalves(z, y, x, w)
  BY <1>1, <1>4, RowsHalve
<1>6. /\ 2 * R[1][1] = 2 - y * y - z * z /\ 2 * R[2][2] = 2 - z * z - x * x
      /\ 2 * R[3][3] = 2 - x * x - y * y
  BY <1>3, <1>5 DEF RowHalves
<1>7. /\ 2 * R[1][2] = x * y + z * w /\ 2 * R[2][1] = y * x - z * w
      /\ 2 * R[2][3] = y * z + x * w
  BY <1>3, <1>5 DEF RowHalves
<1>8. /\ 2 * R[3][1] = z * x + y * w /\ 2 * R[1][3] = x * z - y * w
      /\ 2 * R[3][2] = z * y - x * w
  BY <1>3, <1>5 DEF RowHalves
<1>9. /\ R[1][1] \in Int /\ R[1][2] \in Int /\ R[1][3] \in Int
      /\ R[2][1] \in Int /\ R[2][2] \in Int /\ R[2][3] \in Int
      /\ R[3][1] \in Int /\ R[3][2] \in Int /\ R[3][3] \in Int
  BY <1>2, AxesAre DEF Table, Vec
<1>10. /\ x * x \in Int /\ y * y \in Int /\ z * z \in Int /\ w * w \in Int
       /\ x * y \in Int /\ x * z \in Int /\ x * w \in Int /\ y * z \in Int /\ y * w \in Int
       /\ z * w \in Int /\ y * x = x * y /\ z * x = x * z /\ z * y = y * z
  BY <1>1
<1>11. /\ 4 * R[1][1] = w * w + x * x - y * y - z * z
       /\ 4 * R[2][2] = w * w - x * x + y * y - z * z
       /\ 4 * R[3][3] = w * w - x * x - y * y + z * z
  <2> DEFINE a == R[1][1]  b == R[2][2]  c == R[3][3]
  <2>1. a \in Int /\ b \in Int /\ c \in Int BY <1>9
  <2>2. /\ 2 * a = 2 - y * y - z * z /\ 2 * b = 2 - z * z - x * x /\ 2 * c = 2 - x * x - y * y
    BY <1>6
  <2> HIDE DEF a, b, c
  <2>3. 4 * a = w * w + x * x - y * y - z * z BY <1>1, <2>1, <2>2
  <2>4. 4 * b = w * w - x * x + y * y - z * z BY <1>1, <2>1, <2>2
  <2>5. 4 * c = w * w - x * x - y * y + z * z BY <1>1, <2>1, <2>2
  <2>6. QED BY <2>3, <2>4, <2>5 DEF a, b, c
<1>12. /\ 4 * R[1][2] = 2 * (x * y + z * w) /\ 4 * R[2][1] = 2 * (x * y - z * w)
       /\ 4 * R[2][3] = 2 * (y * z + x * w)
  BY <1>7, <1>9, <1>10
<1>13. /\ 4 * R[3][1] = 2 * (x * z + y * w) /\ 4 * R[1][3] = 2 * (x * z - y * w)
       /\ 4 * R[3][2] = 2 * (y * z - x * w)
  BY <1>8, <1>9, <1>10
<1>14. FourTimes(R, x, y, z, w) BY <1>11, <1>12, <1>13 DEF FourTimes
<1>15. QED BY <1>2, <1>14 DEF x, y, z, w, R

(* One after the other, in matrices.                                       *)
Product(A, B) == [i \in Axes |-> [j \in Axes |->
                    A[i][1] * B[1][j] + A[i][2] * B[2][j] + A[i][3] * B[3][j]]]

SixteenthOf(c, p, q, r, x, y, z) ==
  /\ c \in Int /\ p \in Int /\ q \in Int /\ r \in Int /\ x \in Int /\ y \in Int /\ z \in Int
  /\ 16 * c = (4 * p) * (4 * x) + (4 * q) * (4 * y) + (4 * r) * (4 * z)

LEMMA Sixteenth ==
  ASSUME NEW c, NEW p, NEW q, NEW r, NEW x, NEW y, NEW z,
         SixteenthOf(c, p, q, r, x, y, z)
  PROVE  c = p * x + q * y + r * z
BY DEF SixteenthOf

LEMMA ProductNumbers ==
  ASSUME NEW A \in Table, NEW B \in Table, NEW C \in Table,
         NEW a \in Int, NEW b \in Int, NEW c \in Int, NEW d \in Int,
         NEW x \in Int, NEW y \in Int, NEW z \in Int, NEW w \in Int,
         NEW p \in Int, NEW q \in Int, NEW r \in Int, NEW s \in Int,
         FourTimes(A, a, b, c, d), FourTimes(B, x, y, z, w), FourTimes(C, p, q, r, s),
         2 * p = y * c - z * b + a * w + x * d,
         2 * q = z * a - x * c + b * w + y * d,
         2 * r = x * b - y * a + c * w + z * d,
         2 * s = w * d - (x * a + y * b + z * c)
  PROVE  C = Product(A, B)
<1> DEFINE P == 2 * p  Q == 2 * q  R == 2 * r  S == 2 * s
<1>1. P \in Int /\ Q \in Int /\ R \in Int /\ S \in Int OBVIOUS
<1>2. /\ P = y * c - z * b + a * w + x * d /\ Q = z * a - x * c + b * w + y * d
      /\ R = x * b - y * a + c * w + z * d /\ S = w * d - (x * a + y * b + z * c)
  OBVIOUS
<1>3. \A i, j \in Axes : A[i][j] \in Int /\ B[i][j] \in Int /\ C[i][j] \in Int
  BY DEF Table, Vec
<1>4. /\ C[1][1] \in Int /\ C[1][2] \in Int /\ C[1][3] \in Int
      /\ C[2][1] \in Int /\ C[2][2] \in Int /\ C[2][3] \in Int
      /\ C[3][1] \in Int /\ C[3][2] \in Int /\ C[3][3] \in Int
  BY <1>3, AxesAre
<1>5. /\ P * P = 4 * (p * p) /\ Q * Q = 4 * (q * q) /\ R * R = 4 * (r * r) /\ S * S = 4 * (s * s)
      /\ P * Q = 4 * (p * q) /\ P * R = 4 * (p * r) /\ P * S = 4 * (p * s)
      /\ Q * R = 4 * (q * r) /\ Q * S = 4 * (q * s) /\ R * S = 4 * (r * s)
      /\ p * p \in Int /\ q * q \in Int /\ r * r \in Int /\ s * s \in Int
      /\ p * q \in Int /\ p * r \in Int /\ p * s \in Int
      /\ q * r \in Int /\ q * s \in Int /\ r * s \in Int
  OBVIOUS
<1> HIDE DEF P, Q, R, S
<1>6. /\ 16 * C[1][1] = S * S + P * P - Q * Q - R * R
      /\ 16 * C[2][2] = S * S - P * P + Q * Q - R * R
      /\ 16 * C[3][3] = S * S - P * P - Q * Q + R * R
  <2> DEFINE f == C[1][1]  g == C[2][2]  h == C[3][3]
  <2>1. f \in Int /\ g \in Int /\ h \in Int BY <1>4
  <2>2. /\ 4 * f = s * s + p * p - q * q - r * r /\ 4 * g = s * s - p * p + q * q - r * r
        /\ 4 * h = s * s - p * p - q * q + r * r
    BY DEF FourTimes
  <2> HIDE DEF f, g, h
  <2>3. 16 * f = S * S + P * P - Q * Q - R * R BY <1>1, <1>5, <2>1, <2>2
  <2>4. 16 * g = S * S - P * P + Q * Q - R * R BY <1>1, <1>5, <2>1, <2>2
  <2>5. 16 * h = S * S - P * P - Q * Q + R * R BY <1>1, <1>5, <2>1, <2>2
  <2>6. QED BY <2>3, <2>4, <2>5 DEF f, g, h
<1>7. /\ 16 * C[1][2] = 2 * (P * Q + R * S) /\ 16 * C[2][1] = 2 * (P * Q - R * S)
  <2> DEFINE f == C[1][2]  g == C[2][1]
  <2>1. f \in Int /\ g \in Int BY <1>4
  <2>2. 4 * f = 2 * (p * q + r * s) /\ 4 * g = 2 * (p * q - r * s) BY DEF FourTimes
  <2> HIDE DEF f, g
  <2>3. 16 * f = 2 * (P * Q + R * S) /\ 16 * g = 2 * (P * Q - R * S) BY <1>1, <1>5, <2>1, <2>2
  <2>4. QED BY <2>3 DEF f, g
<1>8. /\ 16 * C[1][3] = 2 * (P * R - Q * S) /\ 16 * C[3][1] = 2 * (P * R + Q * S)
  <2> DEFINE f == C[1][3]  g == C[3][1]
  <2>1. f \in Int /\ g \in Int BY <1>4
  <2>2. 4 * f = 2 * (p * r - q * s) /\ 4 * g = 2 * (p * r + q * s) BY DEF FourTimes
  <2> HIDE DEF f, g
  <2>3. 16 * f = 2 * (P * R - Q * S) /\ 16 * g = 2 * (P * R + Q * S) BY <1>1, <1>5, <2>1, <2>2
  <2>4. QED BY <2>3 DEF f, g
<1>9. /\ 16 * C[2][3] = 2 * (Q * R + P * S) /\ 16 * C[3][2] = 2 * (Q * R - P * S)
  <2> DEFINE f == C[2][3]  g == C[3][2]
  <2>1. f \in Int /\ g \in Int BY <1>4
  <2>2. 4 * f = 2 * (q * r + p * s) /\ 4 * g = 2 * (q * r - p * s) BY DEF FourTimes
  <2> HIDE DEF f, g
  <2>3. 16 * f = 2 * (Q * R + P * S) /\ 16 * g = 2 * (Q * R - P * S) BY <1>1, <1>5, <2>1, <2>2
  <2>4. QED BY <2>3 DEF f, g
<1>10. ASSUME NEW i \in Axes, NEW j \in Axes
      PROVE  16 * C[i][j] = (4 * A[i][1]) * (4 * B[1][j]) + (4 * A[i][2]) * (4 * B[2][j])
                              + (4 * A[i][3]) * (4 * B[3][j])
  <2>1. CASE i = 1 /\ j = 1 BY <1>1, <1>2, <1>6, <1>7, <1>8, <1>9, <2>1 DEF FourTimes
  <2>2. CASE i = 1 /\ j = 2 BY <1>1, <1>2, <1>6, <1>7, <1>8, <1>9, <2>2 DEF FourTimes
  <2>3. CASE i = 1 /\ j = 3 BY <1>1, <1>2, <1>6, <1>7, <1>8, <1>9, <2>3 DEF FourTimes
  <2>4. CASE i = 2 /\ j = 1 BY <1>1, <1>2, <1>6, <1>7, <1>8, <1>9, <2>4 DEF FourTimes
  <2>5. CASE i = 2 /\ j = 2 BY <1>1, <1>2, <1>6, <1>7, <1>8, <1>9, <2>5 DEF FourTimes
  <2>6. CASE i = 2 /\ j = 3 BY <1>1, <1>2, <1>6, <1>7, <1>8, <1>9, <2>6 DEF FourTimes
  <2>7. CASE i = 3 /\ j = 1 BY <1>1, <1>2, <1>6, <1>7, <1>8, <1>9, <2>7 DEF FourTimes
  <2>8. CASE i = 3 /\ j = 2 BY <1>1, <1>2, <1>6, <1>7, <1>8, <1>9, <2>8 DEF FourTimes
  <2>9. CASE i = 3 /\ j = 3 BY <1>1, <1>2, <1>6, <1>7, <1>8, <1>9, <2>9 DEF FourTimes
  <2>10. QED BY <2>1, <2>2, <2>3, <2>4, <2>5, <2>6, <2>7, <2>8, <2>9, AxesAre
<1>11. ASSUME NEW i \in Axes, NEW j \in Axes
      PROVE  C[i][j] = A[i][1] * B[1][j] + A[i][2] * B[2][j] + A[i][3] * B[3][j]
  <2>1. /\ A[i][1] \in Int /\ A[i][2] \in Int /\ A[i][3] \in Int
        /\ B[1][j] \in Int /\ B[2][j] \in Int /\ B[3][j] \in Int /\ C[i][j] \in Int
    BY <1>3, AxesAre
  <2>2. SixteenthOf(C[i][j], A[i][1], A[i][2], A[i][3], B[1][j], B[2][j], B[3][j])
    BY <1>10, <2>1 DEF SixteenthOf
  <2>3. QED BY <2>2, Sixteenth
<1>12. C = [i \in Axes |-> [j \in Axes |-> C[i][j]]] BY DEF Table, Vec
<1>13. QED BY <1>11, <1>12 DEF Product

(* A quaternion's product is one, and its matrix is the matrices' product. *)
LEMMA QuaternionEntries ==
  ASSUME NEW l \in Rotations, NEW m \in Rotations, NEW n, n = quatf_mul(l, m),
         NEW a, NEW b, NEW c, NEW d, NEW x, NEW y, NEW z, NEW w,
         a = m.v[1], b = m.v[2], c = m.v[3], d = m.s,
         x = l.v[1], y = l.v[2], z = l.v[3], w = l.s
  PROVE  /\ n = Quaternion(n.v, n.s) /\ n.v \in Vec /\ n.s \in Int
         /\ n.v[1] = (y * c - z * b + (a * w + x * d)) \div 2
         /\ n.v[2] = (z * a - x * c + (b * w + y * d)) \div 2
         /\ n.v[3] = (x * b - y * a + (c * w + z * d)) \div 2
         /\ n.s = (w * d - (x * a + y * b + z * c)) \div 2
<1> DEFINE V == Add(Cross(l.v, m.v), Add(Scaled(m.v, l.s), Scaled(l.v, m.s)))
<1>1. l.v \in Vec /\ m.v \in Vec /\ l.s \in Int /\ m.s \in Int BY RotationNumbers
<1>2. n = Quaternion(Halved(V), (l.s * m.s - Dot(l.v, m.v)) \div 2) BY DEF quatf_mul
<1>3. Scaled(m.v, l.s) \in Vec /\ Scaled(l.v, m.s) \in Vec /\ Cross(l.v, m.v) \in Vec
  BY <1>1, ScaledEntries, CrossEntries
<1> DEFINE U == Add(Scaled(m.v, l.s), Scaled(l.v, m.s))
<1>4. /\ U \in Vec /\ U[1] = a * w + x * d /\ U[2] = b * w + y * d /\ U[3] = c * w + z * d
  <2>1. Scaled(m.v, l.s)[1] = a * w /\ Scaled(m.v, l.s)[2] = b * w /\ Scaled(m.v, l.s)[3] = c * w
    BY <1>1, ScaledEntries
  <2>2. Scaled(l.v, m.s)[1] = x * d /\ Scaled(l.v, m.s)[2] = y * d /\ Scaled(l.v, m.s)[3] = z * d
    BY <1>1, ScaledEntries
  <2>3. QED BY <1>3, <2>1, <2>2, AddEntries
<1>5. /\ V \in Vec
      /\ V[1] = y * c - z * b + (a * w + x * d)
      /\ V[2] = z * a - x * c + (b * w + y * d)
      /\ V[3] = x * b - y * a + (c * w + z * d)
  <2>1. V = Add(Cross(l.v, m.v), U) OBVIOUS
  <2> HIDE DEF U, V
  <2>2. QED BY <1>1, <1>3, <1>4, <2>1, AddEntries, CrossEntries
<1> HIDE DEF U, V
<1>6. /\ Halved(V) \in Vec /\ Halved(V)[1] = V[1] \div 2 /\ Halved(V)[2] = V[2] \div 2
      /\ Halved(V)[3] = V[3] \div 2
  BY <1>5, HalvedEntries
<1>7. Dot(l.v, m.v) = x * a + y * b + z * c BY <1>1, DotIs
<1>8. l.s * m.s - Dot(l.v, m.v) \in Int BY <1>1, DotIs
<1>9. n.v = Halved(V) /\ n.s = (w * d - (x * a + y * b + z * c)) \div 2
  BY <1>2, <1>7 DEF Quaternion
<1>10. n.s \in Int BY <1>2, <1>8 DEF Quaternion
<1>11. n = Quaternion(n.v, n.s) BY <1>2 DEF Quaternion
<1>12. QED BY <1>5, <1>6, <1>9, <1>10, <1>11

LEMMA MulRotations ==
  ASSUME NEW l \in Rotations, NEW m \in Rotations
  PROVE  /\ quatf_mul(l, m) \in Rotations
         /\ RotationTable(quatf_mul(l, m)) = Product(RotationTable(m), RotationTable(l))
<1> DEFINE n == quatf_mul(l, m)
           a == m.v[1]  b == m.v[2]  c == m.v[3]  d == m.s
           x == l.v[1]  y == l.v[2]  z == l.v[3]  w == l.s
           p == n.v[1]  q == n.v[2]  r == n.v[3]  s == n.s
<1>1. /\ m.v \in Vec /\ d \in Int /\ a * a + b * b + c * c + d * d = 4
      /\ Odd4(a, b, c, d) \/ Even4(a, b, c, d)
      /\ l.v \in Vec /\ w \in Int /\ x * x + y * y + z * z + w * w = 4
      /\ Odd4(x, y, z, w) \/ Even4(x, y, z, w)
  BY RotationNumbers
<1>2. /\ a \in Int /\ b \in Int /\ c \in Int /\ d \in Int
      /\ a * a + b * b + c * c + d * d = 4
      /\ Odd4(a, b, c, d) \/ Even4(a, b, c, d)
  BY <1>1, VecParts
<1>3. /\ x \in Int /\ y \in Int /\ z \in Int /\ w \in Int
      /\ x * x + y * y + z * z + w * w = 4
      /\ Odd4(x, y, z, w) \/ Even4(x, y, z, w)
  BY <1>1, VecParts
<1>4. /\ n = Quaternion(n.v, n.s) /\ n.v \in Vec /\ s \in Int
      /\ p = (y * c - z * b + (a * w + x * d)) \div 2
      /\ q = (z * a - x * c + (b * w + y * d)) \div 2
      /\ r = (x * b - y * a + (c * w + z * d)) \div 2
      /\ s = (w * d - (x * a + y * b + z * c)) \div 2
  <2> HIDE DEF n
  <2>1. n = quatf_mul(l, m) BY DEF n
  <2>2. QED BY <2>1, QuaternionEntries
<1>5. p \in Int /\ q \in Int /\ r \in Int /\ s \in Int BY <1>4, AxesAre DEF Vec
<1>6. /\ FourTimes(RotationTable(m), a, b, c, d) /\ FourTimes(RotationTable(l), x, y, z, w)
      /\ RotationTable(m) \in Table /\ RotationTable(l) \in Table
  BY TurnFourTimes
<1>7. n \in Rotations => FourTimes(RotationTable(n), p, q, r, s) /\ RotationTable(n) \in Table
  <2> HIDE DEF n
  <2>1. QED BY TurnFourTimes
<1>8. p * p + q * q + r * r + s * s = 4 => n \in Rotations
  <2> HIDE DEF n
  <2>1. QED BY <1>4, IsRotation
<1> HIDE DEF n, a, b, c, d, x, y, z, w, p, q, r, s
<1>9. /\ Odd4(y, z, w, x) \/ Even4(y, z, w, x)
      /\ Odd4(z, x, w, y) \/ Even4(z, x, w, y)
      /\ Odd4(x, y, w, z) \/ Even4(x, y, w, z)
      /\ Odd4(w, x, y, z) \/ Even4(w, x, y, z)
  BY <1>3 DEF Odd4, Even4
<1>10. /\ Odd4(c, b, a, d) \/ Even4(c, b, a, d)
       /\ Odd4(a, c, b, d) \/ Even4(a, c, b, d)
       /\ Odd4(b, a, c, d) \/ Even4(b, a, c, d)
       /\ Odd4(d, a, b, c) \/ Even4(d, a, b, c)
  BY <1>2 DEF Odd4, Even4
<1>11. IsEven(y * c - z * b + (w * a + x * d))
  <2>1. FourHalve(y, z, w, x, c, b, a, d) BY <1>2, <1>3, <1>9, <1>10, FourProducts
  <2>2. QED BY <2>1 DEF FourHalve
<1>12. IsEven(z * a - x * c + (w * b + y * d))
  <2>1. FourHalve(z, x, w, y, a, c, b, d) BY <1>2, <1>3, <1>9, <1>10, FourProducts
  <2>2. QED BY <2>1 DEF FourHalve
<1>13. IsEven(x * b - y * a + (w * c + z * d))
  <2>1. FourHalve(x, y, w, z, b, a, c, d) BY <1>2, <1>3, <1>9, <1>10, FourProducts
  <2>2. QED BY <2>1 DEF FourHalve
<1>14. IsEven(w * d - (x * a + y * b + z * c))
  <2>1. FourHalve(w, x, y, z, d, a, b, c) BY <1>2, <1>3, <1>9, <1>10, FourProducts
  <2>2. QED BY <2>1 DEF FourHalve
<1>15. w * a = a * w /\ w * b = b * w /\ w * c = c * w BY <1>2, <1>3
<1>16. /\ 2 * p = y * c - z * b + (a * w + x * d)
       /\ 2 * q = z * a - x * c + (b * w + y * d)
       /\ 2 * r = x * b - y * a + (c * w + z * d)
       /\ 2 * s = w * d - (x * a + y * b + z * c)
  BY <1>4, <1>11, <1>12, <1>13, <1>14, <1>15 DEF IsEven
<1>17. p * p + q * q + r * r + s * s = 4
  <2> DEFINE P == 2 * p  Q == 2 * q  R == 2 * r  S == 2 * s
  <2>1. P * P + Q * Q + R * R + S * S
        = (a * a + b * b + c * c + d * d) * (x * x + y * y + z * z + w * w)
    <3>1. P * P + Q * Q + R * R + S * S
          = (y * c - z * b + (a * w + x * d)) * (y * c - z * b + (a * w + x * d))
            + (z * a - x * c + (b * w + y * d)) * (z * a - x * c + (b * w + y * d))
            + (x * b - y * a + (c * w + z * d)) * (x * b - y * a + (c * w + z * d))
            + (w * d - (x * a + y * b + z * c)) * (w * d - (x * a + y * b + z * c))
      BY <1>16
    <3>2. QED BY <1>2, <1>3, <3>1, SMTT(30)
  <2>2. P * P + Q * Q + R * R + S * S = 16 BY <1>2, <1>3, <2>1
  <2>3. P * P + Q * Q + R * R + S * S = 4 * (p * p + q * q + r * r + s * s) BY <1>5
  <2>4. p * p + q * q + r * r + s * s \in Int BY <1>5
  <2>5. QED BY <2>2, <2>3, <2>4
<1>18. n \in Rotations BY <1>8, <1>17
<1>19. FourTimes(RotationTable(n), p, q, r, s) /\ RotationTable(n) \in Table BY <1>7, <1>18
<1>20. /\ 2 * p = y * c - z * b + a * w + x * d
       /\ 2 * q = z * a - x * c + b * w + y * d
       /\ 2 * r = x * b - y * a + c * w + z * d
  BY <1>2, <1>3, <1>16
<1>21. RotationTable(n) = Product(RotationTable(m), RotationTable(l))
  BY <1>2, <1>3, <1>5, <1>6, <1>16, <1>19, <1>20, ProductNumbers
<1>22. QED BY <1>18, <1>21 DEF n

-----------------------------------------------------------------------------
(* Turning a point by a quaternion is multiplying it with the matrix.      *)

RowTimes(v, A) == [j \in Axes |-> v[1] * A[1][j] + v[2] * A[2][j] + v[3] * A[3][j]]

LEMMA TableEntries ==
  ASSUME NEW A \in Table
  PROVE  /\ A[1][1] \in Int /\ A[1][2] \in Int /\ A[1][3] \in Int
         /\ A[2][1] \in Int /\ A[2][2] \in Int /\ A[2][3] \in Int
         /\ A[3][1] \in Int /\ A[3][2] \in Int /\ A[3][3] \in Int
<1>1. \A i, j \in Axes : A[i][j] \in Int BY DEF Table, Vec
<1>2. QED BY <1>1, AxesAre

(* One entry of it: n, of the point k, l, m, with the column p, q, r.       *)
OneTurned(k, l, m, a, b, c, d, p, q, r, n) ==
  /\ a * a + b * b + c * c + d * d = 4
  /\ 4 * p = d * d + a * a - b * b - c * c
  /\ 4 * q = 2 * (a * b - c * d)
  /\ 4 * r = 2 * (a * c + b * d)
  /\ n = (b * m - c * l) * d + (b * (a * l - b * k) - c * (c * k - a * m))

TurnedTo(k, l, m, p, q, r, n) == k + (n \div 2) = k * p + l * q + m * r

LEMMA TurnedNumbers ==
  ASSUME NEW k \in Int, NEW l \in Int, NEW m \in Int,
         NEW a \in Int, NEW b \in Int, NEW c \in Int, NEW d \in Int,
         NEW p \in Int, NEW q \in Int, NEW r \in Int,
         NEW n, OneTurned(k, l, m, a, b, c, d, p, q, r, n)
  PROVE  TurnedTo(k, l, m, p, q, r, n)
<1>1. n \in Int /\ 4 * k + 2 * n = k * (4 * p) + l * (4 * q) + m * (4 * r)
  <2>1. 4 * k = k * (a * a + b * b + c * c + d * d) BY DEF OneTurned
  <2>2. k * (a * a + b * b + c * c + d * d) + 2 * n
        = k * (d * d + a * a - b * b - c * c) + l * (2 * (a * b - c * d))
          + m * (2 * (a * c + b * d))
    BY DEF OneTurned
  <2>3. QED BY <2>1, <2>2 DEF OneTurned
<1>2. k * p \in Int /\ l * q \in Int /\ m * r \in Int OBVIOUS
<1>3. k * (4 * p) = 4 * (k * p) /\ l * (4 * q) = 4 * (l * q) /\ m * (4 * r) = 4 * (m * r) OBVIOUS
<1>4. n = 2 * (k * p + l * q + m * r - k) BY <1>1, <1>2, <1>3
<1>5. QED BY <1>2, <1>4 DEF TurnedTo

LEMMA Turned ==
  ASSUME NEW h \in Rotations, NEW v \in Vec
  PROVE  /\ quatf_rotate_vec(h, v) \in Vec
         /\ quatf_rotate_vec(h, v) = RowTimes(v, RotationTable(h))
<1> DEFINE a == h.v[1]  b == h.v[2]  c == h.v[3]  d == h.s
           k == v[1]  l == v[2]  m == v[3]
           T == Cross(h.v, v)
           U == Cross(h.v, T)
           N == Add(Scaled(T, d), U)
           R == RotationTable(h)
<1>1. /\ h.v \in Vec /\ d \in Int /\ a * a + b * b + c * c + d * d = 4 BY RotationNumbers
<1>2. a \in Int /\ b \in Int /\ c \in Int /\ k \in Int /\ l \in Int /\ m \in Int
  BY <1>1, VecParts
<1>3. T \in Vec /\ T[1] = b * m - c * l /\ T[2] = c * k - a * m /\ T[3] = a * l - b * k
  BY <1>1, CrossEntries
<1>4. /\ Scaled(T, d) \in Vec /\ Scaled(T, d)[1] = T[1] * d /\ Scaled(T, d)[2] = T[2] * d
      /\ Scaled(T, d)[3] = T[3] * d
  <2> HIDE DEF T, d
  <2>1. QED BY <1>1, <1>3, ScaledEntries
<1>5. /\ U \in Vec /\ U[1] = b * T[3] - c * T[2] /\ U[2] = c * T[1] - a * T[3]
      /\ U[3] = a * T[2] - b * T[1]
  <2> HIDE DEF T
  <2>1. QED BY <1>1, <1>3, CrossEntries
<1>6. /\ N \in Vec /\ N[1] = T[1] * d + U[1] /\ N[2] = T[2] * d + U[2] /\ N[3] = T[3] * d + U[3]
  <2> HIDE DEF T, U
  <2>1. QED BY <1>4, <1>5, AddEntries
<1>7. quatf_rotate_vec(h, v) = Add(v, Halved(N)) BY DEF quatf_rotate_vec
<1>8. R \in Table /\ FourTimes(R, a, b, c, d) BY TurnFourTimes
<1> HIDE DEF N, T, U, R
<1>9. /\ Halved(N) \in Vec /\ Halved(N)[1] = N[1] \div 2 /\ Halved(N)[2] = N[2] \div 2
      /\ Halved(N)[3] = N[3] \div 2
  BY <1>6, HalvedEntries
<1>10. /\ Add(v, Halved(N)) \in Vec
       /\ Add(v, Halved(N))[1] = k + (N[1] \div 2) /\ Add(v, Halved(N))[2] = l + (N[2] \div 2)
       /\ Add(v, Halved(N))[3] = m + (N[3] \div 2)
  BY <1>9, AddEntries
<1> HIDE DEF a, b, c, d, k, l, m
<1>11. k + (N[1] \div 2) = k * R[1][1] + l * R[2][1] + m * R[3][1]
  <2>1. 4 * R[1][1] = d * d + a * a - b * b - c * c /\ 4 * R[2][1] = 2 * (a * b - c * d)
        /\ 4 * R[3][1] = 2 * (a * c + b * d)
    BY <1>8 DEF FourTimes
  <2>2. N[1] = (b * m - c * l) * d + (b * (a * l - b * k) - c * (c * k - a * m))
    BY <1>3, <1>5, <1>6
  <2>3. R[1][1] \in Int /\ R[2][1] \in Int /\ R[3][1] \in Int BY <1>8, TableEntries
  <2>4. OneTurned(k, l, m, a, b, c, d, R[1][1], R[2][1], R[3][1], N[1])
    BY <1>1, <2>1, <2>2 DEF OneTurned
  <2>5. TurnedTo(k, l, m, R[1][1], R[2][1], R[3][1], N[1])
    BY <1>1, <1>2, <2>3, <2>4, TurnedNumbers
  <2>6. QED BY <2>5 DEF TurnedTo
<1>12. l + (N[2] \div 2) = k * R[1][2] + l * R[2][2] + m * R[3][2]
  <2>1. 4 * R[2][2] = d * d + b * b - c * c - a * a /\ 4 * R[3][2] = 2 * (b * c - a * d)
        /\ 4 * R[1][2] = 2 * (b * a + c * d)
    BY <1>1, <1>2, <1>8 DEF FourTimes
  <2>2. N[2] = (c * k - a * m) * d + (c * (b * m - c * l) - a * (a * l - b * k))
    BY <1>3, <1>5, <1>6
  <2>3. R[1][2] \in Int /\ R[2][2] \in Int /\ R[3][2] \in Int BY <1>8, TableEntries
  <2>4. b * b + c * c + a * a + d * d = 4 BY <1>1, <1>2
  <2>5. OneTurned(l, m, k, b, c, a, d, R[2][2], R[3][2], R[1][2], N[2])
    BY <2>1, <2>2, <2>4 DEF OneTurned
  <2>6. TurnedTo(l, m, k, R[2][2], R[3][2], R[1][2], N[2])
    BY <1>1, <1>2, <2>3, <2>5, TurnedNumbers
  <2>7. l * R[2][2] \in Int /\ m * R[3][2] \in Int /\ k * R[1][2] \in Int BY <1>2, <2>3
  <2>8. QED BY <2>6, <2>7 DEF TurnedTo
<1>13. m + (N[3] \div 2) = k * R[1][3] + l * R[2][3] + m * R[3][3]
  <2>1. 4 * R[3][3] = d * d + c * c - a * a - b * b /\ 4 * R[1][3] = 2 * (c * a - b * d)
        /\ 4 * R[2][3] = 2 * (c * b + a * d)
    BY <1>1, <1>2, <1>8 DEF FourTimes
  <2>2. N[3] = (a * l - b * k) * d + (a * (c * k - a * m) - b * (b * m - c * l))
    BY <1>3, <1>5, <1>6
  <2>3. R[1][3] \in Int /\ R[2][3] \in Int /\ R[3][3] \in Int BY <1>8, TableEntries
  <2>4. c * c + a * a + b * b + d * d = 4 BY <1>1, <1>2
  <2>5. OneTurned(m, k, l, c, a, b, d, R[3][3], R[1][3], R[2][3], N[3])
    BY <2>1, <2>2, <2>4 DEF OneTurned
  <2>6. TurnedTo(m, k, l, R[3][3], R[1][3], R[2][3], N[3])
    BY <1>1, <1>2, <2>3, <2>5, TurnedNumbers
  <2>7. m * R[3][3] \in Int /\ k * R[1][3] \in Int /\ l * R[2][3] \in Int BY <1>2, <2>3
  <2>8. QED BY <2>6, <2>7 DEF TurnedTo
<1>14. /\ RowTimes(v, R)[1] = k * R[1][1] + l * R[2][1] + m * R[3][1]
       /\ RowTimes(v, R)[2] = k * R[1][2] + l * R[2][2] + m * R[3][2]
       /\ RowTimes(v, R)[3] = k * R[1][3] + l * R[2][3] + m * R[3][3]
  BY AxesAre DEF RowTimes, k, l, m
<1> DEFINE W == Add(v, Halved(N))
<1>15. W \in Vec /\ W[1] = RowTimes(v, R)[1] /\ W[2] = RowTimes(v, R)[2]
       /\ W[3] = RowTimes(v, R)[3]
  BY <1>10, <1>11, <1>12, <1>13, <1>14
<1> HIDE DEF W
<1>16. W = RowTimes(v, R)
  <2>1. \A j \in Axes : W[j] = RowTimes(v, R)[j] BY <1>15, AxesAre
  <2>2. W = [j \in Axes |-> W[j]] BY <1>15 DEF Vec
  <2>3. RowTimes(v, R) = [j \in Axes |-> RowTimes(v, R)[j]] BY DEF RowTimes
  <2>4. QED BY <2>1, <2>2, <2>3
<1>17. QED BY <1>7, <1>15, <1>16 DEF W, R

(* The conjugate's matrix is the transposed one.                           *)
LEMMA Conjugated ==
  ASSUME NEW h \in Rotations
  PROVE  /\ quatf_conjugate(h) \in Rotations
         /\ \A i, j \in Axes : RotationTable(quatf_conjugate(h))[i][j] = RotationTable(h)[j][i]
<1> DEFINE g == quatf_conjugate(h)
           a == h.v[1]  b == h.v[2]  c == h.v[3]  d == h.s
           R == RotationTable(h)
           S == RotationTable(g)
<1>1. /\ h.v \in Vec /\ d \in Int /\ a * a + b * b + c * c + d * d = 4 BY RotationNumbers
<1>2. a \in Int /\ b \in Int /\ c \in Int BY <1>1, VecParts
<1>3. g = Quaternion(Scaled(h.v, -1), d) BY DEF quatf_conjugate
<1>4. /\ Scaled(h.v, -1) \in Vec
      /\ Scaled(h.v, -1)[1] = a * (-1) /\ Scaled(h.v, -1)[2] = b * (-1)
      /\ Scaled(h.v, -1)[3] = c * (-1)
  BY <1>1, AxesAre DEF Scaled, Vec
<1>5. g.v = Scaled(h.v, -1) /\ g.s = d BY <1>3 DEF Quaternion
<1>6. FourTimes(R, a, b, c, d) /\ R \in Table BY TurnFourTimes
<1> HIDE DEF a, b, c, d, g, R
<1>7. g.v[1] = -a /\ g.v[2] = -b /\ g.v[3] = -c BY <1>2, <1>4, <1>5
<1>8. g \in Rotations
  <2>1. Scaled(h.v, -1)[1] = -a /\ Scaled(h.v, -1)[2] = -b /\ Scaled(h.v, -1)[3] = -c
    BY <1>5, <1>7
  <2>2. (-a) * (-a) + (-b) * (-b) + (-c) * (-c) + d * d = 4 BY <1>1, <1>2
  <2> DEFINE V == Scaled(h.v, -1)
  <2>3. V \in Vec /\ V[1] * V[1] + V[2] * V[2] + V[3] * V[3] + d * d = 4
    BY <1>4, <2>1, <2>2
  <2>4. g = Quaternion(V, d) BY <1>3
  <2> HIDE DEF V
  <2>5. QED BY <1>1, <2>3, <2>4, IsRotation
<1>9. FourTimes(S, -a, -b, -c, d) /\ S \in Table
  <2>1. FourTimes(S, g.v[1], g.v[2], g.v[3], g.s) /\ S \in Table BY <1>8, TurnFourTimes
  <2>2. QED BY <1>5, <1>7, <2>1
<1> HIDE DEF S
<1>10. /\ (-a) * (-a) = a * a /\ (-b) * (-b) = b * b /\ (-c) * (-c) = c * c
       /\ (-a) * (-b) = a * b /\ (-a) * (-c) = a * c /\ (-b) * (-c) = b * c
       /\ (-a) * d = -(a * d) /\ (-b) * d = -(b * d) /\ (-c) * d = -(c * d)
       /\ a * d \in Int /\ b * d \in Int /\ c * d \in Int /\ a * b \in Int
       /\ a * c \in Int /\ b * c \in Int
  BY <1>1, <1>2
<1>11. /\ 4 * S[1][1] = 4 * R[1][1] /\ 4 * S[2][2] = 4 * R[2][2] /\ 4 * S[3][3] = 4 * R[3][3]
  BY <1>6, <1>9, <1>10 DEF FourTimes
<1>12. /\ 4 * S[1][2] = 4 * R[2][1] /\ 4 * S[2][1] = 4 * R[1][2]
  BY <1>6, <1>9, <1>10 DEF FourTimes
<1>13. /\ 4 * S[1][3] = 4 * R[3][1] /\ 4 * S[3][1] = 4 * R[1][3]
  BY <1>6, <1>9, <1>10 DEF FourTimes
<1>14. /\ 4 * S[2][3] = 4 * R[3][2] /\ 4 * S[3][2] = 4 * R[2][3]
  BY <1>6, <1>9, <1>10 DEF FourTimes
<1>15. ASSUME NEW i \in Axes, NEW j \in Axes PROVE S[i][j] = R[j][i]
  <2>1. S[i][j] \in Int /\ R[j][i] \in Int BY <1>6, <1>9 DEF Table, Vec
  <2>2. 4 * S[i][j] = 4 * R[j][i] BY <1>11, <1>12, <1>13, <1>14, AxesAre
  <2>3. QED BY <2>1, <2>2
<1>16. QED BY <1>8, <1>15 DEF g, R, S

(* Each entry is its own cofactor, and each row has length 1.              *)
Orthogonal(A) ==
  /\ A \in Table
  /\ A[2][2] * A[3][3] - A[2][3] * A[3][2] = A[1][1]
  /\ A[2][3] * A[3][1] - A[2][1] * A[3][3] = A[1][2]
  /\ A[2][1] * A[3][2] - A[2][2] * A[3][1] = A[1][3]
  /\ A[3][2] * A[1][3] - A[3][3] * A[1][2] = A[2][1]
  /\ A[3][3] * A[1][1] - A[3][1] * A[1][3] = A[2][2]
  /\ A[3][1] * A[1][2] - A[3][2] * A[1][1] = A[2][3]
  /\ A[1][2] * A[2][3] - A[1][3] * A[2][2] = A[3][1]
  /\ A[1][3] * A[2][1] - A[1][1] * A[2][3] = A[3][2]
  /\ A[1][1] * A[2][2] - A[1][2] * A[2][1] = A[3][3]
  /\ A[3][1] * A[3][1] + A[3][2] * A[3][2] + A[3][3] * A[3][3] = 1

SixteenTimes(p, q, r, s, c) == (4 * p) * (4 * q) - (4 * r) * (4 * s) = 4 * (4 * c)
OneTime(p, q, r, s, c)      == p * q - r * s = c

LEMMA Sixteen ==
  ASSUME NEW p \in Int, NEW q \in Int, NEW r \in Int, NEW s \in Int, NEW c \in Int,
         SixteenTimes(p, q, r, s, c)
  PROVE  OneTime(p, q, r, s, c)
<1>1. (4 * p) * (4 * q) = 16 * (p * q) /\ (4 * r) * (4 * s) = 16 * (r * s)
      /\ p * q \in Int /\ r * s \in Int
  OBVIOUS
<1>2. QED BY <1>1 DEF SixteenTimes, OneTime

LEMMA TurnOrthogonal ==
  ASSUME NEW h \in Rotations
  PROVE  Orthogonal(RotationTable(h))
<1> DEFINE x == h.v[1]  y == h.v[2]  z == h.v[3]  w == h.s  R == RotationTable(h)
<1>1. /\ h.v \in Vec /\ w \in Int /\ x * x + y * y + z * z + w * w = 4 BY RotationNumbers
<1>2. x \in Int /\ y \in Int /\ z \in Int BY <1>1, VecParts
<1>3. R \in Table /\ FourTimes(R, x, y, z, w) BY TurnFourTimes
<1> HIDE DEF x, y, z, w, R
<1>4. /\ R[1][1] \in Int /\ R[1][2] \in Int /\ R[1][3] \in Int
      /\ R[2][1] \in Int /\ R[2][2] \in Int /\ R[2][3] \in Int
      /\ R[3][1] \in Int /\ R[3][2] \in Int /\ R[3][3] \in Int
  BY <1>3, TableEntries
<1> DEFINE n == x * x + y * y + z * z + w * w
<1>5. n \in Int /\ n = 4 BY <1>1, <1>2
<1>6. SixteenTimes(R[2][2], R[3][3], R[2][3], R[3][2], R[1][1])
  <2>1. (w * w - x * x + y * y - z * z) * (w * w - x * x - y * y + z * z)
        - (2 * (y * z + x * w)) * (2 * (y * z - x * w)) = n * (w * w + x * x - y * y - z * z)
    BY <1>1, <1>2
  <2>2. QED BY <1>3, <1>5, <2>1 DEF FourTimes, SixteenTimes
<1>7. SixteenTimes(R[2][3], R[3][1], R[2][1], R[3][3], R[1][2])
  <2>1. (2 * (y * z + x * w)) * (2 * (x * z + y * w))
        - (2 * (x * y - z * w)) * (w * w - x * x - y * y + z * z) = n * (2 * (x * y + z * w))
    BY <1>1, <1>2
  <2>2. QED BY <1>3, <1>5, <2>1 DEF FourTimes, SixteenTimes
<1>8. SixteenTimes(R[2][1], R[3][2], R[2][2], R[3][1], R[1][3])
  <2>1. (2 * (x * y - z * w)) * (2 * (y * z - x * w))
        - (w * w - x * x + y * y - z * z) * (2 * (x * z + y * w)) = n * (2 * (x * z - y * w))
    BY <1>1, <1>2
  <2>2. QED BY <1>3, <1>5, <2>1 DEF FourTimes, SixteenTimes
<1>9. SixteenTimes(R[3][2], R[1][3], R[3][3], R[1][2], R[2][1])
  <2>1. (2 * (y * z - x * w)) * (2 * (x * z - y * w))
        - (w * w - x * x - y * y + z * z) * (2 * (x * y + z * w)) = n * (2 * (x * y - z * w))
    BY <1>1, <1>2
  <2>2. QED BY <1>3, <1>5, <2>1 DEF FourTimes, SixteenTimes
<1>10. SixteenTimes(R[3][3], R[1][1], R[3][1], R[1][3], R[2][2])
  <2>1. (w * w - x * x - y * y + z * z) * (w * w + x * x - y * y - z * z)
        - (2 * (x * z + y * w)) * (2 * (x * z - y * w)) = n * (w * w - x * x + y * y - z * z)
    BY <1>1, <1>2
  <2>2. QED BY <1>3, <1>5, <2>1 DEF FourTimes, SixteenTimes
<1>11. SixteenTimes(R[3][1], R[1][2], R[3][2], R[1][1], R[2][3])
  <2>1. (2 * (x * z + y * w)) * (2 * (x * y + z * w))
        - (2 * (y * z - x * w)) * (w * w + x * x - y * y - z * z) = n * (2 * (y * z + x * w))
    BY <1>1, <1>2
  <2>2. QED BY <1>3, <1>5, <2>1 DEF FourTimes, SixteenTimes
<1>12. SixteenTimes(R[1][2], R[2][3], R[1][3], R[2][2], R[3][1])
  <2>1. (2 * (x * y + z * w)) * (2 * (y * z + x * w))
        - (2 * (x * z - y * w)) * (w * w - x * x + y * y - z * z) = n * (2 * (x * z + y * w))
    BY <1>1, <1>2
  <2>2. QED BY <1>3, <1>5, <2>1 DEF FourTimes, SixteenTimes
<1>13. SixteenTimes(R[1][3], R[2][1], R[1][1], R[2][3], R[3][2])
  <2>1. (2 * (x * z - y * w)) * (2 * (x * y - z * w))
        - (w * w + x * x - y * y - z * z) * (2 * (y * z + x * w)) = n * (2 * (y * z - x * w))
    BY <1>1, <1>2
  <2>2. QED BY <1>3, <1>5, <2>1 DEF FourTimes, SixteenTimes
<1>14. SixteenTimes(R[1][1], R[2][2], R[1][2], R[2][1], R[3][3])
  <2>1. (w * w + x * x - y * y - z * z) * (w * w - x * x + y * y - z * z)
        - (2 * (x * y + z * w)) * (2 * (x * y - z * w)) = n * (w * w - x * x - y * y + z * z)
    BY <1>1, <1>2
  <2>2. QED BY <1>3, <1>5, <2>1 DEF FourTimes, SixteenTimes
<1>15. R[3][1] * R[3][1] + R[3][2] * R[3][2] + R[3][3] * R[3][3] = 1
  <2> DEFINE p == R[3][1]  q == R[3][2]  r == R[3][3]
  <2>1. (2 * (x * z + y * w)) * (2 * (x * z + y * w)) + (2 * (y * z - x * w)) * (2 * (y * z - x * w))
        + (w * w - x * x - y * y + z * z) * (w * w - x * x - y * y + z * z) = n * n
    BY <1>1, <1>2
  <2>2. (4 * p) * (4 * p) + (4 * q) * (4 * q) + (4 * r) * (4 * r) = 16
    BY <1>3, <1>5, <2>1 DEF FourTimes
  <2>3. p \in Int /\ q \in Int /\ r \in Int BY <1>4
  <2> HIDE DEF p, q, r
  <2>4. p * p \in Int /\ q * q \in Int /\ r * r \in Int /\ (4 * p) * (4 * p) = 16 * (p * p)
        /\ (4 * q) * (4 * q) = 16 * (q * q) /\ (4 * r) * (4 * r) = 16 * (r * r)
    BY <2>3
  <2>5. p * p + q * q + r * r = 1 BY <2>2, <2>4
  <2>6. QED BY <2>5 DEF p, q, r
<1>16. /\ OneTime(R[2][2], R[3][3], R[2][3], R[3][2], R[1][1])
       /\ OneTime(R[2][3], R[3][1], R[2][1], R[3][3], R[1][2])
       /\ OneTime(R[2][1], R[3][2], R[2][2], R[3][1], R[1][3])
       /\ OneTime(R[3][2], R[1][3], R[3][3], R[1][2], R[2][1])
       /\ OneTime(R[3][3], R[1][1], R[3][1], R[1][3], R[2][2])
       /\ OneTime(R[3][1], R[1][2], R[3][2], R[1][1], R[2][3])
       /\ OneTime(R[1][2], R[2][3], R[1][3], R[2][2], R[3][1])
       /\ OneTime(R[1][3], R[2][1], R[1][1], R[2][3], R[3][2])
       /\ OneTime(R[1][1], R[2][2], R[1][2], R[2][1], R[3][3])
  BY <1>4, <1>6, <1>7, <1>8, <1>9, <1>10, <1>11, <1>12, <1>13, <1>14, Sixteen
<1>17. QED BY <1>3, <1>15, <1>16 DEF Orthogonal, OneTime, R

-----------------------------------------------------------------------------
(* Matrices of rows and a translation.                                     *)

Square(m) == m = [i \in Entries |-> [j \in Entries |-> m[i][j]]]

LEMMA AffineEntries ==
  ASSUME NEW A, NEW t
  PROVE  /\ \A i, j \in Axes : Affine(A, t)[i][j] = A[i][j]
         /\ \A i \in Axes : Affine(A, t)[i][4] = 0
         /\ \A j \in Axes : Affine(A, t)[4][j] = t[j]
         /\ Affine(A, t)[4][4] = 1
         /\ Square(Affine(A, t))
<1>1. \A i \in Axes : i \in Entries /\ i # 4 BY AxesAre
<1>2. 4 \in Entries BY AxesAre
<1>3. \A i, j \in Entries : Affine(A, t)[i][j] = IF j = 4 THEN (IF i = 4 THEN 1 ELSE 0)
                                                 ELSE IF i = 4 THEN t[j] ELSE A[i][j]
  BY DEF Affine
<1>4. Square(Affine(A, t)) BY DEF Affine, Square
<1>5. QED BY <1>1, <1>2, <1>3, <1>4

LEMMA IsAffine ==
  ASSUME NEW m, Square(m), NEW A, NEW t,
         \A i, j \in Axes : m[i][j] = A[i][j],
         \A i \in Axes : m[i][4] = 0,
         \A j \in Axes : m[4][j] = t[j],
         m[4][4] = 1
  PROVE  m = Affine(A, t)
<1> DEFINE a == Affine(A, t)
<1>1. /\ \A i, j \in Axes : a[i][j] = A[i][j]
      /\ \A i \in Axes : a[i][4] = 0 /\ \A j \in Axes : a[j] = a[j]
      /\ \A j \in Axes : a[4][j] = t[j]
      /\ a[4][4] = 1 /\ Square(a)
  BY AffineEntries
<1> HIDE DEF a
<1>2. \A i \in Entries : i \in Axes \/ i = 4 BY AxesAre
<1>3. \A i, j \in Entries : m[i][j] = a[i][j] BY <1>1, <1>2
<1>4. a = [i \in Entries |-> [j \in Entries |-> a[i][j]]] BY <1>1 DEF Square
<1>5. m = [i \in Entries |-> [j \in Entries |-> m[i][j]]] BY DEF Square
<1>6. [i \in Entries |-> [j \in Entries |-> m[i][j]]] = [i \in Entries |-> [j \in Entries |-> a[i][j]]]
  BY <1>3
<1>7. m = a BY <1>4, <1>5, <1>6
<1>8. QED BY <1>7 DEF a

LEMMA ProductTable ==
  ASSUME NEW A \in Table, NEW B \in Table
  PROVE  Product(A, B) \in Table
<1>1. \A i, j \in Axes : A[i][j] \in Int /\ B[i][j] \in Int BY DEF Table, Vec
<1>2. \A i, j \in Axes : A[i][1] * B[1][j] + A[i][2] * B[2][j] + A[i][3] * B[3][j] \in Int
  <2> TAKE i, j \in Axes
  <2>1. A[i][1] \in Int /\ A[i][2] \in Int /\ A[i][3] \in Int BY <1>1, AxesAre
  <2>2. B[1][j] \in Int /\ B[2][j] \in Int /\ B[3][j] \in Int BY <1>1, AxesAre
  <2>3. QED BY <2>1, <2>2
<1>3. QED BY <1>2 DEF Product, Table, Vec

LEMMA RowTimesVec ==
  ASSUME NEW v \in Vec, NEW B \in Table
  PROVE  RowTimes(v, B) \in Vec
<1>1. \A j \in Axes : v[1] * B[1][j] + v[2] * B[2][j] + v[3] * B[3][j] \in Int
  <2> TAKE j \in Axes
  <2>1. v[1] \in Int /\ v[2] \in Int /\ v[3] \in Int BY VecParts
  <2>2. B[1][j] \in Int /\ B[2][j] \in Int /\ B[3][j] \in Int BY AxesAre DEF Table, Vec
  <2>3. QED BY <2>1, <2>2
<1>2. QED BY <1>1 DEF RowTimes, Vec

LEMMA AffineProduct ==
  ASSUME NEW A \in Table, NEW B \in Table, NEW t \in Vec, NEW u \in Vec
  PROVE  mat4f_mul(Affine(A, t), Affine(B, u)) = Affine(Product(A, B), Add(RowTimes(t, B), u))
<1> DEFINE a == Affine(A, t)
           b == Affine(B, u)
           m == mat4f_mul(a, b)
           w == Add(RowTimes(t, B), u)
<1>1. /\ \A i, j \in Axes : a[i][j] = A[i][j] /\ b[i][j] = B[i][j]
      /\ \A i \in Axes : a[i][4] = 0 /\ b[i][4] = 0
      /\ \A j \in Axes : a[4][j] = t[j] /\ b[4][j] = u[j]
      /\ a[4][4] = 1 /\ b[4][4] = 1
  BY AffineEntries
<1> HIDE DEF a, b
<1>2. \A i, j \in Entries : m[i][j] = a[i][1] * b[1][j] + a[i][2] * b[2][j] + a[i][3] * b[3][j]
                                        + a[i][4] * b[4][j]
  BY DEF mat4f_mul
<1>3. Square(m) BY DEF mat4f_mul, Square
<1> HIDE DEF m
<1>4. /\ \A i, j \in Axes : A[i][j] \in Int /\ B[i][j] \in Int
      /\ \A j \in Axes : t[j] \in Int /\ u[j] \in Int
  BY DEF Table, Vec
<1>5. 1 \in Axes /\ 2 \in Axes /\ 3 \in Axes /\ 4 \in Entries /\ \A i \in Axes : i \in Entries
  BY AxesAre
<1>6. ASSUME NEW i \in Axes, NEW j \in Axes PROVE m[i][j] = Product(A, B)[i][j]
  <2>1. m[i][j] = A[i][1] * B[1][j] + A[i][2] * B[2][j] + A[i][3] * B[3][j] + 0 * u[j]
    BY <1>1, <1>2, <1>5
  <2>2. A[i][1] \in Int /\ A[i][2] \in Int /\ A[i][3] \in Int /\ u[j] \in Int
        /\ B[1][j] \in Int /\ B[2][j] \in Int /\ B[3][j] \in Int
    BY <1>4, <1>5
  <2>3. m[i][j] = A[i][1] * B[1][j] + A[i][2] * B[2][j] + A[i][3] * B[3][j] BY <2>1, <2>2
  <2>4. QED BY <2>3 DEF Product
<1>7. ASSUME NEW i \in Axes PROVE m[i][4] = 0
  <2>1. m[i][4] = A[i][1] * 0 + A[i][2] * 0 + A[i][3] * 0 + 0 * 1 BY <1>1, <1>2, <1>5
  <2>2. A[i][1] \in Int /\ A[i][2] \in Int /\ A[i][3] \in Int BY <1>4, <1>5
  <2>3. QED BY <2>1, <2>2
<1>8. ASSUME NEW j \in Axes PROVE m[4][j] = w[j]
  <2>1. m[4][j] = t[1] * B[1][j] + t[2] * B[2][j] + t[3] * B[3][j] + 1 * u[j]
    BY <1>1, <1>2, <1>5
  <2>2. 1 * u[j] = u[j] BY <1>4
  <2>3. QED BY <2>1, <2>2 DEF Add, RowTimes
<1>9. m[4][4] = 1
  <2>1. m[4][4] = t[1] * 0 + t[2] * 0 + t[3] * 0 + 1 * 1 BY <1>1, <1>2, <1>5
  <2>2. t[1] \in Int /\ t[2] \in Int /\ t[3] \in Int BY <1>4, <1>5
  <2>3. QED BY <2>1, <2>2
<1> HIDE DEF w
<1>10. m = Affine(Product(A, B), w) BY <1>3, <1>6, <1>7, <1>8, <1>9, IsAffine
<1>11. QED BY <1>10 DEF m, w, a, b

-----------------------------------------------------------------------------
(* A transform whose scale is even, and its matrix.                        *)

Stretched(A, f) == [i \in Axes |-> Scaled(A[i], f)]
EvenScale(f)    == Scaled(One, f)

Pair(x, m, t, f, q) ==
  /\ t \in Vec /\ f \in {-1, 1} /\ q \in Rotations
  /\ x = Transform(t, EvenScale(f), q)
  /\ m = Affine(Stretched(RotationTable(q), f), t)

Paired(x, m) == \E t \in Vec, f \in {-1, 1}, q \in Rotations : Pair(x, m, t, f, q)

LEMMA StretchedTable ==
  ASSUME NEW A \in Table, NEW f \in Int
  PROVE  /\ Stretched(A, f) \in Table
         /\ \A i, j \in Axes : Stretched(A, f)[i][j] = A[i][j] * f
BY DEF Stretched, Table, Vec, Scaled

LEMMA EvenScaleIs ==
  ASSUME NEW f \in Int
  PROVE  /\ EvenScale(f) \in Vec
         /\ \A i \in Axes : EvenScale(f)[i] = f
BY DEF EvenScale, Scaled, One, Vec

LEMMA ParsedTransform ==
  ASSUME NEW t, NEW s, NEW q
  PROVE  /\ Transform(t, s, q).translation = t /\ Transform(t, s, q).scale = s
         /\ Transform(t, s, q).rotation = q
BY DEF Transform

LEMMA PairMultiplied ==
  ASSUME NEW x, NEW m, Paired(x, m), NEW y, NEW n, Paired(y, n)
  PROVE  Paired(transform_multiply(x, y), mat4f_mul(m, n))
<1>1. PICK t \in Vec, f \in {-1, 1}, q \in Rotations : Pair(x, m, t, f, q) BY DEF Paired
<1>2. PICK u \in Vec, g \in {-1, 1}, p \in Rotations : Pair(y, n, u, g, p) BY DEF Paired
<1> DEFINE A == RotationTable(q)
           B == RotationTable(p)
           r == quatf_mul(p, q)
           k == f * g
           w == Add(quatf_rotate_vec(p, Mul(t, EvenScale(g))), u)
<1>3. A \in Table /\ B \in Table BY TurnFourTimes
<1>4. r \in Rotations /\ RotationTable(r) = Product(A, B) BY MulRotations
<1>5. k \in {-1, 1} /\ f \in Int /\ g \in Int /\ k \in Int OBVIOUS
<1>6. Mul(t, EvenScale(g)) \in Vec /\ \A i \in Axes : Mul(t, EvenScale(g))[i] = t[i] * g
  <2>1. EvenScale(g) \in Vec /\ \A i \in Axes : EvenScale(g)[i] = g BY <1>5, EvenScaleIs
  <2>2. QED BY <2>1, MulEntries DEF Mul
<1>7. /\ quatf_rotate_vec(p, Mul(t, EvenScale(g))) = RowTimes(Mul(t, EvenScale(g)), B)
      /\ quatf_rotate_vec(p, Mul(t, EvenScale(g))) \in Vec
  BY <1>6, Turned
<1>8. w \in Vec BY <1>7, AddEntries
<1>9. transform_multiply(x, y) = Transform(w, EvenScale(k), r)
  <2>1. x.translation = t /\ x.scale = EvenScale(f) /\ x.rotation = q
    BY <1>1, ParsedTransform DEF Pair
  <2>2. y.translation = u /\ y.scale = EvenScale(g) /\ y.rotation = p
    BY <1>2, ParsedTransform DEF Pair
  <2>3. Mul(EvenScale(f), EvenScale(g)) = EvenScale(k)
    <3>1. \A i \in Axes : EvenScale(f)[i] = f /\ EvenScale(g)[i] = g /\ EvenScale(k)[i] = k
      BY <1>5, EvenScaleIs
    <3>2. EvenScale(k) = [i \in Axes |-> EvenScale(k)[i]] BY DEF EvenScale, Scaled
    <3>3. QED BY <3>1, <3>2 DEF Mul
  <2>4. QED BY <2>1, <2>2, <2>3 DEF transform_multiply
<1> HIDE DEF A, B, r, w, k
<1> DEFINE Af == Stretched(A, f)
           Bg == Stretched(B, g)
           v  == Mul(t, EvenScale(g))
<1>10. /\ Af \in Table /\ \A i, j \in Axes : Af[i][j] = A[i][j] * f
       /\ Bg \in Table /\ \A i, j \in Axes : Bg[i][j] = B[i][j] * g
  BY <1>3, <1>5, StretchedTable
<1>11. m = Affine(Af, t) /\ n = Affine(Bg, u) BY <1>1, <1>2 DEF Pair, A, B
<1>12. w = Add(RowTimes(v, B), u) BY <1>7 DEF w
<1>13. v \in Vec /\ \A i \in Axes : v[i] = t[i] * g BY <1>6
<1> HIDE DEF Af, Bg, v
<1>14. mat4f_mul(m, n) = Affine(Product(Af, Bg), Add(RowTimes(t, Bg), u))
  BY <1>10, <1>11, AffineProduct
<1>15. \A i, j \in Axes : A[i][j] \in Int /\ B[i][j] \in Int /\ t[i] \in Int
  BY <1>3 DEF Table, Vec
<1>16. 1 \in Axes /\ 2 \in Axes /\ 3 \in Axes BY AxesAre
<1>17. RowTimes(t, Bg) = RowTimes(v, B)
  <2>1. ASSUME NEW j \in Axes
        PROVE  t[1] * Bg[1][j] + t[2] * Bg[2][j] + t[3] * Bg[3][j]
               = v[1] * B[1][j] + v[2] * B[2][j] + v[3] * B[3][j]
    <3>1. \A i \in Axes : t[i] * (B[i][j] * g) = (t[i] * g) * B[i][j] BY <1>5, <1>15
    <3>2. \A i \in Axes : t[i] * Bg[i][j] = v[i] * B[i][j] BY <1>10, <1>13, <3>1
    <3>3. QED BY <1>16, <3>2
  <2>2. QED BY <2>1 DEF RowTimes
<1>18. Product(Af, Bg) = Stretched(RotationTable(r), k)
  <2>1. ASSUME NEW i \in Axes, NEW j \in Axes
        PROVE  Af[i][1] * Bg[1][j] + Af[i][2] * Bg[2][j] + Af[i][3] * Bg[3][j]
               = (A[i][1] * B[1][j] + A[i][2] * B[2][j] + A[i][3] * B[3][j]) * k
    <3>1. A[i][1] \in Int /\ A[i][2] \in Int /\ A[i][3] \in Int
          /\ B[1][j] \in Int /\ B[2][j] \in Int /\ B[3][j] \in Int
      BY <1>15, <1>16
    <3>2. Af[i][1] = A[i][1] * f /\ Af[i][2] = A[i][2] * f /\ Af[i][3] = A[i][3] * f
          /\ Bg[1][j] = B[1][j] * g /\ Bg[2][j] = B[2][j] * g /\ Bg[3][j] = B[3][j] * g
      BY <1>10, <1>16
    <3>3. (A[i][1] * f) * (B[1][j] * g) + (A[i][2] * f) * (B[2][j] * g)
            + (A[i][3] * f) * (B[3][j] * g)
          = (A[i][1] * B[1][j] + A[i][2] * B[2][j] + A[i][3] * B[3][j]) * (f * g)
      <4> DEFINE a == A[i][1]  b == A[i][2]  c == A[i][3]
                 d == B[1][j]  e == B[2][j]  h == B[3][j]
      <4>1. a \in Int /\ b \in Int /\ c \in Int /\ d \in Int /\ e \in Int /\ h \in Int
        BY <3>1
      <4> HIDE DEF a, b, c, d, e, h
      <4>2. (a * f) * (d * g) + (b * f) * (e * g) + (c * f) * (h * g)
            = (a * d + b * e + c * h) * (f * g)
        BY <1>5, <4>1
      <4>3. QED BY <4>2 DEF a, b, c, d, e, h
    <3>4. QED BY <3>2, <3>3 DEF k
  <2>2. Stretched(Product(A, B), k)
        = [i \in Axes |-> [j \in Axes |->
             (A[i][1] * B[1][j] + A[i][2] * B[2][j] + A[i][3] * B[3][j]) * k]]
    BY DEF Stretched, Product, Scaled
  <2>3. QED BY <1>4, <2>1, <2>2 DEF Product
<1>19. Pair(transform_multiply(x, y), mat4f_mul(m, n), w, k, r)
  BY <1>4, <1>5, <1>8, <1>9, <1>12, <1>14, <1>17, <1>18 DEF Pair
<1>20. QED BY <1>4, <1>5, <1>8, <1>19 DEF Paired

-----------------------------------------------------------------------------
(* The inverse of such a matrix.                                           *)

Terms(m, row, pair, a, b, c) ==
  m[row][a] * Minor(m, pair, b, c) - m[row][b] * Minor(m, pair, a, c)
    + m[row][c] * Minor(m, pair, a, b)

Cofactor1(m) ==
  /\ Cofactor(m, 1, 1) = 1 * Terms(m, 2, 3, 2, 3, 4)
  /\ Cofactor(m, 2, 1) = (-1) * Terms(m, 1, 3, 2, 3, 4)
  /\ Cofactor(m, 3, 1) = 1 * Terms(m, 4, 1, 2, 3, 4)
  /\ Cofactor(m, 4, 1) = (-1) * Terms(m, 3, 1, 2, 3, 4)

Cofactor2(m) ==
  /\ Cofactor(m, 1, 2) = (-1) * Terms(m, 2, 3, 1, 3, 4)
  /\ Cofactor(m, 2, 2) = 1 * Terms(m, 1, 3, 1, 3, 4)
  /\ Cofactor(m, 3, 2) = (-1) * Terms(m, 4, 1, 1, 3, 4)
  /\ Cofactor(m, 4, 2) = 1 * Terms(m, 3, 1, 1, 3, 4)

Cofactor3(m) ==
  /\ Cofactor(m, 1, 3) = 1 * Terms(m, 2, 3, 1, 2, 4)
  /\ Cofactor(m, 2, 3) = (-1) * Terms(m, 1, 3, 1, 2, 4)
  /\ Cofactor(m, 3, 3) = 1 * Terms(m, 4, 1, 1, 2, 4)
  /\ Cofactor(m, 4, 3) = (-1) * Terms(m, 3, 1, 1, 2, 4)

Cofactor4(m) ==
  /\ Cofactor(m, 1, 4) = (-1) * Terms(m, 2, 3, 1, 2, 3)
  /\ Cofactor(m, 2, 4) = 1 * Terms(m, 1, 3, 1, 2, 3)
  /\ Cofactor(m, 3, 4) = (-1) * Terms(m, 4, 1, 1, 2, 3)
  /\ Cofactor(m, 4, 4) = 1 * Terms(m, 3, 1, 1, 2, 3)

LEMMA Cofactors ==
  ASSUME NEW m
  PROVE  Cofactor1(m) /\ Cofactor2(m) /\ Cofactor3(m) /\ Cofactor4(m)
<1> DEFINE Other(i)   == IF i <= 2 THEN 3 - i ELSE 7 - i
           First(i)    == IF i <= 2 THEN 3 ELSE 1
           Sign(i, j) == IF (i + j) % 2 = 0 THEN 1 ELSE -1
           Col(j, n)  == IF n < j THEN n ELSE n + 1
<1>1. ASSUME NEW i, NEW j
      PROVE  Cofactor(m, i, j)
             = Sign(i, j) * Terms(m, Other(i), First(i), Col(j, 1), Col(j, 2), Col(j, 3))
  <2> DEFINE cols == [n \in 1 .. 3 |-> IF n < j THEN n ELSE n + 1]
  <2>1. cols[1] = Col(j, 1) /\ cols[2] = Col(j, 2) /\ cols[3] = Col(j, 3) OBVIOUS
  <2>2. Cofactor(m, i, j)
        = Sign(i, j) * (m[Other(i)][cols[1]] * Minor(m, First(i), cols[2], cols[3])
                          - m[Other(i)][cols[2]] * Minor(m, First(i), cols[1], cols[3])
                          + m[Other(i)][cols[3]] * Minor(m, First(i), cols[1], cols[2]))
    BY DEF Cofactor
  <2>3. QED BY <2>1, <2>2 DEF Terms
<1>2. /\ Other(1) = 2 /\ Other(2) = 1 /\ Other(3) = 4 /\ Other(4) = 3
      /\ First(1) = 3 /\ First(2) = 3 /\ First(3) = 1 /\ First(4) = 1
  OBVIOUS
<1>3. /\ Col(1, 1) = 2 /\ Col(1, 2) = 3 /\ Col(1, 3) = 4
      /\ Col(2, 1) = 1 /\ Col(2, 2) = 3 /\ Col(2, 3) = 4
      /\ Col(3, 1) = 1 /\ Col(3, 2) = 2 /\ Col(3, 3) = 4
      /\ Col(4, 1) = 1 /\ Col(4, 2) = 2 /\ Col(4, 3) = 3
  OBVIOUS
<1>4. /\ Sign(1, 1) = 1 /\ Sign(2, 1) = -1 /\ Sign(3, 1) = 1 /\ Sign(4, 1) = -1
      /\ Sign(1, 2) = -1 /\ Sign(2, 2) = 1 /\ Sign(3, 2) = -1 /\ Sign(4, 2) = 1
      /\ Sign(1, 3) = 1 /\ Sign(2, 3) = -1 /\ Sign(3, 3) = 1 /\ Sign(4, 3) = -1
      /\ Sign(1, 4) = -1 /\ Sign(2, 4) = 1 /\ Sign(3, 4) = -1 /\ Sign(4, 4) = 1
  OBVIOUS
<1> HIDE DEF Other, First, Sign, Col
<1>5. Cofactor1(m) BY <1>1, <1>2, <1>3, <1>4 DEF Cofactor1
<1>6. Cofactor2(m) BY <1>1, <1>2, <1>3, <1>4 DEF Cofactor2
<1>7. Cofactor3(m) BY <1>1, <1>2, <1>3, <1>4 DEF Cofactor3
<1>8. Cofactor4(m) BY <1>1, <1>2, <1>3, <1>4 DEF Cofactor4
<1>9. QED BY <1>5, <1>6, <1>7, <1>8

Unstretched(p, q, r, s, o, f) ==
  (p * f) * (q * f) - (r * f) * (s * f) + 0 * o = p * q - r * s

(* The rows of R are a b c, d e h and k l n; x y z is the translation.     *)
LEMMA InverseOf ==
  ASSUME NEW R, Orthogonal(R), NEW f \in {-1, 1}, NEW t \in Vec,
         NEW S, \A i, j \in Axes : S[i][j] = R[j][i] * f,
         NEW u, \A j \in Axes : u[j] = (-(t[1] * R[j][1] + t[2] * R[j][2] + t[3] * R[j][3])) * f
  PROVE  mat4f_invert(Affine(Stretched(R, f), t)) = Affine(S, u)
<1> DEFINE a == R[1][1]  b == R[1][2]  c == R[1][3]
           d == R[2][1]  e == R[2][2]  h == R[2][3]
           k == R[3][1]  l == R[3][2]  n == R[3][3]
           x == t[1]  y == t[2]  z == t[3]
           m == Affine(Stretched(R, f), t)
           M(i, j) == Minor(m, 1, i, j)
           L(i, j) == Minor(m, 3, i, j)
           g == mat4f_invert(m)
<1>1. R \in Table /\ f \in Int BY DEF Orthogonal
<1>2. /\ a \in Int /\ b \in Int /\ c \in Int /\ d \in Int /\ e \in Int /\ h \in Int
      /\ k \in Int /\ l \in Int /\ n \in Int /\ x \in Int /\ y \in Int /\ z \in Int
  BY <1>1, TableEntries, VecParts
<1>3. /\ e * n - h * l = a /\ h * k - d * n = b /\ d * l - e * k = c
      /\ l * c - n * b = d /\ n * a - k * c = e /\ k * b - l * a = h
      /\ b * h - c * e = k /\ c * d - a * h = l /\ a * e - b * d = n
      /\ k * k + l * l + n * n = 1
  BY DEF Orthogonal
<1>4. /\ m[1][1] = a * f /\ m[1][2] = b * f /\ m[1][3] = c * f /\ m[1][4] = 0
      /\ m[2][1] = d * f /\ m[2][2] = e * f /\ m[2][3] = h * f /\ m[2][4] = 0
      /\ m[3][1] = k * f /\ m[3][2] = l * f /\ m[3][3] = n * f /\ m[3][4] = 0
      /\ m[4][1] = x /\ m[4][2] = y /\ m[4][3] = z /\ m[4][4] = 1
  <2> DEFINE A == Stretched(R, f)
  <2>1. \A i, j \in Axes : A[i][j] = R[i][j] * f BY <1>1, StretchedTable
  <2>2. 1 \in Axes /\ 2 \in Axes /\ 3 \in Axes BY AxesAre
  <2> HIDE DEF A
  <2>3. m = Affine(A, t) BY DEF A
  <2> HIDE DEF m
  <2>4. /\ \A i, j \in Axes : m[i][j] = A[i][j]
        /\ \A i \in Axes : m[i][4] = 0
        /\ \A j \in Axes : m[4][j] = t[j]
        /\ m[4][4] = 1
    BY <2>3, AffineEntries
  <2>5. \A i, j \in Axes : m[i][j] = R[i][j] * f BY <2>1, <2>4
  <2>6. /\ m[1][1] = a * f /\ m[1][2] = b * f /\ m[1][3] = c * f
        /\ m[2][1] = d * f /\ m[2][2] = e * f /\ m[2][3] = h * f
        /\ m[3][1] = k * f /\ m[3][2] = l * f /\ m[3][3] = n * f
    BY ONLY <2>2, <2>5 DEF a, b, c, d, e, h, k, l, n
  <2>7. /\ m[1][4] = 0 /\ m[2][4] = 0 /\ m[3][4] = 0
        /\ m[4][1] = x /\ m[4][2] = y /\ m[4][3] = z /\ m[4][4] = 1
    BY ONLY <2>2, <2>4 DEF x, y, z
  <2>8. QED BY <2>6, <2>7
<1>5. Square(g) BY DEF mat4f_invert, Square
<1>6. \A i, j \in Entries : g[i][j] = Cofactor(m, j, i) * Determinant(m) BY DEF mat4f_invert
<1>7. \A j \in Axes : S[1][j] = R[j][1] * f /\ S[2][j] = R[j][2] * f /\ S[3][j] = R[j][3] * f
  BY AxesAre
<1>8. /\ S[1][1] = a * f /\ S[1][2] = d * f /\ S[1][3] = k * f
      /\ S[2][1] = b * f /\ S[2][2] = e * f /\ S[2][3] = l * f
      /\ S[3][1] = c * f /\ S[3][2] = h * f /\ S[3][3] = n * f
  BY <1>7, AxesAre
<1>9. /\ u[1] = (-(x * a + y * b + z * c)) * f /\ u[2] = (-(x * d + y * e + z * h)) * f
      /\ u[3] = (-(x * k + y * l + z * n)) * f
  BY AxesAre
<1> HIDE DEF a, b, c, d, e, h, k, l, n, x, y, z, m, g
<1>10. f = 1 \/ f = -1 OBVIOUS
<1>11. /\ M(1, 2) = (a * f) * (e * f) - (d * f) * (b * f)
       /\ M(1, 3) = (a * f) * (h * f) - (d * f) * (c * f)
       /\ M(2, 3) = (b * f) * (h * f) - (e * f) * (c * f)
       /\ M(1, 4) = (a * f) * 0 - (d * f) * 0
       /\ M(2, 4) = (b * f) * 0 - (e * f) * 0
       /\ M(3, 4) = (c * f) * 0 - (h * f) * 0
  <2>1. 1 + 1 = 2 OBVIOUS
  <2>2. QED BY <1>4, <2>1 DEF Minor
<1>12. /\ L(1, 2) = (k * f) * y - x * (l * f)
       /\ L(1, 3) = (k * f) * z - x * (n * f)
       /\ L(2, 3) = (l * f) * z - y * (n * f)
       /\ L(1, 4) = (k * f) * 1 - x * 0
       /\ L(2, 4) = (l * f) * 1 - y * 0
       /\ L(3, 4) = (n * f) * 1 - z * 0
  <2>1. 3 + 1 = 4 OBVIOUS
  <2>2. QED BY <1>4, <2>1 DEF Minor
<1>13. (f = 1 \/ f = -1) => f * f = 1 OBVIOUS
<1>14. /\ M(1, 2) = n /\ M(1, 3) = -l /\ M(2, 3) = k
       /\ M(1, 4) = 0 /\ M(2, 4) = 0 /\ M(3, 4) = 0
       /\ L(1, 4) = k * f /\ L(2, 4) = l * f /\ L(3, 4) = n * f
  <2>1. CASE f = 1 BY <1>2, <1>3, <1>11, <1>12, <2>1
  <2>2. CASE f = -1 BY <1>2, <1>3, <1>11, <1>12, <2>2
  <2>3. QED BY <1>10, <2>1, <2>2
<1>15. Determinant(m) = M(1, 2) * L(3, 4) - M(1, 3) * L(2, 4) + M(1, 4) * L(2, 3)
                          + M(2, 3) * L(1, 4) - M(2, 4) * L(1, 3) + M(3, 4) * L(1, 2)
  BY DEF Determinant
<1>16. Cofactor1(m) /\ Cofactor2(m) /\ Cofactor3(m) /\ Cofactor4(m) BY Cofactors
<1>17. /\ Terms(m, 2, 3, 2, 3, 4) = (e * f) * L(3, 4) - (h * f) * L(2, 4) + 0 * L(2, 3)
       /\ Terms(m, 1, 3, 2, 3, 4) = (b * f) * L(3, 4) - (c * f) * L(2, 4) + 0 * L(2, 3)
       /\ Terms(m, 4, 1, 2, 3, 4) = y * M(3, 4) - z * M(2, 4) + 1 * M(2, 3)
       /\ Terms(m, 3, 1, 2, 3, 4) = (l * f) * M(3, 4) - (n * f) * M(2, 4) + 0 * M(2, 3)
  BY <1>4 DEF Terms
<1>18. /\ Terms(m, 2, 3, 1, 3, 4) = (d * f) * L(3, 4) - (h * f) * L(1, 4) + 0 * L(1, 3)
       /\ Terms(m, 1, 3, 1, 3, 4) = (a * f) * L(3, 4) - (c * f) * L(1, 4) + 0 * L(1, 3)
       /\ Terms(m, 4, 1, 1, 3, 4) = x * M(3, 4) - z * M(1, 4) + 1 * M(1, 3)
       /\ Terms(m, 3, 1, 1, 3, 4) = (k * f) * M(3, 4) - (n * f) * M(1, 4) + 0 * M(1, 3)
  BY <1>4 DEF Terms
<1>19. /\ Terms(m, 2, 3, 1, 2, 4) = (d * f) * L(2, 4) - (e * f) * L(1, 4) + 0 * L(1, 2)
       /\ Terms(m, 1, 3, 1, 2, 4) = (a * f) * L(2, 4) - (b * f) * L(1, 4) + 0 * L(1, 2)
       /\ Terms(m, 4, 1, 1, 2, 4) = x * M(2, 4) - y * M(1, 4) + 1 * M(1, 2)
       /\ Terms(m, 3, 1, 1, 2, 4) = (k * f) * M(2, 4) - (l * f) * M(1, 4) + 0 * M(1, 2)
  BY <1>4 DEF Terms
<1>20. /\ Terms(m, 2, 3, 1, 2, 3) = (d * f) * L(2, 3) - (e * f) * L(1, 3) + (h * f) * L(1, 2)
       /\ Terms(m, 1, 3, 1, 2, 3) = (a * f) * L(2, 3) - (b * f) * L(1, 3) + (c * f) * L(1, 2)
       /\ Terms(m, 4, 1, 1, 2, 3) = x * M(2, 3) - y * M(1, 3) + z * M(1, 2)
       /\ Terms(m, 3, 1, 1, 2, 3) = (k * f) * M(2, 3) - (l * f) * M(1, 3) + (n * f) * M(1, 2)
  BY <1>4 DEF Terms
<1>21. L(1, 2) \in Int /\ L(1, 3) \in Int /\ L(2, 3) \in Int BY <1>1, <1>2, <1>12
<1>22. \A i \in Axes : i \in Entries /\ 4 \in Entries BY AxesAre
<1>23. \A i \in Axes : i = 1 \/ i = 2 \/ i = 3 BY AxesAre
<1>24. 1 \in Entries /\ 2 \in Entries /\ 3 \in Entries /\ 4 \in Entries BY AxesAre
<1> HIDE DEF M, L
<1>25. Determinant(m) = f
  <2>1. Determinant(m) = n * (n * f) - (-l) * (l * f) + 0 * L(2, 3) + k * (k * f)
                           - 0 * L(1, 3) + 0 * L(1, 2)
    BY <1>14, <1>15
  <2>2. n * (n * f) - (-l) * (l * f) + k * (k * f) = (k * k + l * l + n * n) * f
    BY <1>1, <1>2
  <2>3. n * (n * f) - (-l) * (l * f) + k * (k * f) = f BY <1>1, <1>3, <2>2
  <2>4. n * (n * f) \in Int /\ (-l) * (l * f) \in Int /\ k * (k * f) \in Int BY <1>1, <1>2
  <2>5. QED BY <1>21, <2>1, <2>3, <2>4
<1>26. ASSUME NEW p \in Int, NEW q \in Int, NEW r \in Int, NEW s \in Int, NEW o \in Int
       PROVE  Unstretched(p, q, r, s, o, f)
  <2>1. CASE f = 1 BY <2>1 DEF Unstretched
  <2>2. CASE f = -1 BY <2>2 DEF Unstretched
  <2>3. QED BY <1>10, <2>1, <2>2
<1>27. ASSUME NEW p \in Int, NEW q \in Int, NEW r \in Int
       PROVE  p * 0 - q * 0 + 1 * r = r /\ (p * f) * 0 - (q * f) * 0 + 0 * r = 0
  BY <1>1
<1>28. /\ Cofactor(m, 1, 1) = a /\ Cofactor(m, 2, 1) = d /\ Cofactor(m, 3, 1) = k
       /\ Cofactor(m, 4, 1) = 0
  <2>1. /\ Terms(m, 2, 3, 2, 3, 4) = e * n - h * l /\ Terms(m, 1, 3, 2, 3, 4) = b * n - c * l
    <3>1. Unstretched(e, n, h, l, L(2, 3), f) /\ Unstretched(b, n, c, l, L(2, 3), f)
      BY <1>2, <1>21, <1>26
    <3>2. QED BY <1>14, <1>17, <3>1 DEF Unstretched
  <2>2. /\ Terms(m, 4, 1, 2, 3, 4) = k /\ Terms(m, 3, 1, 2, 3, 4) = 0
    BY <1>2, <1>14, <1>17, <1>27
  <2>3. b * n - c * l = -d BY <1>2, <1>3
  <2>4. QED BY <1>2, <1>3, <1>16, <2>1, <2>2, <2>3 DEF Cofactor1
<1>29. /\ Cofactor(m, 1, 2) = b /\ Cofactor(m, 2, 2) = e /\ Cofactor(m, 3, 2) = l
       /\ Cofactor(m, 4, 2) = 0
  <2>1. /\ Terms(m, 2, 3, 1, 3, 4) = d * n - h * k /\ Terms(m, 1, 3, 1, 3, 4) = a * n - c * k
    <3>1. Unstretched(d, n, h, k, L(1, 3), f) /\ Unstretched(a, n, c, k, L(1, 3), f)
      BY <1>2, <1>21, <1>26
    <3>2. QED BY <1>14, <1>18, <3>1 DEF Unstretched
  <2>2. /\ Terms(m, 4, 1, 1, 3, 4) = -l /\ Terms(m, 3, 1, 1, 3, 4) = 0
    <3>1. -l \in Int BY <1>2
    <3>2. QED BY <1>2, <1>14, <1>18, <1>27, <3>1
  <2>3. d * n - h * k = -b /\ a * n - c * k = e BY <1>2, <1>3
  <2>4. QED BY <1>2, <1>16, <2>1, <2>2, <2>3 DEF Cofactor2
<1>30. /\ Cofactor(m, 1, 3) = c /\ Cofactor(m, 2, 3) = h /\ Cofactor(m, 3, 3) = n
       /\ Cofactor(m, 4, 3) = 0
  <2>1. /\ Terms(m, 2, 3, 1, 2, 4) = d * l - e * k /\ Terms(m, 1, 3, 1, 2, 4) = a * l - b * k
    <3>1. Unstretched(d, l, e, k, L(1, 2), f) /\ Unstretched(a, l, b, k, L(1, 2), f)
      BY <1>2, <1>21, <1>26
    <3>2. QED BY <1>14, <1>19, <3>1 DEF Unstretched
  <2>2. /\ Terms(m, 4, 1, 1, 2, 4) = n /\ Terms(m, 3, 1, 1, 2, 4) = 0
    BY <1>2, <1>14, <1>19, <1>27
  <2>3. d * l - e * k = c /\ a * l - b * k = -h BY <1>2, <1>3
  <2>4. QED BY <1>2, <1>16, <2>1, <2>2, <2>3 DEF Cofactor3
<1>31. /\ Cofactor(m, 1, 4) = -(x * a + y * b + z * c)
       /\ Cofactor(m, 2, 4) = -(x * d + y * e + z * h)
       /\ Cofactor(m, 3, 4) = -(x * k + y * l + z * n)
       /\ Cofactor(m, 4, 4) = f
  <2>1. x * a + y * b + z * c
        = x * (e * n - h * l) + y * (h * k - d * n) + z * (d * l - e * k)
    BY <1>3
  <2>2. x * d + y * e + z * h
        = x * (l * c - n * b) + y * (n * a - k * c) + z * (k * b - l * a)
    BY <1>3
  <2>3. d * (l * z - y * n) - e * (k * z - x * n) + h * (k * y - x * l)
        = x * (e * n - h * l) + y * (h * k - d * n) + z * (d * l - e * k)
    BY <1>2
  <2>4. a * (l * z - y * n) - b * (k * z - x * n) + c * (k * y - x * l)
        = -(x * (l * c - n * b) + y * (n * a - k * c) + z * (k * b - l * a))
    BY <1>2
  <2>5. /\ (d * f) * L(2, 3) - (e * f) * L(1, 3) + (h * f) * L(1, 2)
           = (f * f) * (d * (l * z - y * n) - e * (k * z - x * n) + h * (k * y - x * l))
        /\ (a * f) * L(2, 3) - (b * f) * L(1, 3) + (c * f) * L(1, 2)
           = (f * f) * (a * (l * z - y * n) - b * (k * z - x * n) + c * (k * y - x * l))
    BY <1>1, <1>2, <1>12 DEF L
  <2>6. /\ x * a + y * b + z * c \in Int /\ x * d + y * e + z * h \in Int
        /\ x * k + y * l + z * n \in Int
    BY <1>2
  <2>7. f * f = 1 BY <1>10, <1>13
  <2>8. Cofactor(m, 1, 4) = -(x * a + y * b + z * c)
        /\ Cofactor(m, 2, 4) = -(x * d + y * e + z * h)
    BY <1>16, <1>20, <2>1, <2>2, <2>3, <2>4, <2>5, <2>6, <2>7 DEF Cofactor4
  <2>9. Cofactor(m, 3, 4) = -(x * k + y * l + z * n)
    BY <1>2, <1>14, <1>16, <1>20 DEF Cofactor4
  <2>10. Cofactor(m, 4, 4) = f
    <3>1. Cofactor(m, 4, 4) = 1 * ((k * f) * k - (l * f) * (-l) + (n * f) * n)
      BY <1>14, <1>16, <1>20 DEF Cofactor4
    <3>2. 1 * ((k * f) * k - (l * f) * (-l) + (n * f) * n) = (k * k + l * l + n * n) * f
      BY <1>1, <1>2
    <3>3. QED BY <1>1, <1>3, <3>1, <3>2
  <2>11. QED BY <2>8, <2>9, <2>10
<1>32. \A i, j \in Axes : g[i][j] = S[i][j]
  BY <1>6, <1>8, <1>22, <1>23, <1>25, <1>28, <1>29, <1>30
<1>33. \A i \in Axes : g[i][4] = 0
  <2>1. 0 * f = 0 BY <1>1
  <2>2. QED BY <1>6, <1>22, <1>23, <1>25, <1>28, <1>29, <1>30, <2>1
<1>34. \A j \in Axes : g[4][j] = u[j] BY <1>6, <1>9, <1>22, <1>23, <1>25, <1>31
<1>35. g[4][4] = 1
  <2>1. g[4][4] = f * f BY <1>6, <1>24, <1>25, <1>31
  <2>2. QED BY <1>10, <1>13, <2>1
<1>36. g = Affine(S, u) BY <1>5, <1>32, <1>33, <1>34, <1>35, IsAffine
<1>37. QED BY <1>36 DEF g, m

LEMMA PairInverted ==
  ASSUME NEW x, NEW m, Paired(x, m)
  PROVE  Paired(transform_invert(x), mat4f_invert(m))
<1>1. PICK t \in Vec, f \in {-1, 1}, q \in Rotations : Pair(x, m, t, f, q) BY DEF Paired
<1> DEFINE R    == RotationTable(q)
           back == quatf_conjugate(q)
           far  == Scaled(t, -1)
           u    == Mul(EvenScale(f), quatf_rotate_vec(back, far))
           S    == Stretched(RotationTable(back), f)
<1>2. /\ R \in Table /\ Orthogonal(R) /\ f \in Int BY TurnFourTimes, TurnOrthogonal
<1>3. back \in Rotations /\ \A i, j \in Axes : RotationTable(back)[i][j] = R[j][i] BY Conjugated
<1>4. far \in Vec /\ \A i \in Axes : far[i] = t[i] * (-1)
  <2>1. \A i \in Axes : t[i] * (-1) \in Int BY DEF Vec
  <2>2. QED BY <2>1 DEF Scaled, Vec
<1>5. transform_invert(x) = Transform(u, EvenScale(f), back)
  <2>1. x.translation = t /\ x.scale = EvenScale(f) /\ x.rotation = q
    BY <1>1, ParsedTransform DEF Pair
  <2>2. QED BY <2>1 DEF transform_invert
<1> HIDE DEF R, back, far
<1>6. /\ quatf_rotate_vec(back, far) \in Vec
      /\ quatf_rotate_vec(back, far) = RowTimes(far, RotationTable(back))
  BY <1>3, <1>4, Turned
<1>7. RotationTable(back) \in Table BY <1>3, TurnFourTimes
<1>8. \A i, j \in Axes : S[i][j] = R[j][i] * f BY <1>2, <1>3, <1>7, StretchedTable
<1>9. EvenScale(f) \in Vec /\ \A i \in Axes : EvenScale(f)[i] = f BY <1>2, EvenScaleIs
<1>10. u \in Vec BY <1>6, <1>9, MulEntries
<1>11. ASSUME NEW j \in Axes
       PROVE  u[j] = (-(t[1] * R[j][1] + t[2] * R[j][2] + t[3] * R[j][3])) * f
  <2> DEFINE a == t[1]  b == t[2]  c == t[3]  k == R[j][1]  l == R[j][2]  n == R[j][3]
  <2>1. u[j] = f * RowTimes(far, RotationTable(back))[j] BY <1>6, <1>9 DEF Mul
  <2>2. RowTimes(far, RotationTable(back))[j]
        = far[1] * RotationTable(back)[1][j] + far[2] * RotationTable(back)[2][j]
            + far[3] * RotationTable(back)[3][j]
    BY DEF RowTimes
  <2>3. RowTimes(far, RotationTable(back))[j] = (a * (-1)) * k + (b * (-1)) * l + (c * (-1)) * n
    BY <1>3, <1>4, <2>2, AxesAre
  <2>4. a \in Int /\ b \in Int /\ c \in Int /\ k \in Int /\ l \in Int /\ n \in Int
    BY <1>2, VecParts, AxesAre DEF Table, Vec
  <2> HIDE DEF a, b, c, k, l, n
  <2>5. f * ((a * (-1)) * k + (b * (-1)) * l + (c * (-1)) * n) = (-(a * k + b * l + c * n)) * f
    BY <1>2, <2>4
  <2>6. QED BY <2>1, <2>3, <2>5 DEF a, b, c, k, l, n
<1> HIDE DEF S, u
<1>12. m = Affine(Stretched(R, f), t) BY <1>1 DEF Pair, R
<1>13. mat4f_invert(m) = Affine(S, u) BY <1>2, <1>8, <1>11, <1>12, InverseOf
<1>14. Pair(transform_invert(x), mat4f_invert(m), u, f, back)
  BY <1>3, <1>5, <1>10, <1>13 DEF Pair, S
<1>15. QED BY <1>3, <1>10, <1>14 DEF Paired

(* The matrix is the transform's, and takes every point where that does,   *)
(* also when the object itself is scaled unevenly.                         *)
LEMMA PairMatrix ==
  ASSUME NEW x, NEW m, Paired(x, m)
  PROVE  m = transform_to_matrix(x)
<1>1. PICK t \in Vec, f \in {-1, 1}, q \in Rotations : Pair(x, m, t, f, q) BY DEF Paired
<1>2. x.translation = t /\ x.scale = EvenScale(f) /\ x.rotation = q
  BY <1>1, ParsedTransform DEF Pair
<1>3. \A i \in Axes : EvenScale(f)[i] = f
  <2>1. f \in Int OBVIOUS
  <2>2. QED BY <2>1, EvenScaleIs
<1>4. [i \in Axes |-> Scaled(RotationRow(q, i), EvenScale(f)[i])] = Stretched(RotationTable(q), f)
  BY <1>3 DEF Stretched, RotationTable
<1>5. transform_to_matrix(x) = Affine(Stretched(RotationTable(q), f), t)
  BY <1>2, <1>4 DEF transform_to_matrix
<1>6. QED BY <1>1, <1>5 DEF Pair

LEMMA MatrixTakesPoints ==
  ASSUME NEW t \in Vec, NEW s \in Vec, NEW q \in Rotations, NEW v \in Vec, NEW x,
         x.translation = t, x.scale = s, x.rotation = q
  PROVE  mat4f_transform(transform_to_matrix(x), v) = transform_transform_vec3(x, v)
<1> DEFINE R    == RotationTable(q)
           rows == [i \in Axes |-> Scaled(RotationRow(q, i), s[i])]
           m    == Affine(rows, t)
           w    == Mul(v, s)
<1>1. R \in Table BY TurnFourTimes
<1>2. transform_to_matrix(x) = m BY DEF transform_to_matrix
<1>3. w \in Vec /\ w[1] = v[1] * s[1] /\ w[2] = v[2] * s[2] /\ w[3] = v[3] * s[3]
  BY MulEntries
<1>4. quatf_rotate_vec(q, w) = RowTimes(w, R) BY <1>3, Turned
<1>5. transform_transform_vec3(x, v) = Add(RowTimes(w, R), t)
  BY <1>4 DEF transform_transform_vec3
<1>6. \A i, j \in Axes : rows[i][j] = R[i][j] * s[i] BY DEF RotationTable, Scaled
<1>7. /\ \A i, j \in Axes : m[i][j] = rows[i][j]
      /\ \A j \in Axes : m[4][j] = t[j]
  BY AffineEntries
<1> HIDE DEF R, rows, m, w
<1>8. ASSUME NEW j \in Axes
      PROVE  v[1] * m[1][j] + v[2] * m[2][j] + v[3] * m[3][j] + m[4][j]
             = w[1] * R[1][j] + w[2] * R[2][j] + w[3] * R[3][j] + t[j]
  <2> DEFINE a == v[1]  b == v[2]  c == v[3]  d == s[1]  e == s[2]  h == s[3]
             k == R[1][j]  l == R[2][j]  n == R[3][j]
  <2>1. /\ a \in Int /\ b \in Int /\ c \in Int /\ d \in Int /\ e \in Int /\ h \in Int
        /\ k \in Int /\ l \in Int /\ n \in Int
    BY <1>1, VecParts, AxesAre DEF Table, Vec
  <2>2. m[1][j] = k * d /\ m[2][j] = l * e /\ m[3][j] = n * h /\ m[4][j] = t[j]
    BY <1>6, <1>7, AxesAre
  <2>3. w[1] = a * d /\ w[2] = b * e /\ w[3] = c * h BY <1>3
  <2> HIDE DEF a, b, c, d, e, h, k, l, n
  <2>4. a * (k * d) = (a * d) * k /\ b * (l * e) = (b * e) * l /\ c * (n * h) = (c * h) * n
    BY <2>1
  <2>5. a * m[1][j] + b * m[2][j] + c * m[3][j] + m[4][j] = w[1] * k + w[2] * l + w[3] * n + t[j]
    BY <2>2, <2>3, <2>4
  <2>6. QED BY <2>5 DEF a, b, c, k, l, n
<1>9. QED BY <1>2, <1>5, <1>8 DEF mat4f_transform, Add, RowTimes

LEMMA PairFollows ==
  ASSUME Paired(transform, matrix)
  PROVE  MatrixFollowsTransform
<1>1. matrix = transform_to_matrix(transform) BY PairMatrix
<1>2. ASSUME NEW s \in [Axes -> 1 .. 2], NEW v \in Boxed
      PROVE  LET x == [transform EXCEPT !.scale = Mul(@, s)]
             IN  mat4f_transform(transform_to_matrix(x), v) = transform_transform_vec3(x, v)
  <2> DEFINE x == [transform EXCEPT !.scale = Mul(@, s)]
  <2>1. PICK t \in Vec, f \in {-1, 1}, q \in Rotations : Pair(transform, matrix, t, f, q)
    BY DEF Paired
  <2>2. transform = Transform(t, EvenScale(f), q) BY <2>1 DEF Pair
  <2>3. x.translation = t /\ x.rotation = q /\ x.scale = Mul(EvenScale(f), s)
    BY <2>2 DEF Transform
  <2>4. f \in Int /\ s \in Vec BY DEF Vec
  <2>5. Mul(EvenScale(f), s) \in Vec BY <2>4, EvenScaleIs, MulEntries
  <2>6. v \in Vec
    <3>1. -Box .. Box \subseteq Int BY BoxAssumption
    <3>2. QED BY <3>1 DEF Boxed, Vec
  <2> HIDE DEF x
  <2>7. mat4f_transform(transform_to_matrix(x), v) = transform_transform_vec3(x, v)
    BY <2>3, <2>5, <2>6, MatrixTakesPoints
  <2>8. QED BY <2>7 DEF x
<1>3. QED BY <1>1, <1>2 DEF MatrixFollowsTransform

-----------------------------------------------------------------------------
(* The operations of the program are such pairs.                           *)

Unit == [i \in Axes |-> [j \in Axes |-> IF i = j THEN 1 ELSE 0]]

LEMMA IdentityTurns == Identity \in Rotations /\ RotationTable(Identity) = Unit /\ Unit \in Table
<1>1. Zero \in Vec /\ Zero[1] = 0 /\ Zero[2] = 0 /\ Zero[3] = 0 BY AxesAre DEF Zero, Vec
<1>2. Identity \in Rotations
  <2>1. Zero[1] * Zero[1] + Zero[2] * Zero[2] + Zero[3] * Zero[3] + 2 * 2 = 4 BY <1>1
  <2>2. QED BY <1>1, <2>1, IsRotation DEF Identity
<1>3. Identity.v = Zero /\ Identity.s = 2 BY DEF Identity, Quaternion
<1>4. RotationTable(Identity) \in Table /\ FourTimes(RotationTable(Identity), 0, 0, 0, 2)
  BY <1>1, <1>2, <1>3, TurnFourTimes
<1> DEFINE R == RotationTable(Identity)
<1> HIDE DEF R
<1>5. R \in Table /\ FourTimes(R, 0, 0, 0, 2) BY <1>4 DEF R
<1>6. /\ R[1][1] \in Int /\ R[1][2] \in Int /\ R[1][3] \in Int
      /\ R[2][1] \in Int /\ R[2][2] \in Int /\ R[2][3] \in Int
      /\ R[3][1] \in Int /\ R[3][2] \in Int /\ R[3][3] \in Int
  BY <1>5, TableEntries
<1>7. /\ R[1][1] = 1 /\ R[1][2] = 0 /\ R[1][3] = 0
      /\ R[2][1] = 0 /\ R[2][2] = 1 /\ R[2][3] = 0
      /\ R[3][1] = 0 /\ R[3][2] = 0 /\ R[3][3] = 1
  <2>1. /\ 4 * R[1][1] = 4 /\ 4 * R[1][2] = 0 /\ 4 * R[1][3] = 0
        /\ 4 * R[2][1] = 0 /\ 4 * R[2][2] = 4 /\ 4 * R[2][3] = 0
        /\ 4 * R[3][1] = 0 /\ 4 * R[3][2] = 0 /\ 4 * R[3][3] = 4
    BY <1>5 DEF FourTimes
  <2>2. ASSUME NEW n \in Int PROVE (4 * n = 4 => n = 1) /\ (4 * n = 0 => n = 0) OBVIOUS
  <2>3. QED BY <1>6, <2>1, <2>2
<1>8. \A i, j \in Axes : R[i][j] = Unit[i][j] BY <1>7, AxesAre DEF Unit
<1>9. R = [i \in Axes |-> [j \in Axes |-> R[i][j]]] BY <1>5 DEF Table, Vec
<1>10. Unit = [i \in Axes |-> [j \in Axes |-> Unit[i][j]]] BY DEF Unit
<1>11. R = Unit BY <1>8, <1>9, <1>10
<1>12. QED BY <1>2, <1>4, <1>11 DEF R

LEMMA EvenOne == One = EvenScale(1)
BY DEF One, EvenScale, Scaled

LEMMA StretchedOnce ==
  ASSUME NEW A \in Table
  PROVE  Stretched(A, 1) = A
<1>1. \A i, j \in Axes : A[i][j] * 1 = A[i][j] BY DEF Table, Vec
<1>2. A = [i \in Axes |-> [j \in Axes |-> A[i][j]]] BY DEF Table, Vec
<1>3. QED BY <1>1, <1>2 DEF Stretched, Scaled

LEMMA ZeroVec == Zero \in Vec
BY DEF Zero, Vec

LEMMA IdentityPaired == Paired(transform_identity, mat4f_make_identity)
<1>1. mat4f_make_identity = Affine(Unit, Zero) BY DEF mat4f_make_identity, Unit
<1>2. mat4f_make_identity = Affine(Stretched(RotationTable(Identity), 1), Zero)
  BY <1>1, IdentityTurns, StretchedOnce
<1>3. Pair(transform_identity, mat4f_make_identity, Zero, 1, Identity)
  BY <1>2, IdentityTurns, EvenOne, ZeroVec DEF Pair, transform_identity
<1>4. QED BY <1>3, IdentityTurns, ZeroVec DEF Paired

LEMMA TranslationPaired ==
  ASSUME NEW t \in Vec
  PROVE  Paired(Transform(t, One, Identity), mat4f_make_translation(t))
<1> DEFINE e == mat4f_make_identity
           m == mat4f_make_translation(t)
<1>1. e = Affine(Unit, Zero) BY DEF mat4f_make_identity, Unit
<1>2. /\ \A i, j \in Axes : e[i][j] = Unit[i][j]
      /\ \A i \in Axes : e[i][4] = 0
      /\ Square(e)
  BY <1>1, AffineEntries
<1>3. m = [e EXCEPT ![4] = [j \in Entries |-> IF j = 4 THEN 1 ELSE t[j]]]
  BY DEF mat4f_make_translation
<1> HIDE DEF e, m
<1>4. DOMAIN e = Entries /\ \A i \in Entries : e[i] = [j \in Entries |-> e[i][j]]
  BY <1>2 DEF Square
<1>5. \A i \in Axes : i \in Entries /\ i # 4 /\ 4 \in Entries BY AxesAre
<1>6. \A i \in Axes : m[i] = e[i] BY <1>3, <1>4, <1>5
<1>7. 4 \in Entries BY AxesAre
<1>8. m[4] = [j \in Entries |-> IF j = 4 THEN 1 ELSE t[j]] BY <1>3, <1>4, <1>7
<1>9. m[4][4] = 1 /\ \A j \in Axes : m[4][j] = t[j] BY <1>5, <1>7, <1>8
<1>10. Square(m)
  <2>1. m = [i \in Entries |-> m[i]] BY <1>3, <1>4
  <2>2. \A i \in Entries : m[i] = [j \in Entries |-> m[i][j]]
    <3>1. \A i \in Entries : i \in Axes \/ i = 4 BY AxesAre
    <3>2. m[4] = [j \in Entries |-> m[4][j]] BY <1>8
    <3>3. \A i \in Axes : m[i] = [j \in Entries |-> m[i][j]] BY <1>4, <1>5, <1>6
    <3>4. QED BY <3>1, <3>2, <3>3
  <2>3. QED BY <2>1, <2>2 DEF Square
<1>11. m = Affine(Unit, t) BY <1>2, <1>6, <1>9, <1>10, IsAffine
<1>12. m = Affine(Stretched(RotationTable(Identity), 1), t) BY <1>11, IdentityTurns, StretchedOnce
<1>13. Pair(Transform(t, One, Identity), m, t, 1, Identity)
  BY <1>12, IdentityTurns, EvenOne DEF Pair
<1>14. QED BY <1>13, IdentityTurns DEF Paired, m

LEMMA ScalingPaired ==
  ASSUME NEW f \in {-1, 1}
  PROVE  Paired(Transform(Zero, EvenScale(f), Identity), mat4f_make_scaling(EvenScale(f)))
<1>1. \A i \in Axes : EvenScale(f)[i] = f
  <2>1. f \in Int OBVIOUS
  <2>2. QED BY <2>1, EvenScaleIs
<1>2. Stretched(Unit, f) = [i \in Axes |-> [j \in Axes |-> IF i = j THEN f ELSE 0]]
  <2>1. 1 * f = f /\ 0 * f = 0 OBVIOUS
  <2>2. QED BY <2>1 DEF Stretched, Scaled, Unit
<1>3. mat4f_make_scaling(EvenScale(f)) = Affine(Stretched(Unit, f), Zero)
  BY <1>1, <1>2 DEF mat4f_make_scaling
<1>4. Pair(Transform(Zero, EvenScale(f), Identity), mat4f_make_scaling(EvenScale(f)), Zero, f,
           Identity)
  BY <1>3, IdentityTurns, ZeroVec DEF Pair
<1>5. QED BY <1>4, IdentityTurns, ZeroVec DEF Paired

LEMMA RotationPaired ==
  ASSUME NEW q \in Rotations
  PROVE  Paired(Transform(Zero, One, q), mat4f_make_rotation(q))
<1>1. mat4f_make_rotation(q) = Affine(RotationTable(q), Zero) BY DEF mat4f_make_rotation, RotationTable
<1>2. Stretched(RotationTable(q), 1) = RotationTable(q) BY TurnFourTimes, StretchedOnce
<1>3. Pair(Transform(Zero, One, q), mat4f_make_rotation(q), Zero, 1, q)
  BY <1>1, <1>2, EvenOne, ZeroVec DEF Pair
<1>4. QED BY <1>3, ZeroVec DEF Paired

LEMMA SpaceSteps ==
  ASSUME Paired(transform, matrix), [SpaceNext]_<<transform, matrix>>
  PROVE  Paired(transform, matrix)'
<1>1. ASSUME NEW y, NEW n, Paired(y, n), Move(y, n) PROVE Paired(transform', matrix')
  BY <1>1, PairMultiplied DEF Move
<1>2. CASE \E t \in Boxed : Translate(t)
  <2>1. PICK t \in Boxed : Translate(t) BY <1>2
  <2>2. t \in Vec
    <3>1. -Box .. Box \subseteq Int BY BoxAssumption
    <3>2. QED BY <3>1 DEF Boxed, Vec
  <2>3. Paired(Transform(t, One, Identity), mat4f_make_translation(t)) BY <2>2, TranslationPaired
  <2>4. QED BY <1>1, <2>1, <2>3 DEF Translate
<1>3. CASE \E s \in {Scaled(One, f) : f \in {-1, 1}} : Scale(s)
  <2>1. PICK f \in {-1, 1} : Scale(EvenScale(f)) BY <1>3 DEF EvenScale
  <2>2. QED BY <1>1, <2>1, ScalingPaired DEF Scale
<1>4. CASE \E q \in Rotations : Rotate(q)
  BY <1>1, <1>4, RotationPaired DEF Rotate
<1>5. CASE Invert BY <1>5, PairInverted DEF Invert
<1>6. CASE UNCHANGED <<transform, matrix>> BY <1>6
<1>7. QED BY <1>2, <1>3, <1>4, <1>5, <1>6 DEF SpaceNext

LEMMA PartsKeepPairs ==
  ASSUME Paired(transform, matrix), PartsNext
  PROVE  Paired(transform, matrix)'
<1>1. CASE SpacePart BY <1>1, SpaceSteps DEF SpacePart
<1>2. CASE UNCHANGED spaceVars BY <1>2 DEF spaceVars
<1>3. GpuPart \/ HeapPart \/ TimerPart \/ WindowPart \/ GamePart => UNCHANGED spaceVars
  BY DEF GpuPart, HeapPart, TimerPart, WindowPart, GamePart
<1>4. QED BY <1>1, <1>2, <1>3 DEF PartsNext

(* An object's matrix is the one made of its transform, and takes every    *)
(* point where the transform takes it, after any moves, turns, even        *)
(* scalings and inversions, in a space of any size.                        *)
(* (transform.c:10-77, mat4f.c:81-186)                                     *)
THEOREM MatricesFollow == PartsSpec => []SpaceFollows
<1>1. PartsInit => Paired(transform, matrix)
  BY IdentityPaired DEF PartsInit, SpaceInit
<1>2. Paired(transform, matrix)
      /\ [PartsNext]_<<gpuVars, heapVars, timerVars, windowVars, spaceVars, gameVars, part>>
      => Paired(transform, matrix)'
  BY PartsKeepPairs DEF spaceVars
<1>3. Paired(transform, matrix) => SpaceFollows BY PairFollows DEF SpaceFollows
<1>4. QED BY <1>1, <1>2, <1>3, PTL DEF PartsSpec
=============================================================================
