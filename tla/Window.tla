-------------------------------- MODULE Window --------------------------------
(***************************************************************************)
(* wm.c: a window whose key and mouse masks follow the messages posted to  *)
(* its thread, and the main loop that pumps it (main.c:23-26).  A message  *)
(* waits from a press to the next pump, which handles all there are; keys  *)
(* and buttons go to whichever program has them.  Mouse movement and the   *)
(* cursor are left out.                                                    *)
(***************************************************************************)
EXTENDS Integers, Sequences

CONSTANTS Keys,          \* of k_key_map
          Buttons,       \* of the mouse
          Others,        \* keys that are not in k_key_map
          MaxPosted      \* bound: messages waiting

VARIABLES down,          \* what is held down
          reached,       \* "keyboard", "mouse": those whose messages come here
          posted,        \* messages waiting
          mask,          \* key_mask and mouse_mask
          has_focus,
          quit,
          hwnd,          \* whether the window exists
          loop,          \* where main is
          missed         \* history: what was last pressed or let go elsewhere

windowVars == <<down, reached, posted, mask, has_focus, quit, hwnd, loop, missed>>

Mapped == Keys \cup Buttons

WindowInit == /\ down = {} /\ reached = {} /\ posted = <<>>
              /\ mask = {} /\ has_focus = FALSE /\ quit = FALSE /\ hwnd = TRUE
              /\ loop = "pump" /\ missed = {}

-----------------------------------------------------------------------------
(* Windows and the user.                                                   *)

Moves(k, msg) ==
  /\ IF hwnd /\ (IF k \in Buttons THEN "mouse" ELSE "keyboard") \in reached
     THEN /\ Len(posted) < MaxPosted
          /\ posted' = Append(posted, [msg |-> msg, key |-> k])
          /\ missed' = missed \ {k}
     ELSE missed' = missed \cup {k} /\ UNCHANGED posted
  /\ UNCHANGED <<reached, mask, has_focus, quit, hwnd, loop>>

(* A key that is held down is pressed again and again.                     *)
Press(k)   == (k \in Buttons => k \notin down) /\ down' = down \cup {k} /\ Moves(k, "down")
LetGo(k)   == k \in down /\ down' = down \ {k} /\ Moves(k, "up")

Turn(device) ==
  /\ reached' = IF device \in reached THEN reached \ {device} ELSE reached \cup {device}
  /\ UNCHANGED <<down, posted, mask, has_focus, quit, hwnd, loop, missed>>

AskToClose ==
  /\ hwnd /\ Len(posted) < MaxPosted
  /\ posted' = Append(posted, [msg |-> "close", key |-> "none"])
  /\ UNCHANGED <<down, reached, mask, has_focus, quit, hwnd, loop, missed>>

-----------------------------------------------------------------------------
(* _window_proc and wm_pump.  WM_ACTIVATEAPP is sent, and comes first.     *)

ActivateApp ==
  /\ loop = "pump" /\ hwnd /\ has_focus # ("keyboard" \in reached)
  /\ has_focus' = ~has_focus
  /\ UNCHANGED <<down, reached, posted, mask, quit, hwnd, loop, missed>>

(* FAULT: a release toggles the bit. *)
MaskAfterToggle(m, msg) ==
  IF msg.msg = "down" \/ msg.key \notin m THEN m \cup ({msg.key} \cap Mapped) ELSE m \ {msg.key}

MaskAfter(m, msg) ==
  IF msg.msg = "down" THEN m \cup ({msg.key} \cap Mapped) ELSE m \ {msg.key}

Handle ==
  /\ loop = "pump" /\ posted # <<>> /\ Head(posted).msg # "close"
  /\ posted' = Tail(posted)
  /\ mask' = MaskAfter(mask, Head(posted))
  /\ UNCHANGED <<down, reached, has_focus, quit, hwnd, loop, missed>>

(* DefWindowProc destroys the window; its messages go with it.             *)
HandleClose ==
  /\ loop = "pump" /\ posted # <<>> /\ Head(posted).msg = "close"
  /\ quit' = TRUE /\ hwnd' = FALSE /\ posted' = <<>>
  /\ UNCHANGED <<down, reached, mask, has_focus, loop, missed>>

Pumped ==
  /\ loop = "pump" /\ posted = <<>>
  /\ loop' = IF quit THEN "quit" ELSE "frame"
  /\ UNCHANGED <<down, reached, posted, mask, has_focus, quit, hwnd, missed>>

(* frogger_game_update reads the masks.                                    *)
Frame ==
  /\ loop = "frame" /\ loop' = "pump"
  /\ UNCHANGED <<down, reached, posted, mask, has_focus, quit, hwnd, missed>>

-----------------------------------------------------------------------------
WindowNext == \/ \E k \in Mapped \cup Others : Press(k) \/ LetGo(k)
              \/ \E device \in {"keyboard", "mouse"} : Turn(device)
              \/ AskToClose \/ ActivateApp \/ Handle \/ HandleClose \/ Pumped \/ Frame

WindowSpec == WindowInit /\ [][WindowNext]_windowVars

(* The last message that waits for a key tells; without one, the masks do. *)
Shown(k) ==
  LET about == {n \in DOMAIN posted : posted[n].key = k}
  IN  IF about = {} THEN k \in mask
      ELSE \E n \in about : posted[n].msg = "down" /\ \A later \in about : later <= n

(* With the messages that wait, the masks are what is held down, but for   *)
(* what was pressed or let go while another program had it; and no frame   *)
(* is made without a window.  (wm.c:46-83, 111-118)                        *)
MasksFollowKeys ==
  /\ hwnd => \A k \in Mapped \ missed : (Shown(k) <=> k \in down)
  /\ mask \subseteq Mapped
  /\ loop = "frame" => hwnd
=============================================================================
