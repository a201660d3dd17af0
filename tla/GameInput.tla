----------------------------- MODULE GameInput -----------------------------
(***************************************************************************)
(* What GameState makes of the keys, the characters and the mouse buttons  *)
(* that GLFW reports to it (states/GameState.cpp onChar, onKey, lockMouse, *)
(* unlockMouse, onMouseButton; Chatbox.cpp; LocalPlayer's directions). The *)
(* chat line, the menu and the game share the keyboard; the menu and the   *)
(* game share the pointer.                                                 *)
(*                                                                         *)
(* The module has no next-state relation of its own: ClientStates says     *)
(* when there is a GameState to report to.                                 *)
(***************************************************************************)
EXTENDS Naturals, FiniteSets

CONSTANTS
  Directions,  \* the keys bound to a movement
  MaxLine      \* bound: the length of a chat line

ASSUME InputAssumption == MaxLine \in Nat

VARIABLES
  held,         \* the direction keys that are down
  going,        \* LocalPlayer's goingForward, goingLeft, ...
  chatting,     \* Chatbox::m_isChatting
  line,         \* the length of m_chatString
  ignoreFirst,  \* m_chatIgnFirstKey
  menu,         \* UI.EM->isVisible()
  mouseLocked,  \* m_mouseLocked
  captured,     \* GLFW's cursor mode is DISABLED
  unheard       \* directions whose key went up while the chat line had the keyboard

keyboard == <<held, going, unheard>>
chatline == <<chatting, line, ignoreFirst>>
pointer == <<mouseLocked, captured>>
inputs == <<keyboard, chatline, menu, pointer>>

InputTypeOK ==
  /\ held \subseteq Directions /\ going \subseteq Directions /\ unheard \subseteq Directions
  /\ chatting \in BOOLEAN /\ ignoreFirst \in BOOLEAN /\ line \in 0 .. MaxLine
  /\ menu \in BOOLEAN /\ mouseLocked \in BOOLEAN /\ captured \in BOOLEAN

InputInit ==
  /\ held = {} /\ going = {} /\ unheard = {}
  /\ chatting = FALSE /\ line = 0 /\ ignoreFirst \in BOOLEAN
  /\ menu = FALSE /\ mouseLocked = FALSE /\ captured = FALSE

----------------------------------------------------------------------------
LockMouse == mouseLocked' = TRUE /\ captured' = TRUE
UnlockMouse == mouseLocked' = FALSE /\ captured' = FALSE

\* setIsChatting clears the line, whichever way it goes.
SetIsChatting(value) == chatting' = value /\ line' = 0

\* Neither the chat line nor the menu has the keyboard.
InGame == ~chatting /\ ~menu

PressDirection(d) ==
  /\ d \notin held
  /\ held' = held \cup {d}
  /\ going' = IF InGame THEN going \cup {d} ELSE going
  /\ unheard' = unheard \ {d}
  /\ UNCHANGED <<chatline, menu, pointer>>

ReleaseDirection(d) ==
  /\ d \in held
  /\ held' = held \ {d}
  /\ going' = IF InGame THEN going \ {d} ELSE going
  /\ unheard' = IF chatting THEN unheard \cup {d} ELSE unheard
  /\ UNCHANGED <<chatline, menu, pointer>>

PressChat_InMenu ==
  /\ ~chatting
  /\ SetIsChatting(TRUE)
  /\ ignoreFirst' = TRUE
  /\ UNCHANGED <<keyboard, menu, pointer>>

PressChat ==
  /\ InGame
  /\ SetIsChatting(TRUE)
  /\ ignoreFirst' = TRUE
  /\ UNCHANGED <<keyboard, menu, pointer>>

\* Enter ends the line. A line that is not empty is sent (SendChat).
PressEnter ==
  /\ chatting
  /\ SetIsChatting(FALSE)
  /\ UNCHANGED <<ignoreFirst, keyboard, menu, pointer>>

EscapeChat ==
  /\ chatting
  /\ SetIsChatting(FALSE)
  /\ UNCHANGED <<ignoreFirst, keyboard, menu, pointer>>

ToggleMenu_KeepGoing ==
  /\ ~chatting
  /\ menu' = ~menu
  /\ IF menu' THEN UnlockMouse ELSE LockMouse
  /\ UNCHANGED <<keyboard, chatline>>

\* The menu lets go of the mouse and of every direction.
ToggleMenu ==
  /\ ~chatting
  /\ menu' = ~menu
  /\ IF menu' THEN UnlockMouse /\ going' = {} ELSE LockMouse /\ UNCHANGED going
  /\ UNCHANGED <<held, unheard, chatline>>

\* Escape, in the chat line or out of it.
PressEscape == EscapeChat \/ ToggleMenu

\* F6
PressUnlock ==
  /\ UnlockMouse
  /\ UNCHANGED <<keyboard, chatline, menu>>

PressBackspace ==
  /\ chatting /\ line > 0
  /\ line' = line - 1
  /\ UNCHANGED <<chatting, ignoreFirst, keyboard, menu, pointer>>

\* A character, from whatever key or input method: the key that opened the chat line
\* types one too, as a rule.
OnChar ==
  /\ ignoreFirst' = FALSE
  /\ \/ ignoreFirst /\ UNCHANGED line
     \/ ~ignoreFirst /\ ~chatting /\ UNCHANGED line
     \/ ~ignoreFirst /\ chatting /\ line < MaxLine /\ line' = line + 1
  /\ UNCHANGED <<chatting, keyboard, menu, pointer>>

\* A button is pressed: the game takes the mouse, unless the menu has it. Whether or not
\* it does, the block pointed at is edited.
OnMouseButton ==
  /\ IF mouseLocked \/ menu THEN UNCHANGED pointer ELSE LockMouse
  /\ UNCHANGED <<keyboard, chatline, menu>>

----------------------------------------------------------------------------
(* Properties *)

\* The chat line and the menu never have the keyboard both: Escape closes the one before
\* it opens the other, and the menu keeps the chat key.
OneHasKeyboard == ~(chatting /\ menu)

\* The player goes in a direction only as long as its key is down, except for a key that
\* went up while the chat line was open: the menu stops all movement, the chat line
\* leaves it as it was, and neither passes a release on.
GoesWhileHeld == going \subseteq held \cup unheard
=============================================================================
