------------------------------ MODULE UiInput ------------------------------
(***************************************************************************)
(* GameWindow's callbacks (GameWindow.cpp cbKey, cbChar, cbMouseButton,    *)
(* cbCursorPos, cbMouseScroll) while a game runs: every input goes to the  *)
(* user interface's manager first (ui/Manager.cpp), then to GameState,     *)
(* which is GameInput's. The manager remembers the element under the       *)
(* cursor when the cursor last moved, and GameState shows and hides        *)
(* elements without telling it.                                            *)
(*                                                                         *)
(* Elements drawn by hand (the chat line, the menu's texts) get no input   *)
(* from the manager and are left out. The areas of the others do not       *)
(* overlap.                                                                *)
(***************************************************************************)
EXTENDS GameInput

Elements == {"FPS", "DebugInfo", "EscMenu"}
None == "none"

VARIABLES
  debug,    \* debugInfo.show
  hovered,  \* m_hoveredElement
  over,     \* the elements whose m_isCursorOver is set
  given     \* what the manager passed on in the last step: element and callback

vars == <<inputs, debug, hovered, over, given>>

Init ==
  /\ InputInit
  /\ debug = FALSE
  /\ hovered = None
  /\ over = {}
  /\ given = {}

IsVisible(e) == CASE e = "FPS" -> TRUE [] e = "DebugInfo" -> debug [] e = "EscMenu" -> menu

To(e, callbacks) == ({e} \cap Elements) \X callbacks

\* Manager::onCursorPos, in the area of an element or of none. GameState turns the view.
CursorPos(area) ==
  LET now == IF area \in Elements /\ IsVisible(area) THEN area ELSE None
  IN /\ hovered' = now
     /\ over' = IF now = hovered THEN over ELSE (over \ {hovered}) \cup ({now} \cap Elements)
     /\ given' = To(now, {"onCursorMove"})
                   \cup IF now = hovered THEN {}
                        ELSE To(hovered, {"onCursorLeave"}) \cup To(now, {"onCursorEnter"})
     /\ UNCHANGED <<inputs, debug>>

\* Manager::onMouseButton. setFocused finds the element it is given already hovered, and
\* does nothing.
MouseDown ==
  /\ given' = To(hovered, {"onMouseDown"})
  /\ OnMouseButton
  /\ UNCHANGED <<debug, hovered, over>>

MouseUp ==
  /\ given' = To(hovered, {"onMouseUp"})
  /\ UNCHANGED <<inputs, debug, hovered, over>>

MouseScroll ==
  /\ given' = To(hovered, {"onMouseScroll"})
  /\ UNCHANGED <<inputs, debug, hovered, over>>

\* F5
PressDebug ==
  /\ debug' = ~debug
  /\ given' = {}
  /\ UNCHANGED <<inputs, hovered, over>>

\* Keys and characters: the manager passes none on.
Keyboard ==
  /\ \/ \E d \in Directions : PressDirection(d) \/ ReleaseDirection(d)
     \/ PressChat \/ PressEnter \/ PressEscape \/ PressUnlock \/ PressBackspace \/ OnChar
  /\ given' = {}
  /\ UNCHANGED <<debug, hovered, over>>

Next ==
  \/ \E area \in Elements \cup {None} : CursorPos(area)
  \/ MouseDown
  \/ MouseUp
  \/ MouseScroll
  \/ PressDebug
  \/ Keyboard

Spec == Init /\ [][Next]_vars

----------------------------------------------------------------------------
(* Properties *)

\* ui/README.md: "Hiding an element also disables any input to it". Nothing but the
\* cursor's leaving is passed on to an element that is hidden when the input arrives. The
\* manager looks at visibility only when the cursor moves: a menu closed by a key still
\* gets the buttons and the wheel until then.
HiddenGetsNoInput ==
  [][\A e \in Elements : ~IsVisible(e) => given' \cap ({e} \X {"onCursorEnter", "onCursorMove",
       "onMouseDown", "onMouseUp", "onMouseScroll"}) = {}]_vars
=============================================================================
