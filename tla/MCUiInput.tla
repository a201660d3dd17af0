----------------------------- MODULE MCUiInput ------------------------------
(* One direction key and a line of one character: what matters is the menu. *)
EXTENDS UiInput
=============================================================================
