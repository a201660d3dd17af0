--------------------------- MODULE MCClientStates ---------------------------
(* Two steps of time are allowed and the counter wraps at five: the deadline can pass *)
(* before, at and after the key exchange. *)
EXTENDS ClientStates
=============================================================================
