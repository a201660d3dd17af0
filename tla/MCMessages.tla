----------------------------- MODULE MCMessages -----------------------------
(* Messages with a byte of three values and a short of four. *)
EXTENDS Messages
=============================================================================
