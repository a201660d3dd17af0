----------------------------- MODULE MCMapSync ------------------------------
(* Two clients, one or two blocks and two edits: an edit can fall before,            *)
(* in and after generation, between a copy's serialisation and its arrival, and into *)
(* the updater's flush; a second client joins at any of these moments.               *)
EXTENDS MapSync
=============================================================================
