--------------------------- MODULE MCChunkService ---------------------------
(* One position the server keeps and one it does not, so that the second is dropped  *)
(* and asked for again; batches of one, so that a list is walked in several rounds.  *)
EXTENDS ChunkService
=============================================================================
