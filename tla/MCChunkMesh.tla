--------------------------- MODULE MCChunkMesh ---------------------------
(* Three chunks around the origin, on both sides of it along two axes, that arrive   *)
(* full or as a checkerboard: every block is at an edge, and two of the chunks *)
(* meet only at an edge. *)
EXTENDS ChunkMesh

MCAxes == 1 .. 3
MCPlaces == {<<-1, 0, 0>>, <<0, 0, 0>>, <<0, 0, -1>>}
Checkerboard == [c \in Cells |-> IF (c[1] + c[2] + c[3]) % 2 = 0 THEN "rock" ELSE "air"]
MCContents == {[c \in Cells |-> "rock"], Checkerboard}
==========================================================================
