----------------------------- MODULE ChunkMesh -----------------------------
(***************************************************************************)
(* The client's chunks and the meshes they are drawn with (Chunk.cpp       *)
(* read, setBlock, notifyChange, updateClient, imcCompress, imcUncompress; *)
(* World.cpp's lookups and refresh; render/gl/WorldRenderer.cpp render). A *)
(* mesh is built from a chunk's blocks and the blocks that touch it in its *)
(* neighbours, and kept until the chunk is marked dirty and seen again. A  *)
(* chunk nobody looked into for two seconds is compressed in memory, until *)
(* the next look into it.                                                  *)
(*                                                                         *)
(* Everything runs on the main thread: a step is one message handled, one  *)
(* look at a block, or half of a chunk's turn in a frame. A turn has two   *)
(* halves, each of which may be all of it: Rest if the chunk was not       *)
(* looked into for long, Draw if it is in the view. How long ago that was  *)
(* is left out: it may be over two seconds at any frame.                   *)
(***************************************************************************)
EXTENDS CoordMath, FiniteSets

CONSTANTS
  Axes,      \* x, y and z
  Size,      \* blocks along an axis of a chunk (CX, CY, CZ: 16)
  Places,    \* the chunk coordinates the server sends
  Contents,  \* what a chunk may hold when it arrives
  IndexLimit, \* what a ushort counts to: 65536
  Null,      \* nullptr
  MaxEdits   \* bound: block updates handled

Blocks == {"air", "rock"}
Vectors == [Axes -> Int]
Cells == [Axes -> 0 .. Size - 1]
Sides == {[i \in Axes |-> IF i = axis THEN step ELSE 0] : axis \in Axes, step \in {-1, 1}}

ASSUME MeshAssumption ==
  /\ IsFiniteSet(Axes)
  /\ Size \in Nat \ {0} /\ Size % 2 = 0
  /\ Places \subseteq Vectors
  /\ Contents \subseteq [Cells -> Blocks]
  /\ IndexLimit \in Nat \ {0}
  /\ Null \notin [Cells -> Blocks] /\ Null \notin [lzo : [Cells -> Blocks]]
  /\ MaxEdits \in Nat

VARIABLES
  loaded,  \* the places whose chunk the map finds (and holdChunksInMem keeps)
  chunk,   \* the two pointers of each, of which one is null: data and imcData
  dirty,   \* the chunks marked dirty
  mesh,    \* each chunk's buffers: the faces there, and how many indices are drawn
  edits    \* bound: updates handled so far

vars == <<loaded, chunk, dirty, mesh, edits>>

Plain == [data : [Cells -> Blocks], imcData : {Null}]
Packed == [data : {Null}, imcData : [lzo : [Cells -> Blocks]]]

\* Type invariant.
TypeOK ==
  /\ loaded \subseteq Places
  /\ chunk \in [Places -> Plain \cup Packed]
  /\ dirty \subseteq loaded
  /\ mesh \in [Places -> [faces : SUBSET (Cells \X Sides), indices : 0 .. IndexLimit - 1]]
  /\ edits \in 0 .. MaxEdits

Add(a, b) == [i \in Axes |-> a[i] + b[i]]
Corner(p) == [i \in Axes |-> p[i] * Size]  \* of a chunk, in blocks

NewChunk(blocks) == [data |-> blocks, imcData |-> Null]

Init ==
  /\ loaded = {}
  /\ chunk = [p \in Places |-> NewChunk([c \in Cells |-> "air"])]
  /\ dirty = {}
  /\ mesh = [p \in Places |-> [faces |-> {}, indices |-> 0]]
  /\ edits = 0

----------------------------------------------------------------------------
\* lzo1x_1_compress and lzo1x_decompress
Lzo(blocks) == [lzo |-> blocks]
Unlzo(packed) == packed.lzo

\* One way, and the other: each allocates what it fills and frees what it read.
ImcCompress(c) == [data |-> Null, imcData |-> Lzo(c.data)]
ImcUncompress(c) == IF c.imcData = Null THEN c ELSE NewChunk(Unlzo(c.imcData))

\* The blocks of a chunk, to whoever looks into it.
BlocksOf(p) == ImcUncompress(chunk[p]).data

\* World::getBlockId, of a position in the world: "ignore" where there is no chunk.
PlaceOf(pos) == [i \in Axes |-> DivRd(pos[i], Size)]
CellOf(pos) == [i \in Axes |-> RMod(pos[i], Size)]
WorldBlock(pos) ==
  IF PlaceOf(pos) \in loaded THEN BlocksOf(PlaceOf(pos))[CellOf(pos)] ELSE "ignore"

\* Chunk::getBlockId, of a position relative to the chunk: inside it, or in the world.
BlockAt(p, c) ==
  IF c \in Cells THEN BlocksOf(p)[c] ELSE WorldBlock(Add(Corner(p), c))

IsTransparent(block) == block = "air"

IsFaceVisible_All(b1, b2) == TRUE

IsFaceVisible(b1, b2) == IF IsTransparent(b1) THEN b1 # b2 ELSE IsTransparent(b2)

\* What updateClient puts in the buffers: the faces of the blocks that are not empty
\* which their neighbour does not hide.
Faces(p) ==
  {f \in Cells \X Sides :
     BlocksOf(p)[f[1]] # "air" /\ IsFaceVisible(BlocksOf(p)[f[1]], BlockAt(p, Add(f[1], f[2])))}

\* Six indices a face, counted in 16 bits. (The four vertices a face are, too, but there
\* are 49152 of them at most.)
MeshOf(faces) == [faces |-> faces, indices |-> (6 * Cardinality(faces)) % IndexLimit]

\* The chunks it looks into: itself, and those next to its blocks that are not empty.
LookedInto(p) ==
  {p} \cup {Add(p, s) : s \in
    {t \in Sides : \E c \in Cells : BlocksOf(p)[c] # "air" /\ Add(c, t) \notin Cells}}

----------------------------------------------------------------------------
MarkAsDirty_Unchecked(places) == dirty' = dirty \cup places

\* markAsDirty of those chunks the map finds.
MarkAsDirty(places) == dirty' = dirty \cup (places \cap loaded')

Neighbours(p, sides) == {Add(p, s) : s \in sides}

\* ChunkTransferHandler: a chunk the map does not have yet is dirty from the start. One
\* it has stays what it is, and the new object is only held. Either way read() marks the
\* neighbours.
Receive(p, content) ==
  /\ loaded' = loaded \cup {p}
  /\ IF p \in loaded
     THEN UNCHANGED chunk /\ MarkAsDirty(Neighbours(p, Sides))
     ELSE /\ chunk' = [chunk EXCEPT ![p] = NewChunk(content)]
          /\ MarkAsDirty({p} \cup Neighbours(p, Sides))
  /\ UNCHANGED <<mesh, edits>>

Touched_NoUpper(c) == {s \in Sides : \E i \in Axes : s[i] = -1 /\ c[i] = 0}

\* The sides a block is at.
Touched(c) ==
  {s \in Sides : \E i \in Axes : (s[i] = 1 /\ c[i] = Size - 1) \/ (s[i] = -1 /\ c[i] = 0)}

\* BlockUpdateHandler, one update: the chunk there, if any, sets the block and marks
\* itself and the neighbours the block is at. A compressed one is uncompressed first.
Update(pos, block) ==
  /\ edits < MaxEdits
  /\ edits' = edits + 1
  /\ UNCHANGED <<loaded, mesh>>
  /\ LET p == PlaceOf(pos)
         c == CellOf(pos)
     IN IF p \in loaded
        THEN /\ chunk' = [chunk EXCEPT ![p] = NewChunk([BlocksOf(p) EXCEPT ![c] = block])]
             /\ MarkAsDirty({p} \cup Neighbours(p, Touched(c)))
        ELSE UNCHANGED <<chunk, dirty>>

\* World::refresh
Refresh ==
  /\ UNCHANGED <<loaded, chunk, mesh, edits>>
  /\ MarkAsDirty(loaded)

\* The player's movement, the block pointed at: a look at a block, which uncompresses
\* its chunk.
Look(p) ==
  /\ p \in loaded
  /\ chunk' = [chunk EXCEPT ![p] = ImcUncompress(@)]
  /\ UNCHANGED <<loaded, dirty, mesh, edits>>

\* A frame finds that nobody has looked into the chunk for long.
Rest(p) ==
  /\ p \in loaded
  /\ chunk[p].imcData = Null
  /\ chunk' = [chunk EXCEPT ![p] = ImcCompress(@)]
  /\ UNCHANGED <<loaded, dirty, mesh, edits>>

\* A frame finds the chunk in the view, and dirty: it is meshed again.
Draw(p) ==
  /\ p \in dirty
  /\ chunk' = [q \in Places |->
                 IF q \in LookedInto(p) \cap loaded THEN ImcUncompress(chunk[q]) ELSE chunk[q]]
  /\ mesh' = [mesh EXCEPT ![p] = MeshOf(Faces(p))]
  /\ dirty' = dirty \ {p}
  /\ UNCHANGED <<loaded, edits>>

Positions == {Add(Corner(p), c) : p \in Places, c \in Cells}

Next ==
  \/ \E p \in Places, content \in Contents : Receive(p, content)
  \/ \E pos \in Positions, block \in Blocks : Update(pos, block)
  \/ Refresh
  \/ \E p \in Places : Look(p) \/ Rest(p) \/ Draw(p)

Spec == Init /\ [][Next]_vars

----------------------------------------------------------------------------
(* Properties *)

\* A chunk that is not dirty has the mesh of its blocks as they are, compressed or not:
\* whatever arrives or changes next to it, or at its edge, marks it, in any order of
\* arrivals, edits, looks and frames that see only some of the chunks. All of that mesh
\* is drawn if 16 bits count its indices; of a whole checkerboard they do not.
MeshFresh ==
  \A p \in loaded \ dirty :
    /\ mesh[p].faces = Faces(p)
    /\ LET indices == 6 * Cardinality(mesh[p].faces)
       IN indices < IndexLimit => mesh[p].indices = indices

\* Hidden faces halve what a chunk can have ("face removing (HSR) makes a lower vert
\* max", Chunk.cpp:285): the buffers hold any mesh, checkerboards included.
FitsBuffers ==
  \A p \in Places :
    2 * Cardinality(mesh[p].faces) <= Cardinality(Cells) * Cardinality(Sides)
=============================================================================
