-------------------------- MODULE ChunkMesh_proofs --------------------------
(***************************************************************************)
(* Proofs about ChunkMesh, for any axes, chunk size, chunks and contents,  *)
(* and about the integer helpers it rests on, for all integers.            *)
(***************************************************************************)
EXTENDS ChunkMesh, FiniteSetTheorems, TLAPS

(* What the library's division gives for naturals. *)
LEMMA NatDivision ==
  ASSUME NEW n \in Nat, NEW y \in Nat, y > 0
  PROVE  /\ n \div y \in Nat /\ n % y \in Nat
         /\ n % y < y
         /\ n = y * (n \div y) + (n % y)
  OBVIOUS

(* Quotient and remainder are determined by the number. *)
LEMMA DivisionUnique ==
  ASSUME NEW y \in Nat, y > 0,
         NEW q \in Int, NEW r \in Int, 0 <= r, r < y,
         NEW p \in Int, NEW s \in Int, 0 <= s, s < y,
         y * q + r = y * p + s
  PROVE  q = p /\ r = s
  BY SMTT(30)

(* divrd and rmod split any integer, the negative ones at multiples of y included: C++'s *)
(* division rounds toward zero, and they make up for it. *)
THEOREM DivRdRMod ==
  ASSUME NEW x \in Int, NEW y \in Nat, y > 0
  PROVE  /\ DivRd(x, y) \in Int
         /\ RMod(x, y) \in 0 .. y - 1
         /\ x = y * DivRd(x, y) + RMod(x, y)
  <1>1. CASE x >= 0
    <2>1. DivRd(x, y) = x \div y /\ Remainder(x, y) = x - y * (x \div y)
      BY <1>1 DEF DivRd, Remainder, Quotient
    <2>2. x \div y \in Nat /\ x % y \in Nat /\ x % y < y /\ x = y * (x \div y) + (x % y)
      BY <1>1, NatDivision
    <2>3. Remainder(x, y) = x % y
      BY <2>1, <2>2
    <2>4. RMod(x, y) = x % y
      BY <2>2, <2>3 DEF RMod
    <2> QED
      BY <2>1, <2>2, <2>4
  <1>2. CASE x < 0
    <2> DEFINE a == (-x) \div y
               b == (-x) % y
               c == (-(x + 1)) \div y
               d == (-(x + 1)) % y
    <2>1. a \in Nat /\ b \in Nat /\ b < y /\ -x = y * a + b
      BY <1>2, NatDivision
    <2>2. c \in Nat /\ d \in Nat /\ d < y /\ -(x + 1) = y * c + d
      BY <1>2, NatDivision
    <2>3. Remainder(x, y) = x - y * (-a)
      BY <1>2 DEF Remainder, Quotient
    <2>4. RMod(x, y) = IF b = 0 THEN 0 ELSE y - b
      <3> HIDE DEF a, b
      <3>1. y * (-a) = -(y * a)
        BY <2>1
      <3>2. Remainder(x, y) = -b
        BY <2>1, <2>3, <3>1
      <3> QED
        BY <2>1, <3>2 DEF RMod
    <2>5. DivRd(x, y) = -c - 1
      <3>1. CASE x + 1 < 0
        BY <1>2, <3>1 DEF DivRd, Quotient
      <3>2. CASE x + 1 = 0
        <4>1. y * c + d = y * 0 + 0
          BY <2>2, <3>2
        <4>2. c = 0
          <5> HIDE DEF c, d
          <5> QED
            BY <2>2, <4>1, DivisionUnique
        <4>3. DivRd(x, y) = (0 \div y) - 1
          BY <1>2, <3>2 DEF DivRd, Quotient
        <4>4. 0 \div y = c
          BY <3>2
        <4> QED
          BY <4>2, <4>3, <4>4
      <3> QED
        BY <1>2, <3>1, <3>2
    <2> HIDE DEF a, b, c, d
    <2>6. y * a + b = y * c + (d + 1)
      BY <2>1, <2>2
    <2>7. CASE d + 1 < y
      <3>1. a = c /\ b = d + 1
        <4>1. d + 1 \in Int /\ 0 <= d + 1 /\ a \in Int /\ b \in Int /\ 0 <= b /\ c \in Int
          BY <2>1, <2>2
        <4> QED
          BY <2>1, <2>6, <2>7, <4>1, DivisionUnique
      <3>2. DivRd(x, y) = -a - 1 /\ RMod(x, y) = y - b
        BY <2>2, <2>4, <2>5, <3>1
      <3>3. y * (-a - 1) = -(y * a) - y
        BY <2>1
      <3> QED
        BY <2>1, <2>2, <3>1, <3>2, <3>3
    <2>8. CASE d + 1 = y
      <3>1. y * (c + 1) + 0 = y * c + (d + 1)
        BY <2>2, <2>8
      <3>2. a = c + 1 /\ b = 0
        BY <2>1, <2>2, <2>6, <3>1, DivisionUnique
      <3>3. DivRd(x, y) = -a /\ RMod(x, y) = 0
        BY <2>2, <2>4, <2>5, <3>2
      <3>4. y * (-a) = -(y * a)
        BY <2>1
      <3> QED
        BY <2>1, <3>2, <3>3, <3>4
    <2> QED
      BY <2>2, <2>7, <2>8
  <1> QED
    BY <1>1, <1>2

(* The chunk of a block, and its place there, are what they were put together from. *)
LEMMA Recombined ==
  ASSUME NEW y \in Nat, y > 0, NEW q \in Int, NEW r \in 0 .. y - 1
  PROVE  DivRd(q * y + r, y) = q /\ RMod(q * y + r, y) = r
  <1>1. q * y + r \in Int /\ q * y + r = y * q + r
    OBVIOUS
  <1> DEFINE x == q * y + r
  <1>2. DivRd(x, y) \in Int /\ RMod(x, y) \in 0 .. y - 1 /\ x = y * DivRd(x, y) + RMod(x, y)
    BY <1>1, DivRdRMod
  <1> QED
    BY <1>1, <1>2, DivisionUnique

----------------------------------------------------------------------------
(* Positions in the world. *)

LEMMA SidesAre ==
  ASSUME NEW s \in Sides
  PROVE  \E axis \in Axes, step \in {-1, 1} :
           s = [i \in Axes |-> IF i = axis THEN step ELSE 0]
  BY DEF Sides

LEMMA SidesOpposite ==
  ASSUME NEW s \in Sides
  PROVE  [i \in Axes |-> -s[i]] \in Sides
  <1>1. PICK axis \in Axes, step \in {-1, 1} : s = [i \in Axes |-> IF i = axis THEN step ELSE 0]
    BY SidesAre
  <1>2. -step \in {-1, 1}
    OBVIOUS
  <1>3. [i \in Axes |-> -s[i]] = [i \in Axes |-> IF i = axis THEN -step ELSE 0]
    BY <1>1
  <1> QED
    BY <1>2, <1>3 DEF Sides

LEMMA Sizes == Size \in Nat /\ Size > 1 /\ Size % 2 = 0
  BY MeshAssumption

(* The world's position of a block of chunk q. *)
LEMMA InsideChunk ==
  ASSUME NEW q \in Vectors, NEW c \in Cells
  PROVE  /\ Add(Corner(q), c) \in Vectors
         /\ PlaceOf(Add(Corner(q), c)) = q /\ CellOf(Add(Corner(q), c)) = c
  <1> DEFINE x == Add(Corner(q), c)
  <1>1. x = [i \in Axes |-> q[i] * Size + c[i]]
    BY DEF Add, Corner
  <1>2. \A i \in Axes : /\ q[i] * Size + c[i] \in Int
                        /\ DivRd(q[i] * Size + c[i], Size) = q[i]
                        /\ RMod(q[i] * Size + c[i], Size) = c[i]
    <2> SUFFICES ASSUME NEW i \in Axes
                 PROVE  /\ q[i] * Size + c[i] \in Int
                        /\ DivRd(q[i] * Size + c[i], Size) = q[i]
                        /\ RMod(q[i] * Size + c[i], Size) = c[i]
      OBVIOUS
    <2>1. q[i] \in Int /\ c[i] \in 0 .. Size - 1
      BY DEF Vectors, Cells
    <2>2. Size > 0 /\ Size \in Nat
      BY Sizes
    <2>3. DivRd(q[i] * Size + c[i], Size) = q[i] /\ RMod(q[i] * Size + c[i], Size) = c[i]
      BY <2>1, <2>2, Recombined
    <2>4. q[i] * Size + c[i] \in Int
      BY <2>1, <2>2
    <2> QED
      BY <2>3, <2>4
  <1>3. PlaceOf(x) = [i \in Axes |-> q[i]] /\ CellOf(x) = [i \in Axes |-> c[i]]
    BY <1>1, <1>2 DEF PlaceOf, CellOf
  <1> QED
    BY <1>1, <1>2, <1>3 DEF Vectors, Cells

(* A step out of the chunk leads to the neighbour on that side, and to the layer of its *)
(* blocks that faces back. *)
LEMMA StepOut ==
  ASSUME NEW q \in Vectors, NEW c \in Cells, NEW s \in Sides, Add(c, s) \notin Cells
  PROVE  /\ PlaceOf(Add(Corner(q), Add(c, s))) = Add(q, s)
         /\ CellOf(Add(Corner(q), Add(c, s))) \in Cells
         /\ [i \in Axes |-> -s[i]] \in Touched(CellOf(Add(Corner(q), Add(c, s))))
  <1>1. PICK axis \in Axes, step \in {-1, 1} : s = [i \in Axes |-> IF i = axis THEN step ELSE 0]
    BY SidesAre
  <1> DEFINE e == [i \in Axes |-> IF i = axis THEN IF step = 1 THEN 0 ELSE Size - 1 ELSE c[i]]
  <1>2. s \in Vectors /\ \A i \in Axes : c[i] \in 0 .. Size - 1 /\ q[i] \in Int
    BY <1>1 DEF Cells, Vectors
  <1>3. (step = 1 /\ c[axis] = Size - 1) \/ (step = -1 /\ c[axis] = 0)
    <2> SUFFICES ASSUME c[axis] + step \in 0 .. Size - 1 PROVE FALSE
      BY <1>2, Sizes
    <2>1. \A i \in Axes : c[i] + s[i] \in 0 .. Size - 1
      BY <1>1, <1>2
    <2> QED
      BY <2>1 DEF Add, Cells
  <1>4. e \in Cells
    BY <1>2, Sizes DEF Cells
  <1>5. Add(q, s) \in Vectors
    BY <1>2 DEF Add, Vectors
  <1>6. Add(Corner(q), Add(c, s)) = Add(Corner(Add(q, s)), e)
    <2>1. ASSUME NEW i \in Axes
          PROVE  q[i] * Size + (c[i] + s[i]) = (q[i] + s[i]) * Size + e[i]
      <3>1. CASE i # axis
        BY <1>1, <1>2, <3>1, Sizes
      <3>2. CASE i = axis
        BY <1>1, <1>2, <1>3, <3>2, Sizes
      <3> QED
        BY <3>1, <3>2
    <2> QED
      BY <2>1 DEF Add, Corner
  <1>7. PlaceOf(Add(Corner(q), Add(c, s))) = Add(q, s) /\ CellOf(Add(Corner(q), Add(c, s))) = e
    BY <1>4, <1>5, <1>6, InsideChunk
  <1>8. [i \in Axes |-> -s[i]] \in Touched(e)
    <2> DEFINE t == [i \in Axes |-> -s[i]]
    <2>1. t \in Sides
      BY SidesOpposite
    <2>2. (t[axis] = -1 /\ e[axis] = 0) \/ (t[axis] = 1 /\ e[axis] = Size - 1)
      BY <1>1
    <2> QED
      BY <2>1, <2>2 DEF Touched
  <1> QED
    BY <1>4, <1>7, <1>8

(* A chunk has finitely many faces: a cell is a set of pairs of an axis and a place on it. *)
LEMMA FacesFinite ==
  /\ IsFiniteSet(Cells) /\ IsFiniteSet(Sides) /\ IsFiniteSet(Cells \X Sides)
  /\ Cardinality(Cells) \in Nat /\ Cardinality(Sides) \in Nat
  /\ Cardinality(Cells \X Sides) = Cardinality(Cells) * Cardinality(Sides)
  <1>1. IsFiniteSet(Cells)
    <2> DEFINE pairs == Axes \X (0 .. Size - 1)
               graph == [c \in Cells |-> {<<i, c[i]>> : i \in Axes}]
    <2>1. IsFiniteSet(pairs)
      <3>1. IsFiniteSet(0 .. Size - 1)
        BY Sizes, FS_Interval
      <3> QED
        BY <3>1, MeshAssumption, FS_Product
    <2>2. IsFiniteSet(SUBSET pairs)
      BY <2>1, FS_SUBSET
    <2>3. graph \in [Cells -> SUBSET pairs]
      BY DEF Cells
    <2>4. ASSUME NEW c \in Cells, NEW d \in Cells, graph[c] = graph[d] PROVE c = d
      <3>1. \A i \in Axes : c[i] = d[i]
        <4> SUFFICES ASSUME NEW i \in Axes PROVE c[i] = d[i]
          OBVIOUS
        <4>1. <<i, c[i]>> \in graph[d]
          BY <2>4
        <4> QED
          BY <4>1
      <3> QED
        BY <3>1 DEF Cells
    <2>5. graph \in Injection(Cells, SUBSET pairs)
      <3> HIDE DEF graph
      <3> QED
        BY <2>3, <2>4 DEF Injection, IsInjective
    <2> QED
      BY <2>2, <2>5, FS_Injection
  <1>2. IsFiniteSet(Sides)
    <2> DEFINE turns == Axes \X {-1, 1}
               side == [t \in turns |-> [i \in Axes |-> IF i = t[1] THEN t[2] ELSE 0]]
    <2>1. IsFiniteSet({-1, 1})
      <3>1. {-1, 1} = {-1} \cup {1}
        OBVIOUS
      <3>2. IsFiniteSet({-1})
        BY FS_Singleton
      <3> QED
        BY <3>1, <3>2, FS_AddElement
    <2>2. IsFiniteSet(turns)
      BY <2>1, MeshAssumption, FS_Product
    <2>3. side \in Surjection(turns, Sides)
      <3>1. side \in [turns -> Sides]
        BY DEF Sides
      <3>2. \A s \in Sides : \E t \in turns : side[t] = s
        <4> TAKE s \in Sides
        <4>1. PICK a \in Axes, step \in {-1, 1} :
                s = [i \in Axes |-> IF i = a THEN step ELSE 0]
          BY SidesAre
        <4>2. <<a, step>> \in turns
          OBVIOUS
        <4>3. side[<<a, step>>] = s
          BY <4>1, <4>2
        <4> QED
          BY <4>2, <4>3
      <3> HIDE DEF side
      <3> QED
        BY <3>1, <3>2 DEF Surjection
    <2> QED
      BY <2>2, <2>3, FS_Surjection
  <1> QED
    BY <1>1, <1>2, FS_Product, FS_CardinalityType

----------------------------------------------------------------------------
(* The invariant *)

(* What a mesh is until its chunk is marked. *)
MeshCurrent == \A p \in loaded \ dirty : mesh[p] = MeshOf(Faces(p))

IInv == TypeOK /\ MeshCurrent

(* Either way a chunk is stored, its blocks are there; the other way they are the same. *)
LEMMA Stored ==
  ASSUME NEW c \in Plain \cup Packed
  PROVE  /\ ImcUncompress(c) \in Plain
         /\ ImcUncompress(ImcUncompress(c)) = ImcUncompress(c)
         /\ c.imcData = Null =>
              ImcCompress(c) \in Packed /\ ImcUncompress(ImcCompress(c)) = ImcUncompress(c)
  <1>1. CASE c \in Plain
    <2>1. c.data \in [Cells -> Blocks] /\ c.imcData = Null /\ ImcUncompress(c) = c
      BY <1>1 DEF Plain, ImcUncompress
    <2>2. ImcCompress(c) = [data |-> Null, imcData |-> [lzo |-> c.data]]
      BY DEF ImcCompress, Lzo
    <2>3. ImcCompress(c) \in Packed /\ ImcCompress(c).imcData # Null
      BY <2>1, <2>2, MeshAssumption DEF Packed
    <2>4. ImcUncompress(ImcCompress(c)) = [data |-> c.data, imcData |-> Null]
      BY <2>2, <2>3 DEF ImcUncompress, NewChunk, Unlzo
    <2>5. c = [data |-> c.data, imcData |-> Null]
      BY <1>1 DEF Plain
    <2> QED
      BY <1>1, <2>1, <2>3, <2>4, <2>5
  <1>2. CASE c \in Packed
    <2>1. c.imcData # Null /\ c.imcData.lzo \in [Cells -> Blocks]
      BY <1>2, MeshAssumption DEF Packed
    <2>2. ImcUncompress(c) = [data |-> c.imcData.lzo, imcData |-> Null]
      BY <2>1 DEF ImcUncompress, NewChunk, Unlzo
    <2>3. ImcUncompress(c) \in Plain /\ ImcUncompress(c).imcData = Null
      BY <2>1, <2>2 DEF Plain
    <2>4. ImcUncompress(ImcUncompress(c)) = ImcUncompress(c)
      BY <2>3 DEF ImcUncompress
    <2> QED
      BY <2>1, <2>3, <2>4
  <1> QED
    BY <1>1, <1>2

(* A chunk's array, new or just written to. *)
LEMMA NewStored ==
  ASSUME NEW blocks \in [Cells -> Blocks]
  PROVE  NewChunk(blocks) \in Plain /\ ImcUncompress(NewChunk(blocks)).data = blocks
  BY DEF NewChunk, Plain, ImcUncompress

LEMMA BlocksTyped ==
  ASSUME TypeOK, NEW p \in Places
  PROVE  BlocksOf(p) \in [Cells -> Blocks]
  <1>1. chunk[p] \in Plain \cup Packed
    BY DEF TypeOK
  <1>2. ImcUncompress(chunk[p]) \in Plain
    BY <1>1, Stored
  <1> QED
    BY <1>2 DEF BlocksOf, Plain

(* A mesh has finitely many faces; no counter ever reaches its limit. *)
LEMMA MeshTyped ==
  ASSUME NEW faces \in SUBSET (Cells \X Sides)
  PROVE  /\ MeshOf(faces) \in [faces : SUBSET (Cells \X Sides), indices : 0 .. IndexLimit - 1]
         /\ Cardinality(faces) \in Nat
         /\ 6 * Cardinality(faces) < IndexLimit => MeshOf(faces).indices = 6 * Cardinality(faces)
  <1>1. Cardinality(faces) \in Nat
    BY FacesFinite, FS_Subset, FS_CardinalityType
  <1> DEFINE n == 6 * Cardinality(faces)
  <1>2. n \in Nat /\ IndexLimit \in Nat /\ IndexLimit > 0
    BY <1>1, MeshAssumption
  <1>3. MeshOf(faces) = [faces |-> faces, indices |-> n % IndexLimit]
    BY DEF MeshOf
  <1> HIDE DEF n
  <1>4. n % IndexLimit \in Nat /\ n % IndexLimit < IndexLimit
        /\ n = IndexLimit * (n \div IndexLimit) + (n % IndexLimit) /\ n \div IndexLimit \in Nat
    BY <1>2, NatDivision
  <1>5. ASSUME n < IndexLimit PROVE n % IndexLimit = n
    <2>1. IndexLimit * (n \div IndexLimit) + (n % IndexLimit) = IndexLimit * 0 + n
      BY <1>2, <1>4
    <2> QED
      BY <1>2, <1>4, <1>5, <2>1, DivisionUnique
  <1> QED
    <2>1. n % IndexLimit \in 0 .. IndexLimit - 1
      BY <1>2, <1>4
    <2>2. n < IndexLimit => MeshOf(faces).indices = n
      BY <1>3, <1>5
    <2>3. MeshOf(faces) \in [faces : SUBSET (Cells \X Sides), indices : 0 .. IndexLimit - 1]
      BY <1>3, <2>1
    <2> QED
      BY <1>1, <2>2, <2>3 DEF n

(* The faces of a chunk depend on its own blocks and on the world's at its sides. *)
LEMMA SameFaces ==
  ASSUME NEW q,
         BlocksOf(q)' = BlocksOf(q),
         \A c \in Cells, s \in Sides :
           Add(c, s) \notin Cells =>
             WorldBlock(Add(Corner(q), Add(c, s)))' = WorldBlock(Add(Corner(q), Add(c, s)))
  PROVE  Faces(q)' = Faces(q)
  <1>1. \A c \in Cells, s \in Sides : BlockAt(q, Add(c, s))' = BlockAt(q, Add(c, s))
    BY DEF BlockAt
  <1>2. \A f \in Cells \X Sides : f[1] \in Cells /\ f[2] \in Sides
    OBVIOUS
  <1> QED
    BY <1>1, <1>2 DEF Faces

(* What a chunk and its neighbours do not see of a change elsewhere. *)
LEMMA ElsewhereSame ==
  ASSUME NEW q \in Vectors, NEW p,
         q # p, \A s \in Sides : Add(q, s) # p,
         BlocksOf(q)' = BlocksOf(q),
         \A r : r # p => (r \in loaded' <=> r \in loaded),
         \A r \in loaded : r # p => BlocksOf(r)' = BlocksOf(r)
  PROVE  Faces(q)' = Faces(q)
  <1> SUFFICES ASSUME NEW c \in Cells, NEW s \in Sides, Add(c, s) \notin Cells
               PROVE  WorldBlock(Add(Corner(q), Add(c, s)))' = WorldBlock(Add(Corner(q), Add(c, s)))
    BY SameFaces
  <1>1. PlaceOf(Add(Corner(q), Add(c, s))) # p
    BY StepOut
  <1> QED
    BY <1>1 DEF WorldBlock

(* Of chunks stored another way nothing else is seen. *)
LEMMA AllSame ==
  ASSUME TypeOK, loaded' = loaded, \A q \in Places : BlocksOf(q)' = BlocksOf(q),
         NEW q \in Places
  PROVE  Faces(q)' = Faces(q)
  <1>1. \A x : WorldBlock(x)' = WorldBlock(x)
    BY DEF WorldBlock, TypeOK
  <1>2. BlocksOf(q)' = BlocksOf(q)
    OBVIOUS
  <1> HIDE DEF BlocksOf, WorldBlock
  <1> QED
    BY <1>1, <1>2, SameFaces

(* A step that keeps the blocks, the marks and the meshes. *)
LEMMA BlocksKept ==
  ASSUME IInv, loaded' = loaded, dirty' = dirty, mesh' = mesh, edits' = edits,
         chunk' \in [Places -> Plain \cup Packed],
         \A q \in Places : BlocksOf(q)' = BlocksOf(q)
  PROVE  IInv'
  <1>1. TypeOK'
    BY DEF IInv, TypeOK
  <1>2. \A q \in Places : Faces(q)' = Faces(q)
    BY AllSame DEF IInv
  <1>3. ASSUME NEW q \in loaded' \ dirty' PROVE mesh'[q] = MeshOf(Faces(q)')
    <2>1. q \in Places /\ mesh[q] = MeshOf(Faces(q))
      BY DEF IInv, TypeOK, MeshCurrent
    <2> QED
      BY <1>2, <2>1
  <1> QED
    BY <1>1, <1>3 DEF IInv, MeshCurrent, MeshOf

(* Being a neighbour goes both ways. *)
LEMMA Opposite ==
  ASSUME NEW q \in Vectors, NEW s \in Sides
  PROVE  /\ Add(q, s) \in Vectors
         /\ Add(Add(q, s), [i \in Axes |-> -s[i]]) = q
  <1>1. PICK axis \in Axes, step \in {-1, 1} : s = [i \in Axes |-> IF i = axis THEN step ELSE 0]
    BY SidesAre
  <1>2. \A i \in Axes : s[i] \in Int /\ q[i] \in Int
    BY <1>1 DEF Vectors
  <1>3. Add(q, s) \in Vectors
    BY <1>2 DEF Add, Vectors
  <1>4. \A i \in Axes : (q[i] + s[i]) + (-s[i]) = q[i]
    BY <1>2
  <1>5. Add(Add(q, s), [i \in Axes |-> -s[i]]) = [i \in Axes |-> q[i]]
    BY <1>4 DEF Add
  <1> QED
    BY <1>3, <1>5 DEF Vectors

LEMMA ReceiveKeeps ==
  ASSUME IInv, NEW p \in Places, NEW content \in Contents, Receive(p, content)
  PROVE  IInv'
  <1> USE MeshAssumption
  <1>1. loaded' = loaded \cup {p} /\ mesh' = mesh /\ edits' = edits
    BY DEF Receive
  <1>2. chunk' \in [Places -> Plain \cup Packed]
    <2>1. content \in [Cells -> Blocks]
      OBVIOUS
    <2>2. NewChunk(content) \in Plain
      BY <2>1, NewStored
    <2> QED
      BY <2>2 DEF Receive, IInv, TypeOK
  <1>3. \A r \in Places : r # p => BlocksOf(r)' = BlocksOf(r)
    <2>1. \A r \in Places : r # p => chunk'[r] = chunk[r]
      BY DEF Receive, IInv, TypeOK
    <2> QED
      BY <2>1 DEF BlocksOf
  <1>4. dirty \subseteq dirty' /\ dirty' \subseteq loaded'
    BY <1>1 DEF Receive, MarkAsDirty, IInv, TypeOK
  <1>5. \A r \in loaded' : r \in Neighbours(p, Sides) => r \in dirty'
    BY DEF Receive, MarkAsDirty
  <1>6. p \in dirty' \/ (p \in loaded /\ chunk' = chunk)
    BY <1>1 DEF Receive, MarkAsDirty
  <1>7. TypeOK'
    BY <1>1, <1>2, <1>4 DEF IInv, TypeOK
  <1>8. ASSUME NEW q \in loaded' \ dirty' PROVE mesh'[q] = MeshOf(Faces(q)')
    <2>1. q \in loaded \ dirty
      BY <1>1, <1>4, <1>6
    <2>2. q \in Places /\ q \in Vectors
      BY <2>1 DEF IInv, TypeOK
    <2>3. mesh[q] = MeshOf(Faces(q))
      BY <2>1 DEF IInv, MeshCurrent
    <2>4. CASE p \in loaded
      <3>1. chunk' = chunk /\ loaded' = loaded
        BY <1>1, <2>4 DEF Receive
      <3>2. Faces(q)' = Faces(q)
        BY <3>1 DEF Faces, BlockAt, WorldBlock, BlocksOf
      <3> QED
        BY <1>1, <2>3, <3>2
    <2>5. CASE p \notin loaded
      <3>1. q # p
        BY <2>1, <2>5
      <3>2. \A s \in Sides : Add(q, s) # p
        <4> SUFFICES ASSUME NEW s \in Sides, Add(q, s) = p PROVE FALSE
          OBVIOUS
        <4>1. q = Add(p, [i \in Axes |-> -s[i]])
          BY <2>2, Opposite
        <4>2. q \in Neighbours(p, Sides)
          BY <4>1, SidesOpposite DEF Neighbours
        <4> QED
          BY <1>5, <4>2
      <3>3. \A r \in loaded : r \in Places
        BY DEF IInv, TypeOK
      <3>4. Faces(q)' = Faces(q)
        <4>1. BlocksOf(q)' = BlocksOf(q)
          BY <1>3, <2>2, <3>1
        <4>2. \A r : r # p => (r \in loaded' <=> r \in loaded)
          BY <1>1
        <4>3. \A r \in loaded : r # p => BlocksOf(r)' = BlocksOf(r)
          BY <1>3, <3>3
        <4> QED
          BY <2>2, <3>1, <3>2, <4>1, <4>2, <4>3, ElsewhereSame
      <3> QED
        BY <1>1, <2>3, <3>4
    <2> QED
      BY <2>4, <2>5
  <1> QED
    BY <1>7, <1>8 DEF IInv, MeshCurrent, MeshOf

LEMMA UpdateKeeps ==
  ASSUME IInv, NEW pos \in Positions, NEW block \in Blocks, Update(pos, block)
  PROVE  IInv'
  <1> USE MeshAssumption
  <1> DEFINE p == PlaceOf(pos)
             d == CellOf(pos)
  <1>1. p \in Places /\ d \in Cells
    BY InsideChunk DEF Positions
  <1>2. loaded' = loaded /\ mesh' = mesh /\ edits' \in 0 .. MaxEdits
    BY DEF Update, IInv, TypeOK
  <1>3. CASE p \notin loaded
    <2>1. chunk' = chunk /\ dirty' = dirty
      BY <1>3 DEF Update
    <2>2. \A q : Faces(q)' = Faces(q)
      BY <1>2, <2>1 DEF Faces, BlockAt, WorldBlock, BlocksOf
    <2> QED
      BY <1>2, <2>1, <2>2 DEF IInv, TypeOK, MeshCurrent, MeshOf
  <1>4. CASE p \in loaded
    <2>1. chunk' = [chunk EXCEPT ![p] = NewChunk([BlocksOf(p) EXCEPT ![d] = block])]
      BY <1>4 DEF Update
    <2>2. dirty' = dirty \cup (({p} \cup Neighbours(p, Touched(d))) \cap loaded)
      BY <1>2, <1>4 DEF Update, MarkAsDirty
    <2> HIDE DEF p, d
    <2> DEFINE blocks == [BlocksOf(p) EXCEPT ![d] = block]
    <2>8. BlocksOf(p) \in [Cells -> Blocks]
      BY <1>1, BlocksTyped DEF IInv
    <2>9. blocks \in [Cells -> Blocks] /\ \A c \in Cells : c # d => blocks[c] = BlocksOf(p)[c]
      BY <1>1, <2>8
    <2>10. NewChunk(blocks) \in Plain /\ ImcUncompress(NewChunk(blocks)).data = blocks
      BY <2>9, NewStored
    <2>3. chunk' \in [Places -> Plain \cup Packed]
      BY <1>1, <2>1, <2>10 DEF IInv, TypeOK
    <2>4. \A r \in Places : r # p => BlocksOf(r)' = BlocksOf(r)
      BY <2>1 DEF IInv, TypeOK, BlocksOf
    <2>5. \A c \in Cells : c # d => BlocksOf(p)'[c] = BlocksOf(p)[c]
      <3>1. chunk'[p] = NewChunk(blocks)
        BY <1>1, <2>1 DEF IInv, TypeOK
      <3>2. BlocksOf(p)' = blocks
        BY <2>10, <3>1 DEF BlocksOf
      <3> QED
        BY <2>9, <3>2
    <2>6. TypeOK'
      BY <1>2, <2>2, <2>3 DEF IInv, TypeOK
    <2>7. ASSUME NEW q \in loaded' \ dirty' PROVE mesh'[q] = MeshOf(Faces(q)')
      <3>1. q \in loaded \ dirty /\ q # p /\ q \notin Neighbours(p, Touched(d))
        BY <1>2, <1>4, <2>2
      <3>2. q \in Places /\ q \in Vectors
        BY <3>1 DEF IInv, TypeOK
      <3>3. mesh[q] = MeshOf(Faces(q))
        BY <3>1 DEF IInv, MeshCurrent
      <3>4. ASSUME NEW c \in Cells, NEW s \in Sides, Add(c, s) \notin Cells
            PROVE  WorldBlock(Add(Corner(q), Add(c, s)))' = WorldBlock(Add(Corner(q), Add(c, s)))
        <4> DEFINE x == Add(Corner(q), Add(c, s))
                   t == [i \in Axes |-> -s[i]]
        <4>1. PlaceOf(x) = Add(q, s) /\ CellOf(x) \in Cells /\ t \in Touched(CellOf(x))
          BY <3>2, <3>4, StepOut
        <4>2. Add(Add(q, s), t) = q
          BY <3>2, Opposite
        <4>3. ~ (PlaceOf(x) = p /\ CellOf(x) = d)
          BY <3>1, <4>1, <4>2 DEF Neighbours
        <4>4. PlaceOf(x) \in loaded =>
                BlocksOf(PlaceOf(x))'[CellOf(x)] = BlocksOf(PlaceOf(x))[CellOf(x)]
          <5>1. loaded \subseteq Places
            BY DEF IInv, TypeOK
          <5> HIDE DEF x, t
          <5> QED
            BY <2>4, <2>5, <4>1, <4>3, <5>1
        <4> QED
          BY <1>2, <4>4 DEF WorldBlock
      <3>5. BlocksOf(q)' = BlocksOf(q)
        BY <2>4, <3>1, <3>2
      <3>6. Faces(q)' = Faces(q)
        BY <3>4, <3>5, SameFaces
      <3> QED
        BY <1>2, <3>3, <3>6
    <2> QED
      BY <2>6, <2>7 DEF IInv, MeshCurrent, MeshOf
  <1> QED
    BY <1>3, <1>4

LEMMA LookKeeps ==
  ASSUME IInv, NEW p \in Places, Look(p)
  PROVE  IInv'
  <1>1. \A q \in Places : chunk[q] \in Plain \cup Packed
    BY DEF IInv, TypeOK
  <1>2. \A q \in Places : chunk'[q] = IF q = p THEN ImcUncompress(chunk[q]) ELSE chunk[q]
    BY DEF Look, IInv, TypeOK
  <1>3. \A q \in Places : BlocksOf(q)' = BlocksOf(q)
    BY <1>1, <1>2, Stored DEF BlocksOf
  <1>4. chunk' \in [Places -> Plain \cup Packed]
    BY <1>1, <1>2, Stored DEF Look, IInv, TypeOK
  <1> QED
    BY <1>3, <1>4, BlocksKept DEF Look

LEMMA RestKeeps ==
  ASSUME IInv, NEW p \in Places, Rest(p)
  PROVE  IInv'
  <1>1. \A q \in Places : chunk[q] \in Plain \cup Packed
    BY DEF IInv, TypeOK
  <1>2. \A q \in Places : chunk'[q] = IF q = p THEN ImcCompress(chunk[q]) ELSE chunk[q]
    BY DEF Rest, IInv, TypeOK
  <1>3. chunk[p].imcData = Null
    BY DEF Rest
  <1>4. \A q \in Places : BlocksOf(q)' = BlocksOf(q)
    BY <1>1, <1>2, <1>3, Stored DEF BlocksOf
  <1>5. chunk' \in [Places -> Plain \cup Packed]
    BY <1>1, <1>2, <1>3, Stored DEF Rest, IInv, TypeOK
  <1> QED
    BY <1>4, <1>5, BlocksKept DEF Rest

LEMMA DrawKeeps ==
  ASSUME IInv, NEW p \in Places, Draw(p)
  PROVE  IInv'
  <1>1. loaded' = loaded /\ edits' = edits /\ dirty' = dirty \ {p} /\ p \in dirty
    BY DEF Draw
  <1>2. \A q \in Places : chunk[q] \in Plain \cup Packed
    BY DEF IInv, TypeOK
  <1>3. \A q \in Places : chunk'[q] \in {chunk[q], ImcUncompress(chunk[q])}
    BY DEF Draw
  <1>4. chunk' \in [Places -> Plain \cup Packed]
    <2>1. \A q \in Places : chunk'[q] \in Plain \cup Packed
      BY <1>2, <1>3, Stored
    <2> QED
      BY <2>1 DEF Draw
  <1>5. \A q \in Places : BlocksOf(q)' = BlocksOf(q)
    BY <1>2, <1>3, Stored DEF BlocksOf
  <1>6. \A q \in Places : Faces(q)' = Faces(q)
    BY <1>1, <1>5, AllSame DEF IInv
  <1>7. \A q \in Places : mesh'[q] = IF q = p THEN MeshOf(Faces(p)) ELSE mesh[q]
    BY DEF Draw, IInv, TypeOK
  <1>8. TypeOK'
    <2>1. Faces(p) \in SUBSET (Cells \X Sides)
      BY DEF Faces
    <2>2. MeshOf(Faces(p)) \in [faces : SUBSET (Cells \X Sides), indices : 0 .. IndexLimit - 1]
      BY <2>1, MeshTyped
    <2>3. mesh' \in [Places -> [faces : SUBSET (Cells \X Sides), indices : 0 .. IndexLimit - 1]]
      BY <2>2 DEF Draw, IInv, TypeOK
    <2> QED
      BY <1>1, <1>4, <2>3 DEF IInv, TypeOK
  <1>9. ASSUME NEW q \in loaded' \ dirty' PROVE mesh'[q] = MeshOf(Faces(q)')
    <2>1. q \in Places /\ (q = p \/ mesh[q] = MeshOf(Faces(q)))
      BY <1>1 DEF IInv, TypeOK, MeshCurrent
    <2> QED
      BY <1>6, <1>7, <2>1
  <1> QED
    BY <1>8, <1>9 DEF IInv, MeshCurrent, MeshOf

LEMMA MeshStep == IInv /\ [Next]_vars => IInv'
  <1> SUFFICES ASSUME IInv, [Next]_vars PROVE IInv'
    OBVIOUS
  <1>1. ASSUME NEW p \in Places, NEW content \in Contents, Receive(p, content) PROVE IInv'
    BY <1>1, ReceiveKeeps
  <1>2. ASSUME NEW pos \in Positions, NEW block \in Blocks, Update(pos, block) PROVE IInv'
    BY <1>2, UpdateKeeps
  <1>3. CASE Refresh
    <2>1. loaded' = loaded /\ chunk' = chunk /\ mesh' = mesh /\ edits' = edits
          /\ dirty' = dirty \cup loaded
      BY <1>3 DEF Refresh, MarkAsDirty
    <2> QED
      BY <2>1 DEF IInv, TypeOK, MeshCurrent
  <1>4. ASSUME NEW p \in Places, Look(p) \/ Rest(p) \/ Draw(p) PROVE IInv'
    BY <1>4, LookKeeps, RestKeeps, DrawKeeps
  <1>5. CASE UNCHANGED vars
    <2>1. \A q \in Places : BlocksOf(q)' = BlocksOf(q)
      BY <1>5 DEF vars, BlocksOf
    <2>2. chunk' \in [Places -> Plain \cup Packed]
      BY <1>5 DEF vars, IInv, TypeOK
    <2> QED
      BY <1>5, <2>1, <2>2, BlocksKept DEF vars
  <1> QED
    BY <1>1, <1>2, <1>3, <1>4, <1>5 DEF Next

LEMMA MeshInvariant == Spec => []IInv
  <1>1. Init => IInv
    <2> SUFFICES ASSUME Init PROVE IInv
      OBVIOUS
    <2>1. [c \in Cells |-> "air"] \in [Cells -> Blocks]
      BY DEF Blocks
    <2>2. NewChunk([c \in Cells |-> "air"]) \in Plain
      BY <2>1, NewStored
    <2>3. chunk \in [Places -> Plain \cup Packed]
      BY <2>2 DEF Init
    <2> QED
      BY <2>3, MeshAssumption DEF Init, IInv, TypeOK, MeshCurrent
  <1> QED
    BY <1>1, MeshStep, PTL DEF Spec

(* The state has its type: only chunks that are there are ever marked dirty. *)
THEOREM MeshTypes == Spec => []TypeOK
  BY MeshInvariant, PTL DEF IInv

(* A chunk that is not marked dirty has the mesh of its blocks, whatever arrives, is     *)
(* edited, compressed or drawn before, for any chunk size, any chunks and any blocks on  *)
(* either side of zero. That mesh is drawn whole unless it has more indices than a       *)
(* ushort counts: then it is not, and no more is claimed.                                *)
THEOREM MeshIsFresh == Spec => []MeshFresh
  <1>1. IInv => MeshFresh
    <2> SUFFICES ASSUME IInv, NEW p \in loaded \ dirty
                 PROVE  /\ mesh[p].faces = Faces(p)
                        /\ 6 * Cardinality(mesh[p].faces) < IndexLimit =>
                             mesh[p].indices = 6 * Cardinality(mesh[p].faces)
      BY DEF MeshFresh
    <2>1. mesh[p] = MeshOf(Faces(p))
      BY DEF IInv, MeshCurrent
    <2>2. mesh[p].faces = Faces(p)
      BY <2>1 DEF MeshOf
    <2>3. Faces(p) \in SUBSET (Cells \X Sides)
      BY DEF Faces
    <2>4. 6 * Cardinality(Faces(p)) < IndexLimit =>
            mesh[p].indices = 6 * Cardinality(Faces(p))
      BY <2>1, <2>3, MeshTyped
    <2> QED
      BY <2>2, <2>4
  <1> QED
    BY <1>1, MeshInvariant, PTL

----------------------------------------------------------------------------
(* The size of a mesh. The blocks along an axis go two by two, the first with the *)
(* second, the third with the fourth: as a chunk has an even number of them, each  *)
(* face has another that is not drawn when it is, the same side of the other block *)
(* of its pair.                                                                    *)

Paired(n) == IF n % 2 = 0 THEN n + 1 ELSE n - 1
Across(f) == <<[i \in Axes |-> IF f[2][i] = 0 THEN f[1][i] ELSE Paired(f[1][i])], f[2]>>

(* Pairs lie within the chunk, because its size is even. *)
LEMMA PairedInside ==
  ASSUME NEW n \in 0 .. Size - 1
  PROVE  /\ Paired(n) \in 0 .. Size - 1
         /\ Paired(Paired(n)) = n
         /\ Paired(n) = n + 1 \/ n = Paired(n) + 1
  BY Sizes DEF Paired

(* The face across is a face of a block of the chunk, and across from that is the first. *)
LEMMA AcrossInside ==
  ASSUME NEW f \in Cells \X Sides
  PROVE  Across(f) \in Cells \X Sides /\ Across(Across(f)) = f
  <1> DEFINE c == f[1]
             s == f[2]
             d == [i \in Axes |-> IF s[i] = 0 THEN c[i] ELSE Paired(c[i])]
  <1>1. c \in Cells /\ s \in Sides /\ f = <<c, s>>
    OBVIOUS
  <1>2. Across(f) = <<d, s>>
    BY DEF Across
  <1>3. \A i \in Axes : c[i] \in 0 .. Size - 1
    BY <1>1 DEF Cells
  <1>4. d \in Cells
    BY <1>3, PairedInside DEF Cells
  <1>5. [i \in Axes |-> IF s[i] = 0 THEN d[i] ELSE Paired(d[i])] = [i \in Axes |-> c[i]]
    BY <1>3, PairedInside
  <1>6. [i \in Axes |-> c[i]] = c
    BY <1>1 DEF Cells
  <1>7. Across(<<d, s>>) = <<c, s>>
    BY <1>5, <1>6 DEF Across
  <1> QED
    BY <1>1, <1>2, <1>4, <1>7

(* Of two blocks of a pair, one is on that side of the other: were both drawn there, *)
(* both would be rock, and the one hides that face of the other.                     *)
LEMMA AcrossNotDrawn ==
  ASSUME TypeOK, NEW p \in Places, NEW f \in Faces(p)
  PROVE  Across(f) \notin Faces(p)
  <1> DEFINE c == f[1]
             s == f[2]
             d == [i \in Axes |-> IF s[i] = 0 THEN c[i] ELSE Paired(c[i])]
  <1>1. c \in Cells /\ s \in Sides /\ Across(f) = <<d, s>>
    BY DEF Faces, Across
  <1>2. d \in Cells
    <2>1. Across(f) \in Cells \X Sides
      BY AcrossInside DEF Faces
    <2> QED
      BY <1>1, <2>1
  <1>3. PICK a \in Axes, step \in {-1, 1} : s = [i \in Axes |-> IF i = a THEN step ELSE 0]
    BY <1>1, SidesAre
  <1>4. \A i \in Axes : c[i] \in 0 .. Size - 1 /\ d[i] \in 0 .. Size - 1
    BY <1>1, <1>2 DEF Cells
  <1>5. \A i \in Axes : d[i] = IF i = a THEN Paired(c[i]) ELSE c[i]
    BY <1>3
  <1> HIDE DEF d
  <1>6. Add(c, s) = d \/ Add(d, s) = c
    <2>1. \A i \in Axes : i # a => s[i] = 0 /\ d[i] = c[i]
      BY <1>3, <1>5
    <2>2. s[a] = step /\ (d[a] = c[a] + 1 \/ c[a] = d[a] + 1)
      BY <1>3, <1>4, <1>5, PairedInside
    <2>3. d = [i \in Axes |-> d[i]] /\ c = [i \in Axes |-> c[i]]
      BY <1>1, <1>2 DEF Cells
    <2>4. CASE \A i \in Axes : c[i] + s[i] = d[i]
      BY <2>3, <2>4 DEF Add
    <2>5. CASE \A i \in Axes : d[i] + s[i] = c[i]
      BY <2>3, <2>5 DEF Add
    <2>6. c[a] + step = d[a] \/ d[a] + step = c[a]
      BY <1>3, <1>4, <2>2
    <2>7. \A i \in Axes : i # a => c[i] + s[i] = d[i] /\ d[i] + s[i] = c[i]
      BY <1>4, <2>1
    <2> QED
      BY <2>2, <2>4, <2>5, <2>6, <2>7
  <1>7. BlocksOf(p)[c] # "air" /\ IsFaceVisible(BlocksOf(p)[c], BlockAt(p, Add(c, s)))
    BY DEF Faces
  <1>8. SUFFICES ASSUME BlocksOf(p)[d] # "air", IsFaceVisible(BlocksOf(p)[d], BlockAt(p, Add(d, s)))
                 PROVE  FALSE
    BY <1>1 DEF Faces
  <1>9. CASE Add(c, s) = d
    BY <1>2, <1>7, <1>8, <1>9 DEF IsFaceVisible, IsTransparent, BlockAt
  <1>10. CASE Add(d, s) = c
    BY <1>1, <1>7, <1>8, <1>10 DEF IsFaceVisible, IsTransparent, BlockAt
  <1> QED
    BY <1>6, <1>9, <1>10

(* So a set of faces none of which has the one across is at most half of them all. *)
LEMMA AtMostHalf ==
  ASSUME NEW F \in SUBSET (Cells \X Sides), \A f \in F : Across(f) \notin F
  PROVE  2 * Cardinality(F) <= Cardinality(Cells) * Cardinality(Sides)
  <1> DEFINE all == Cells \X Sides
             rest == all \ F
             across == [f \in F |-> Across(f)]
  <1>1. IsFiniteSet(all) /\ IsFiniteSet(F) /\ IsFiniteSet(rest)
    BY FacesFinite, FS_Subset
  <1>2. across \in Injection(F, rest)
    <2>1. across \in [F -> rest]
      BY AcrossInside
    <2>2. \A f, g \in F : across[f] = across[g] => f = g
      BY AcrossInside
    <2> HIDE DEF across
    <2> QED
      BY <2>1, <2>2 DEF Injection, IsInjective
  <1>3. Cardinality(F) <= Cardinality(rest)
    BY <1>1, <1>2, FS_Injection
  <1>4. Cardinality(rest) = Cardinality(all) - Cardinality(F)
    <2>1. all \cap F = F
      OBVIOUS
    <2> HIDE DEF all
    <2> QED
      BY <1>1, <2>1, FS_Difference
  <1>5. Cardinality(F) \in Nat /\ Cardinality(rest) \in Nat /\ Cardinality(all) \in Nat
    BY <1>1, FS_CardinalityType
  <1>6. Cardinality(all) = Cardinality(Cells) * Cardinality(Sides)
    BY FacesFinite
  <1> HIDE DEF all, rest
  <1>7. 2 * Cardinality(F) <= Cardinality(all)
    BY <1>3, <1>4, <1>5
  <1> QED
    BY <1>6, <1>7

HalfDrawn == \A p \in Places : \A f \in mesh[p].faces : Across(f) \notin mesh[p].faces

(* Only a frame changes a mesh, and what it draws is never across from what it draws. *)
LEMMA HalfDrawnStep == IInv /\ HalfDrawn /\ [Next]_vars => HalfDrawn'
  <1> SUFFICES ASSUME IInv, HalfDrawn, [Next]_vars PROVE HalfDrawn'
    OBVIOUS
  <1>1. CASE UNCHANGED mesh
    BY <1>1 DEF HalfDrawn
  <1>2. ASSUME NEW q \in Places, Draw(q) PROVE HalfDrawn'
    <2>1. \A p \in Places : mesh'[p].faces = IF p = q THEN Faces(p) ELSE mesh[p].faces
      BY <1>2 DEF Draw, MeshOf, IInv, TypeOK
    <2>2. \A p \in Places : \A f \in Faces(p) : Across(f) \notin Faces(p)
      BY AcrossNotDrawn DEF IInv
    <2> QED
      BY <2>1, <2>2 DEF HalfDrawn
  <1> QED
    BY <1>1, <1>2 DEF Next, vars, Receive, Update, Refresh, Look, Rest

(* The buffers, which have room for half the faces of a chunk, hold every mesh that is *)
(* built, for any even chunk size and any blocks: the remark at updateClient's buffers *)
(* is right, and no pattern of blocks writes behind them.                              *)
THEOREM MeshFitsBuffers == Spec => []FitsBuffers
  <1>1. Init => HalfDrawn
    BY DEF Init, HalfDrawn
  <1>2. IInv /\ HalfDrawn => FitsBuffers
    <2> SUFFICES ASSUME IInv, HalfDrawn, NEW p \in Places
                 PROVE  2 * Cardinality(mesh[p].faces) <= Cardinality(Cells) * Cardinality(Sides)
      BY DEF FitsBuffers
    <2>1. mesh[p].faces \in SUBSET (Cells \X Sides)
      BY DEF IInv, TypeOK
    <2> QED
      BY <2>1, AtMostHalf DEF HalfDrawn
  <1> QED
    BY <1>1, <1>2, MeshInvariant, HalfDrawnStep, PTL DEF Spec
=============================================================================
