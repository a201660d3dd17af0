------------------------ MODULE ChunkService_proofs ------------------------
(***************************************************************************)
(* Proofs about ChunkService, for any positions, players, workers, batch   *)
(* size and modulus above it.                                              *)
(***************************************************************************)
EXTENDS ChunkService, FiniteSetTheorems, SequenceTheorems, TLAPS

(* What one step may do, named once for the case splits below. *)
LEMMA ServiceSteps ==
  ASSUME [Next]_vars, NEW P,
         \A pos \in Home : Start(pos) => P,
         Run => P,
         RequestLock => P,
         \A p \in Players : Join(p) => P,
         \A p \in Players, pos \in Positions : RequestFound(p, pos) => P,
         \A p \in Players, pos \in Positions : RequestNew(p, pos) => P,
         \A p \in Players : Leave(p) => P,
         \A w \in Workers : TakeTask(w) => P,
         \A w \in Workers : DropTask(w) => P,
         \A w \in Workers : LockTask(w) => P,
         \A w \in Workers : Generated(w) => P,
         Scan => P,
         ScanEnd => P,
         \A p \in Players : Visit(p) => P,
         PickNull => P,
         PickReady => P,
         PickSkip => P,
         SendChunks => P,
         Sleep => P,
         Wake => P,
         UNCHANGED vars => P
  PROVE  P
  BY DEF Next, MainStep, ClientStep, WorkerStep, UpdaterStep

----------------------------------------------------------------------------
(* The elements of the lists. *)

LEMMA SomeElements ==
  ASSUME NEW S, NEW s \in Seq(S)
  PROVE  /\ \A x : x \in Elements(s) <=> \E i \in 1 .. Len(s) : x = s[i]
         /\ Elements(s) \subseteq S
  <1>1. DOMAIN s = 1 .. Len(s)
    BY LenProperties
  <1>2. \A x : x \in Elements(s) <=> \E i \in 1 .. Len(s) : x = s[i]
    BY <1>1 DEF Elements
  <1> QED
    BY <1>2, ElementOfSeq

LEMMA NoElements == Elements(<<>>) = {}
  BY DEF Elements

LEMMA AppendedElements ==
  ASSUME NEW S, NEW s \in Seq(S), NEW x \in S
  PROVE  Append(s, x) \in Seq(S) /\ Elements(Append(s, x)) = Elements(s) \cup {x}
  <1> DEFINE t == Append(s, x)
  <1>1. t \in Seq(S) /\ Len(t) = Len(s) + 1 /\ Len(s) \in Nat
    BY LenProperties
  <1>2. \A i \in 1 .. Len(s) + 1 : t[i] = IF i <= Len(s) THEN s[i] ELSE x
    BY <1>1
  <1> HIDE DEF t
  <1>3. \A y : y \in Elements(t) <=> \E i \in 1 .. Len(s) + 1 : y = t[i]
    BY <1>1, SomeElements
  <1>4. \A y : y \in Elements(s) <=> \E i \in 1 .. Len(s) : y = s[i]
    BY SomeElements
  <1>5. \A i \in 1 .. Len(s) : i \in 1 .. Len(s) + 1 /\ i <= Len(s)
    BY <1>1
  <1>6. Len(s) + 1 \in 1 .. Len(s) + 1 /\ ~(Len(s) + 1 <= Len(s))
    BY <1>1
  <1>7. \A i \in 1 .. Len(s) + 1 : i <= Len(s) => i \in 1 .. Len(s)
    BY <1>1
  <1>8. \A y : y \in Elements(t) <=> y \in Elements(s) \/ y = x
    BY <1>2, <1>3, <1>4, <1>5, <1>6, <1>7
  <1>9. Elements(t) = Elements(s) \cup {x}
    BY <1>8
  <1> QED
    BY <1>1, <1>9 DEF t

LEMMA HeadAndTail ==
  ASSUME NEW S, NEW s \in Seq(S), s # <<>>
  PROVE  /\ Head(s) \in S /\ Tail(s) \in Seq(S)
         /\ Elements(s) = {Head(s)} \cup Elements(Tail(s))
  <1> DEFINE h == Head(s)
             t == Tail(s)
  <1>1. /\ h \in S /\ t \in Seq(S) /\ Len(t) = Len(s) - 1
        /\ \A i \in 1 .. Len(t) : t[i] = s[i + 1]
    BY HeadTailProperties
  <1>2. Len(s) \in Nat /\ Len(s) > 0 /\ h = s[1]
    BY EmptySeq
  <1> HIDE DEF h, t
  <1>3. \A y : y \in Elements(s) <=> \E i \in 1 .. Len(s) : y = s[i]
    BY SomeElements
  <1>4. \A y : y \in Elements(t) <=> \E i \in 1 .. Len(s) - 1 : y = t[i]
    BY <1>1, SomeElements
  <1>5. \A i \in 1 .. Len(s) : i = 1 \/ (i - 1 \in 1 .. Len(s) - 1 /\ (i - 1) + 1 = i)
    BY <1>2
  <1>6. \A i \in 1 .. Len(s) - 1 : i + 1 \in 1 .. Len(s)
    BY <1>2
  <1>7. 1 \in 1 .. Len(s)
    BY <1>2
  <1>8. \A y : y \in Elements(s) <=> y = h \/ y \in Elements(t)
    <2>1. ASSUME NEW y, y \in Elements(s) PROVE y = h \/ y \in Elements(t)
      <3>1. PICK i \in 1 .. Len(s) : y = s[i]
        BY <1>3, <2>1
      <3>2. i = 1 \/ (i - 1 \in 1 .. Len(s) - 1 /\ t[i - 1] = s[i])
        BY <1>1, <1>5
      <3> QED
        BY <1>2, <1>4, <3>1, <3>2
    <2>2. ASSUME NEW y, y \in Elements(t) PROVE y \in Elements(s)
      <3>1. PICK i \in 1 .. Len(s) - 1 : y = t[i]
        BY <1>4, <2>2
      <3>2. y = s[i + 1] /\ i + 1 \in 1 .. Len(s)
        BY <1>1, <1>6, <3>1
      <3> QED
        BY <1>3, <3>2
    <2>3. h \in Elements(s)
      BY <1>2, <1>3, <1>7
    <2> QED
      BY <2>1, <2>2, <2>3
  <1>9. Elements(s) = {h} \cup Elements(t)
    BY <1>8
  <1> QED
    BY <1>1, <1>9 DEF h, t

(* Erasing one of them loses no other. *)
LEMMA WithoutElements ==
  ASSUME NEW S, NEW s \in Seq(S), NEW i \in 1 .. Len(s)
  PROVE  /\ Without(s, i) \in Seq(S)
         /\ Elements(s) = {s[i]} \cup Elements(Without(s, i))
  <1> DEFINE n == Len(s)
             a == SubSeq(s, 1, i - 1)
             b == SubSeq(s, i + 1, n)
             t == a \o b
  <1>1. n \in Nat /\ i \in Nat /\ 1 <= i /\ i <= n /\ i - 1 \in Nat /\ n - i \in Nat
    BY LenProperties
  <1>2. \A j \in 1 .. n : s[j] \in S
    BY ElementOfSeq
  <1>3. /\ a \in Seq(S) /\ Len(a) = i - 1 /\ \A j \in 1 .. i - 1 : a[j] = s[j]
    <2>1. \A j \in 1 .. i - 1 : s[j] \in S /\ 1 + j - 1 = j
      BY <1>1, <1>2
    <2>2. 1 \in Int /\ i - 1 \in Int /\ (IF 1 <= i - 1 THEN (i - 1) - 1 + 1 ELSE 0) = i - 1
          /\ (i - 1) - 1 + 1 = i - 1
      BY <1>1
    <2> HIDE DEF n
    <2> QED
      BY <2>1, <2>2, SubSeqProperties
  <1>4. /\ b \in Seq(S) /\ Len(b) = n - i /\ \A j \in 1 .. n - i : b[j] = s[i + j]
    <2>1. \A j \in i + 1 .. n : s[j] \in S
      BY <1>1, <1>2
    <2>2. i + 1 \in Int /\ n \in Int /\ (IF i + 1 <= n THEN n - (i + 1) + 1 ELSE 0) = n - i
          /\ n - (i + 1) + 1 = n - i /\ \A j \in 1 .. n - i : (i + 1) + j - 1 = i + j
      BY <1>1
    <2> HIDE DEF n
    <2> QED
      BY <2>1, <2>2, SubSeqProperties
  <1> HIDE DEF a, b
  <1>5. /\ t \in Seq(S) /\ Len(t) = n - 1
        /\ \A j \in 1 .. n - 1 : t[j] = IF j < i THEN s[j] ELSE s[j + 1]
    <2> HIDE DEF n
    <2>1. t \in Seq(S) /\ Len(t) = Len(a) + Len(b)
          /\ \A j \in 1 .. Len(a) + Len(b) : t[j] = IF j <= Len(a) THEN a[j] ELSE b[j - Len(a)]
      <3>1. a \in Seq(S) /\ b \in Seq(S)
        BY <1>3, <1>4
      <3> QED
        BY <3>1, ConcatProperties
    <2>2. (i - 1) + (n - i) = n - 1
      BY <1>1
    <2>3. \A j \in 1 .. n - 1 : (j < i /\ j <= i - 1 /\ j \in 1 .. i - 1)
             \/ (~(j < i) /\ ~(j <= i - 1) /\ j - (i - 1) \in 1 .. n - i /\ i + (j - (i - 1)) = j + 1)
      BY <1>1
    <2> HIDE DEF t, n
    <2>4. Len(a) = i - 1 /\ Len(b) = n - i
      BY <1>3, <1>4
    <2>5. Len(t) = n - 1
      BY <2>1, <2>2, <2>4
    <2>6. \A j \in 1 .. n - 1 : t[j] = IF j <= i - 1 THEN a[j] ELSE b[j - (i - 1)]
      BY <2>1, <2>2, <2>4
    <2>7. ASSUME NEW j \in 1 .. n - 1 PROVE t[j] = IF j < i THEN s[j] ELSE s[j + 1]
      <3>1. CASE j < i
        BY <1>3, <2>3, <2>6, <3>1
      <3>2. CASE ~(j < i)
        <4>1. ~(j <= i - 1) /\ j - (i - 1) \in 1 .. n - i /\ i + (j - (i - 1)) = j + 1
          BY <2>3, <3>2
        <4>2. b[j - (i - 1)] = s[i + (j - (i - 1))]
          BY <1>4, <4>1
        <4> QED
          BY <2>6, <3>2, <4>1, <4>2
      <3> QED
        BY <3>1, <3>2
    <2> QED
      BY <2>1, <2>5, <2>7
  <1> HIDE DEF t
  <1>6. \A y : y \in Elements(t) <=> \E j \in 1 .. n - 1 : y = t[j]
    <2> HIDE DEF n
    <2> QED
      BY <1>5, SomeElements
  <1>7. \A y : y \in Elements(s) <=> \E j \in 1 .. n : y = s[j]
    BY SomeElements
  <1>8. Without(s, i) = t
    BY DEF Without, t, a, b
  <1> HIDE DEF n
  <1>9. ASSUME NEW j \in 1 .. n
        PROVE  \/ j = i
               \/ j < i /\ j \in 1 .. n - 1
               \/ ~(j - 1 < i) /\ j - 1 \in 1 .. n - 1 /\ (j - 1) + 1 = j
    <2>1. CASE j < i
      BY <1>1, <2>1
    <2>2. CASE j > i
      BY <1>1, <2>2
    <2> QED
      BY <1>1, <2>1, <2>2
  <1>10. \A j \in 1 .. n - 1 : j \in 1 .. n /\ j + 1 \in 1 .. n
    BY <1>1
  <1>11. \A y : y \in Elements(s) <=> y = s[i] \/ y \in Elements(t)
    <2>1. ASSUME NEW y, y \in Elements(s) PROVE y = s[i] \/ y \in Elements(t)
      <3>1. PICK j \in 1 .. n : y = s[j]
        BY <1>7, <2>1
      <3>2. j = i \/ (j \in 1 .. n - 1 /\ t[j] = s[j]) \/ (j - 1 \in 1 .. n - 1 /\ t[j - 1] = s[j])
        BY <1>5, <1>9
      <3> QED
        BY <1>6, <3>1, <3>2
    <2>2. ASSUME NEW y, y \in Elements(t) PROVE y \in Elements(s)
      <3>1. PICK j \in 1 .. n - 1 : y = t[j]
        BY <1>6, <2>2
      <3>2. y = s[j] \/ y = s[j + 1]
        BY <1>5, <3>1
      <3> QED
        BY <1>7, <1>10, <3>2
    <2>3. s[i] \in Elements(s)
      BY <1>7 DEF n
    <2> QED
      BY <2>1, <2>2, <2>3
  <1>12. Elements(s) = {s[i]} \cup Elements(t)
    BY <1>11
  <1> QED
    BY <1>5, <1>8, <1>12

----------------------------------------------------------------------------
(* The invariant *)

\* The map's entry is to a chunk that was created; without one, none was.
EntryCreated ==
  \A pos \in Positions :
    entry[pos] <= created[pos] /\ (entry[pos] = 0 => created[pos] = 0)

\* Only created chunks are referred to.
OnlyCreated ==
  \A k \in Chunks : Alive(k) \/ Emerging(k) => k.nth <= created[k.at]

\* The home chunks are held from their creation on, before the main thread receives.
HomeHeld ==
  \A pos \in Home :
    /\ created[pos] # 0 => Entry(pos) \in held
    /\ main.pc # "start" => created[pos] # 0

\* Every chunk that lives is Ready, or will be: not only those in a pending list.
AliveEmerging ==
  \A k \in Chunks : Alive(k) => state[k] = "Ready" \/ Emerging(k)

LockedBusy == \A w \in locked : task[w] # Nothing

\* The updater walks the list of a player that is there, and only once it was started.
WalksSomebody ==
  /\ upd.pc = "pick" => upd.to \in present
  /\ main.pc = "start" => upd.pc = "off"

\* Whoever left has been forgotten.
GoneForgotten == \A p \in Players \ present : told[p] = {}

ServiceInv ==
  /\ TypeOK /\ EntryCreated /\ OnlyCreated /\ HomeHeld /\ OneWhileFound /\ AliveEmerging
  /\ LockedBusy /\ WalksSomebody /\ GoneForgotten /\ AllAccountedFor

(* A step's local state is of the kind its pc says. *)
LEMMA Places ==
  ASSUME TypeOK
  PROVE  /\ upd.pc = "pick" => upd \in Picking /\ upd.to \in Players /\ upd.it \in Nat \ {0}
         /\ upd.pc = "scan" => upd \in Scanning /\ upd.from \in Nat
         /\ main.pc = "lock" => main \in Looking /\ main.by \in Players /\ main.for \in Positions
         /\ main.pc # "lock" => main = At("start") \/ main = At("idle")
  BY DEF TypeOK, At, Picking, Scanning, Looking, Nothing

(* An empty reference is no chunk. *)
LEMMA NothingElse == Nothing \notin Chunks
  BY DEF Nothing, Chunks

(* The chunk of an entry, and the next at a position. *)
LEMMA EntryIsChunk ==
  ASSUME TypeOK, NEW pos \in Positions
  PROVE  /\ entry[pos] # 0 => Entry(pos) \in Chunks
         /\ created[pos] < MaxCopies => NewChunk(pos) \in Chunks
         /\ Entry(pos).at = pos /\ Entry(pos).nth = entry[pos]
         /\ NewChunk(pos).at = pos /\ NewChunk(pos).nth = created[pos] + 1
  BY ServiceAssumption DEF TypeOK, Entry, NewChunk, Chunks

(* Creating a chunk and handing it to the emerger. *)
LEMMA LoadTypes ==
  ASSUME TypeOK, NEW pos \in Positions, LoadNew(pos)
  PROVE  /\ created' \in [Positions -> 0 .. MaxCopies]
         /\ entry' \in [Positions -> 0 .. MaxCopies]
         /\ queue' \in Seq(Chunks)
         /\ NewChunk(pos) \in Chunks
         /\ UNCHANGED <<state, task, locked>>
  <1>1. /\ created[pos] < MaxCopies /\ created' = [created EXCEPT ![pos] = @ + 1]
        /\ queue' = Append(queue, NewChunk(pos))
        /\ entry' = [entry EXCEPT ![pos] = IF @ = 0 THEN created'[pos] ELSE @]
        /\ UNCHANGED <<state, task, locked>>
    BY DEF LoadNew, GetNewEmptyChunk
  <1>2. created[pos] + 1 \in 0 .. MaxCopies
    BY <1>1, ServiceAssumption DEF TypeOK
  <1>3. created' \in [Positions -> 0 .. MaxCopies]
    BY <1>1, <1>2 DEF TypeOK
  <1>4. entry' \in [Positions -> 0 .. MaxCopies]
    BY <1>1, <1>3 DEF TypeOK
  <1>5. NewChunk(pos) \in Chunks
    BY <1>1, EntryIsChunk
  <1>6. queue' \in Seq(Chunks)
    BY <1>1, <1>5, AppendedElements DEF TypeOK
  <1> QED
    BY <1>1, <1>3, <1>4, <1>5, <1>6

(* Scheduling a chunk, or an empty reference. *)
LEMMA ScheduleTypes ==
  ASSUME TypeOK, NEW p \in Players, NEW pos \in Positions, NEW k \in Chunks \cup {Nothing},
         Schedule(p, pos, k)
  PROVE  /\ pending' \in [Players -> Seq(Chunks \cup {Nothing})]
         /\ wants' \in [Players -> SUBSET Positions]
         /\ UNCHANGED <<held, present, told>>
  <1>1. Append(pending[p], k) \in Seq(Chunks \cup {Nothing})
    BY AppendedElements DEF TypeOK
  <1>2. pending' = [pending EXCEPT ![p] = Append(pending[p], k)]
        /\ wants' = [wants EXCEPT ![p] = wants[p] \cup {pos}]
    BY DEF Schedule
  <1> QED
    BY <1>1, <1>2 DEF TypeOK, Schedule

(* The list a player gets when it joins: the home chunks in some order. *)
LEMMA JoinOrder ==
  ASSUME TypeOK, HomeHeld, main.pc = "idle", EntryCreated,
         NEW order \in [1 .. Cardinality(Home) -> Home], Elements(order) = Home,
         NEW list, list = [i \in DOMAIN order |-> Entry(order[i])]
  PROVE  /\ list \in Seq(Chunks)
         /\ \A k : k \in Elements(list) <=> \E pos \in Home : k = Entry(pos)
  <1>1. Cardinality(Home) \in Nat
    BY ServiceAssumption, FS_Subset, FS_CardinalityType
  <1>2. \A pos \in Home : entry[pos] # 0 /\ Entry(pos) \in Chunks
    BY EntryIsChunk, ServiceAssumption DEF TypeOK, HomeHeld, EntryCreated
  <1>3. DOMAIN order = 1 .. Cardinality(Home) /\ \A i \in DOMAIN order : order[i] \in Home
    OBVIOUS
  <1>4. list \in [1 .. Cardinality(Home) -> Chunks]
    BY <1>2, <1>3
  <1>5. list \in Seq(Chunks)
    BY <1>1, <1>4, SeqDef
  <1>6. \A k : k \in Elements(list) <=> \E i \in DOMAIN order : k = Entry(order[i])
    BY <1>3 DEF Elements
  <1>7. \A pos : pos \in Home <=> \E i \in DOMAIN order : pos = order[i]
    BY DEF Elements
  <1> QED
    BY <1>5, <1>6, <1>7

(* Every step keeps the types. *)
LEMMA ServiceTypeStep ==
  TypeOK /\ EntryCreated /\ HomeHeld /\ [Next]_vars => TypeOK'
  <1> SUFFICES ASSUME TypeOK, EntryCreated, HomeHeld, [Next]_vars PROVE TypeOK'
    OBVIOUS
  <1> USE ServiceAssumption DEF world, emerger, lists, updater, clients
  <1>1. \A pos \in Home : Start(pos) => TypeOK'
    <2> SUFFICES ASSUME NEW pos \in Home, Start(pos) PROVE TypeOK'
      OBVIOUS
    <2>1. pos \in Positions /\ LoadNew(pos)
      BY DEF Start
    <2> QED
      BY <2>1, LoadTypes DEF Start, TypeOK
  <1>2. Run => TypeOK'
    BY DEF Run, TypeOK, Scanning
  <1>3. RequestLock => TypeOK'
    <2> SUFFICES ASSUME RequestLock PROVE TypeOK'
      OBVIOUS
    <2> DEFINE k == IF Found(main.for) THEN Entry(main.for) ELSE Nothing
    <2>1. main.by \in Players /\ main.for \in Positions
      BY Places DEF RequestLock
    <2>2. k \in Chunks \cup {Nothing}
      BY <2>1, EntryIsChunk DEF Found
    <2>3. Schedule(main.by, main.for, k)
      BY DEF RequestLock
    <2> HIDE DEF k
    <2> QED
      BY <2>1, <2>2, <2>3, ScheduleTypes DEF RequestLock, TypeOK
  <1>4. \A p \in Players : Join(p) => TypeOK'
    <2> SUFFICES ASSUME NEW p \in Players, Join(p) PROVE TypeOK'
      OBVIOUS
    <2>1. PICK order \in [1 .. Cardinality(Home) -> Home] :
            /\ Elements(order) = Home
            /\ pending' = [pending EXCEPT ![p] = [i \in DOMAIN order |-> Entry(order[i])]]
      BY DEF Join
    <2>2. [i \in DOMAIN order |-> Entry(order[i])] \in Seq(Chunks)
      BY <2>1, JoinOrder DEF Join
    <2>3. [i \in DOMAIN order |-> Entry(order[i])] \in Seq(Chunks \cup {Nothing})
      BY <2>2, SeqMonotonic
    <2>4. pending' \in [Players -> Seq(Chunks \cup {Nothing})]
      BY <2>1, <2>3 DEF TypeOK
    <2>5. wants' \in [Players -> SUBSET Positions] /\ present' \subseteq Players
      BY DEF Join, TypeOK
    <2>6. UNCHANGED <<world, emerger, main, held, updater, told>>
      BY DEF Join
    <2> QED
      BY <2>4, <2>5, <2>6 DEF TypeOK
  <1>5. \A p \in Players, pos \in Positions : RequestFound(p, pos) => TypeOK'
    BY DEF RequestFound, TypeOK, Looking
  <1>6. \A p \in Players, pos \in Positions : RequestNew(p, pos) => TypeOK'
    <2> SUFFICES ASSUME NEW p \in Players, NEW pos \in Positions, RequestNew(p, pos)
                 PROVE  TypeOK'
      OBVIOUS
    <2>1. LoadNew(pos) /\ Schedule(p, pos, NewChunk(pos)) /\ UNCHANGED <<main, updater>>
      BY DEF RequestNew
    <2>2. NewChunk(pos) \in Chunks \cup {Nothing}
      BY <2>1, LoadTypes
    <2> QED
      BY <2>1, <2>2, LoadTypes, ScheduleTypes DEF TypeOK
  <1>7. \A p \in Players : Leave(p) => TypeOK'
    <2> SUFFICES ASSUME NEW p \in Players, Leave(p) PROVE TypeOK'
      OBVIOUS
    <2>1. <<>> \in Seq(Chunks \cup {Nothing})
      BY EmptySeq
    <2> QED
      BY <2>1 DEF Leave, TypeOK
  <1>8. \A w \in Workers : TakeTask(w) => TypeOK'
    BY HeadAndTail DEF TakeTask, TypeOK
  <1>9. \A w \in Workers : DropTask(w) => TypeOK'
    BY DEF DropTask, TypeOK
  <1>10. \A w \in Workers : LockTask(w) => TypeOK'
    BY DEF LockTask, TypeOK
  <1>11. \A w \in Workers : Generated(w) => TypeOK'
    BY DEF Generated, TypeOK
  <1>12. Scan => TypeOK'
    <2> SUFFICES ASSUME Scan PROVE TypeOK'
      OBVIOUS
    <2>1. PICK q \in After(upd.from) :
            /\ seen' = IF Alive(Entry(q)) THEN Entry(q) ELSE Nothing
            /\ upd' = [upd EXCEPT !.from = q + 1]
      BY DEF Scan
    <2>2. q \in Positions /\ q \in Nat /\ Entry(q) \in Chunks
      BY <2>1, EntryIsChunk DEF After
    <2>3. upd \in Scanning
      BY Places DEF Scan
    <2>4. upd' \in Scanning
      BY <2>1, <2>2, <2>3 DEF Scanning
    <2> QED
      BY <2>1, <2>2, <2>4 DEF Scan, TypeOK
  <1>13. ScanEnd => TypeOK'
    BY DEF ScanEnd, TypeOK
  <1>14. \A p \in Players : Visit(p) => TypeOK'
    <2> SUFFICES ASSUME NEW p \in Players, Visit(p) PROVE TypeOK'
      OBVIOUS
    <2>1. batch' = <<>> /\ batch' \in Seq(Chunks) /\ Len(batch') = 0
      BY EmptySeq DEF Visit
    <2>2. upd' \in Picking
      BY DEF Visit, Picking
    <2> QED
      BY <2>1, <2>2 DEF Visit, TypeOK
  <1>15. PickNull => TypeOK'
    BY DEF PickNull, TypeOK
  <1>16. PickReady => TypeOK'
    <2> SUFFICES ASSUME PickReady PROVE TypeOK'
      OBVIOUS
    <2> DEFINE s == pending[upd.to]
    <2>1. upd.to \in Players /\ s \in Seq(Chunks \cup {Nothing}) /\ upd.it \in 1 .. Len(s)
      BY Places, SMTT(30) DEF PickReady, CanPick, PendingHere, TypeOK
    <2>2. Without(s, upd.it) \in Seq(Chunks \cup {Nothing})
      BY <2>1, WithoutElements
    <2>3. s[upd.it] \in Chunks
      BY <2>1, ElementOfSeq DEF PickReady, PendingHere
    <2>4. batch' = Append(batch, s[upd.it]) /\ Len(batch) < Batch
      BY DEF PickReady, PendingHere, CanPick
    <2>5. pending' = [pending EXCEPT ![upd.to] = Without(s, upd.it)]
      BY DEF PickReady
    <2> HIDE DEF s
    <2>6. batch' \in Seq(Chunks) /\ Len(batch') <= Batch
      BY <2>3, <2>4 DEF TypeOK
    <2>7. pending' \in [Players -> Seq(Chunks \cup {Nothing})]
      BY <2>1, <2>2, <2>5 DEF TypeOK
    <2>8. UNCHANGED <<world, emerger, main, held, present, upd, seen, visited, clients>>
      BY DEF PickReady
    <2> QED
      BY <2>6, <2>7, <2>8 DEF TypeOK
  <1>17. PickSkip => TypeOK'
    <2> SUFFICES ASSUME PickSkip PROVE TypeOK'
      OBVIOUS
    <2>1. upd \in Picking /\ upd' = [upd EXCEPT !.it = @ + 1]
      BY Places DEF PickSkip, CanPick
    <2>2. upd' \in Picking
      BY <2>1 DEF Picking
    <2> QED
      BY <2>2 DEF PickSkip, TypeOK
  <1>18. SendChunks => TypeOK'
    <2> SUFFICES ASSUME SendChunks PROVE TypeOK'
      OBVIOUS
    <2>1. batch \in Seq(Chunks) /\ Len(batch) \in Nat /\ CountModulus \in Nat /\ CountModulus > 0
      BY LenProperties DEF TypeOK
    <2>2. \A i \in 1 .. (Len(batch) % CountModulus) : i \in 1 .. Len(batch)
      BY <2>1
    <2>3. \A i \in 1 .. Len(batch) : batch[i] \in Chunks
      BY <2>1, ElementOfSeq
    <2>4. Readable(batch) \subseteq Positions
      BY <2>2, <2>3 DEF Readable, Chunks
    <2> QED
      BY <2>4, Places DEF SendChunks, TypeOK
  <1>19. Sleep => TypeOK'
    BY DEF Sleep, TypeOK
  <1>20. Wake => TypeOK'
    <2> SUFFICES ASSUME Wake PROVE TypeOK'
      OBVIOUS
    <2>1. batch' = <<>> /\ batch' \in Seq(Chunks) /\ Len(batch') = 0
      BY EmptySeq DEF Wake
    <2>2. upd' \in Scanning
      BY DEF Wake, Scanning
    <2> QED
      BY <2>1, <2>2 DEF Wake, TypeOK
  <1>21. UNCHANGED vars => TypeOK'
    BY DEF vars, TypeOK
  <1> HIDE DEF TypeOK
  <1> QED
    BY ServiceSteps, <1>1, <1>2, <1>3, <1>4, <1>5, <1>6, <1>7, <1>8, <1>9, <1>10, <1>11,
       <1>12, <1>13, <1>14, <1>15, <1>16, <1>17, <1>18, <1>19, <1>20, <1>21

----------------------------------------------------------------------------
(* What a step means for the chunks. *)

AliveShrinks == \A k \in Chunks : Alive(k)' => Alive(k)

\* The map, the emerger and who is alive: one chunk is created where the map finds none,
\* or a worker moves, or nobody new is alive and the rest stays.
Kind ==
  \/ AliveShrinks /\ UNCHANGED <<created, entry, state, queue, task, locked>>
  \/ \E pos \in Positions :
       /\ LoadNew(pos) /\ ~Found(pos)
       /\ \A k \in Chunks : Alive(k)' => Alive(k) \/ k = NewChunk(pos)
  \/ \E w \in Workers : WorkerStep(w) /\ AliveShrinks

(* Who is alive when the references are those of before. *)
LEMMA SameAlive ==
  ASSUME UNCHANGED <<held, present, pending, batch, seen, locked, task>>
  PROVE  AliveShrinks
  BY DEF AliveShrinks, Alive

(* A list with one more reference. *)
LEMMA ScheduledAlive ==
  ASSUME TypeOK, NEW p \in Players, NEW pos \in Positions, NEW k \in Chunks \cup {Nothing},
         Schedule(p, pos, k), UNCHANGED <<batch, seen, locked, task>>
  PROVE  \A c \in Chunks : Alive(c)' => Alive(c) \/ c = k
  <1>1. pending' = [pending EXCEPT ![p] = Append(pending[p], k)]
        /\ UNCHANGED <<held, present>>
    BY DEF Schedule
  <1>2. Elements(Append(pending[p], k)) = Elements(pending[p]) \cup {k}
    <2>1. pending[p] \in Seq(Chunks \cup {Nothing})
      BY DEF TypeOK
    <2> QED
      BY <2>1, AppendedElements
  <1>3. \A r \in Players : \A c : c \in Elements(pending'[r]) => c \in Elements(pending[r]) \/ c = k
    BY <1>1, <1>2 DEF TypeOK
  <1>4. \A r \in present : r \in Players
    BY DEF TypeOK
  <1> HIDE DEF Elements
  <1> QED
    BY <1>1, <1>3, <1>4 DEF Alive

(* A chunk moves from the list being walked to the batch. *)
LEMMA Picked ==
  ASSUME TypeOK, PickReady
  PROVE  /\ upd.to \in Players
         /\ \A p \in Players \ {upd.to} : pending'[p] = pending[p]
         /\ \E k \in Chunks :
              /\ k \in Elements(pending[upd.to])
              /\ Elements(batch') = Elements(batch) \cup {k}
              /\ Elements(pending[upd.to]) = {k} \cup Elements(pending'[upd.to])
  <1> DEFINE s == pending[upd.to]
             k == s[upd.it]
  <1>1. upd.to \in Players /\ s \in Seq(Chunks \cup {Nothing}) /\ upd.it \in 1 .. Len(s)
    BY Places DEF PickReady, CanPick, PendingHere, TypeOK
  <1>2. k \in Chunks
    BY <1>1, ElementOfSeq DEF PickReady, PendingHere
  <1>3. batch' = Append(batch, k) /\ pending' = [pending EXCEPT ![upd.to] = Without(s, upd.it)]
    BY DEF PickReady, PendingHere
  <1> HIDE DEF k, s
  <1>4. Elements(s) = {s[upd.it]} \cup Elements(Without(s, upd.it))
    BY <1>1, WithoutElements
  <1>5. Elements(batch') = Elements(batch) \cup {k}
    BY <1>2, <1>3, AppendedElements DEF TypeOK
  <1>6. pending'[upd.to] = Without(s, upd.it) /\ \A p \in Players \ {upd.to} : pending'[p] = pending[p]
    BY <1>1, <1>3 DEF TypeOK
  <1>7. Elements(s) = {k} \cup Elements(pending'[upd.to])
    BY <1>4, <1>6 DEF k
  <1> QED
    BY <1>1, <1>2, <1>5, <1>6, <1>7 DEF s

(* Every step is of one of these kinds. *)
LEMMA StepKinds ==
  ASSUME TypeOK, EntryCreated, HomeHeld, LockedBusy, WalksSomebody, [Next]_vars
  PROVE  Kind
  <1> USE ServiceAssumption DEF world, emerger, lists, updater, clients
  <1>1. \A pos \in Home : Start(pos) => Kind
    <2> SUFFICES ASSUME NEW pos \in Home, Start(pos) PROVE Kind
      OBVIOUS
    <2>1. pos \in Positions /\ LoadNew(pos) /\ created[pos] = 0
      BY DEF Start
    <2>2. entry[pos] = 0
      BY <2>1 DEF EntryCreated, TypeOK
    <2>3. ~Found(pos)
      BY <2>2 DEF Found
    <2>4. held' = held \cup {NewChunk(pos)}
          /\ UNCHANGED <<present, pending, batch, seen, locked, task>>
      BY <2>1, LoadTypes DEF Start
    <2>5. \A k \in Chunks : Alive(k)' => Alive(k) \/ k = NewChunk(pos)
      BY <2>4 DEF Alive
    <2> QED
      BY <2>1, <2>3, <2>5 DEF Kind
  <1>2. Run => Kind
    BY SameAlive DEF Run, Kind
  <1>3. RequestLock => Kind
    <2> SUFFICES ASSUME RequestLock PROVE Kind
      OBVIOUS
    <2> DEFINE k == IF Found(main.for) THEN Entry(main.for) ELSE Nothing
    <2>1. main.by \in Players /\ main.for \in Positions
      BY Places DEF RequestLock
    <2>2. k \in Chunks \cup {Nothing} /\ (k \in Chunks => Alive(k))
      BY <2>1, EntryIsChunk, NothingElse DEF Found
    <2>3. Schedule(main.by, main.for, k) /\ UNCHANGED <<world, emerger, updater>>
      BY DEF RequestLock
    <2> HIDE DEF k
    <2>4. \A c \in Chunks : Alive(c)' => Alive(c) \/ c = k
      BY <2>1, <2>2, <2>3, ScheduledAlive
    <2> QED
      BY <2>2, <2>3, <2>4 DEF Kind, AliveShrinks
  <1>4. \A p \in Players : Join(p) => Kind
    <2> SUFFICES ASSUME NEW p \in Players, Join(p) PROVE Kind
      OBVIOUS
    <2>1. PICK order \in [1 .. Cardinality(Home) -> Home] :
            /\ Elements(order) = Home
            /\ pending' = [pending EXCEPT ![p] = [i \in DOMAIN order |-> Entry(order[i])]]
      BY DEF Join
    <2> DEFINE list == [i \in DOMAIN order |-> Entry(order[i])]
    <2>2. \A k : k \in Elements(list) <=> \E pos \in Home : k = Entry(pos)
      BY <2>1, JoinOrder DEF Join
    <2>3. \A pos \in Home : Entry(pos) \in held
      BY DEF Join, HomeHeld
    <2>4. pending' = [pending EXCEPT ![p] = list]
      BY <2>1
    <2> HIDE DEF list
    <2>5. \A r \in Players : \A k : k \in Elements(pending'[r]) =>
            (r # p /\ k \in Elements(pending[r])) \/ k \in held
      BY <2>2, <2>3, <2>4 DEF TypeOK
    <2>6. present' = present \cup {p} /\ present \subseteq Players
          /\ UNCHANGED <<world, emerger, main, held, updater, told>>
      BY DEF Join, TypeOK
    <2>7. AliveShrinks
      <3> HIDE DEF Elements
      <3> QED
        BY <2>5, <2>6 DEF AliveShrinks, Alive
    <2> QED
      BY <2>6, <2>7 DEF Kind
  <1>5. \A p \in Players, pos \in Positions : RequestFound(p, pos) => Kind
    BY SameAlive DEF RequestFound, Kind
  <1>6. \A p \in Players, pos \in Positions : RequestNew(p, pos) => Kind
    <2> SUFFICES ASSUME NEW p \in Players, NEW pos \in Positions, RequestNew(p, pos)
                 PROVE  Kind
      OBVIOUS
    <2>1. ~Found(pos) /\ LoadNew(pos) /\ Schedule(p, pos, NewChunk(pos)) /\ UNCHANGED updater
      BY DEF RequestNew
    <2>2. NewChunk(pos) \in Chunks /\ UNCHANGED <<batch, seen, locked, task>>
      BY <2>1, LoadTypes
    <2>3. \A c \in Chunks : Alive(c)' => Alive(c) \/ c = NewChunk(pos)
      BY <2>1, <2>2, ScheduledAlive
    <2> QED
      BY <2>1, <2>3 DEF Kind
  <1>7. \A p \in Players : Leave(p) => Kind
    <2> SUFFICES ASSUME NEW p \in Players, Leave(p) PROVE Kind
      OBVIOUS
    <2>1. present' = present \ {p} /\ pending' = [pending EXCEPT ![p] = <<>>]
          /\ UNCHANGED <<world, emerger, main, held, updater>>
      BY DEF Leave
    <2>2. \A r \in present' : r \in present /\ pending'[r] = pending[r]
      BY <2>1 DEF TypeOK
    <2>3. AliveShrinks
      BY <2>1, <2>2 DEF AliveShrinks, Alive
    <2> QED
      BY <2>1, <2>3 DEF Kind
  <1>8. \A w \in Workers : TakeTask(w) => Kind
    <2> SUFFICES ASSUME NEW w \in Workers, TakeTask(w) PROVE Kind
      OBVIOUS
    <2>1. w \notin locked /\ task' = [task EXCEPT ![w] = Head(queue)]
          /\ UNCHANGED <<world, locked, main, lists, updater, clients>>
      BY DEF TakeTask, LockedBusy
    <2>2. \A v \in locked' : v \in locked /\ task'[v] = task[v]
      BY <2>1 DEF TypeOK
    <2>3. AliveShrinks
      BY <2>1, <2>2 DEF AliveShrinks, Alive
    <2> QED
      BY <2>3 DEF Kind, WorkerStep
  <1>9. \A w \in Workers : DropTask(w) => Kind
    <2> SUFFICES ASSUME NEW w \in Workers, DropTask(w) PROVE Kind
      OBVIOUS
    <2>1. w \notin locked /\ task' = [task EXCEPT ![w] = Nothing]
          /\ UNCHANGED <<world, queue, locked, main, lists, updater, clients>>
      BY DEF DropTask
    <2>2. \A v \in locked' : v \in locked /\ task'[v] = task[v]
      BY <2>1 DEF TypeOK
    <2>3. AliveShrinks
      BY <2>1, <2>2 DEF AliveShrinks, Alive
    <2> QED
      BY <2>3 DEF Kind, WorkerStep
  <1>10. \A w \in Workers : LockTask(w) => Kind
    <2> SUFFICES ASSUME NEW w \in Workers, LockTask(w) PROVE Kind
      OBVIOUS
    <2>1. locked' = locked \cup {w} /\ Alive(task[w])
          /\ UNCHANGED <<created, entry, queue, task, main, lists, updater, clients>>
      BY DEF LockTask
    <2>2. AliveShrinks
      BY <2>1 DEF AliveShrinks, Alive
    <2> QED
      BY <2>2 DEF Kind, WorkerStep
  <1>11. \A w \in Workers : Generated(w) => Kind
    <2> SUFFICES ASSUME NEW w \in Workers, Generated(w) PROVE Kind
      OBVIOUS
    <2>1. locked' = locked \ {w} /\ task' = [task EXCEPT ![w] = Nothing]
          /\ UNCHANGED <<created, entry, queue, main, lists, updater, clients>>
      BY DEF Generated
    <2>2. \A v \in locked' : v \in locked /\ task'[v] = task[v]
      BY <2>1 DEF TypeOK
    <2>3. AliveShrinks
      BY <2>1, <2>2 DEF AliveShrinks, Alive
    <2> QED
      BY <2>3 DEF Kind, WorkerStep
  <1>12. Scan => Kind
    <2> SUFFICES ASSUME Scan PROVE Kind
      OBVIOUS
    <2>1. PICK q \in After(upd.from) : seen' = IF Alive(Entry(q)) THEN Entry(q) ELSE Nothing
      BY DEF Scan
    <2>2. UNCHANGED <<world, emerger, main, lists, batch, visited, clients>>
      BY DEF Scan
    <2>3. AliveShrinks
      BY <2>1, <2>2, NothingElse DEF AliveShrinks, Alive
    <2> QED
      BY <2>2, <2>3 DEF Kind
  <1>13. ScanEnd => Kind
    BY SameAlive DEF ScanEnd, Kind
  <1>14. \A p \in Players : Visit(p) => Kind
    <2> SUFFICES ASSUME NEW p \in Players, Visit(p) PROVE Kind
      OBVIOUS
    <2>1. batch' = <<>> /\ (seen' = seen \/ seen' = Nothing)
          /\ UNCHANGED <<world, emerger, main, lists, clients>>
      BY DEF Visit
    <2>2. AliveShrinks
      BY <2>1, NoElements, NothingElse DEF AliveShrinks, Alive
    <2> QED
      BY <2>1, <2>2 DEF Kind
  <1>15. PickNull => Kind
    BY SameAlive DEF PickNull, Kind
  <1>16. PickReady => Kind
    <2> SUFFICES ASSUME PickReady PROVE Kind
      OBVIOUS
    <2>1. PICK k \in Chunks :
            /\ upd.to \in Players /\ k \in Elements(pending[upd.to])
            /\ Elements(batch') = Elements(batch) \cup {k}
            /\ Elements(pending[upd.to]) = {k} \cup Elements(pending'[upd.to])
            /\ \A p \in Players \ {upd.to} : pending'[p] = pending[p]
      BY Picked
    <2>2. UNCHANGED <<world, emerger, main, held, present, upd, seen, visited, clients>>
      BY DEF PickReady
    <2>3. upd.to \in present
      BY DEF PickReady, CanPick, WalksSomebody
    <2>4. AliveShrinks
      <3>1. \A p \in present : p \in Players
        BY DEF TypeOK
      <3> HIDE DEF Elements
      <3> QED
        BY <2>1, <2>2, <2>3, <3>1 DEF AliveShrinks, Alive
    <2> QED
      BY <2>2, <2>4 DEF Kind
  <1>17. PickSkip => Kind
    BY SameAlive DEF PickSkip, Kind
  <1>18. SendChunks => Kind
    BY SameAlive DEF SendChunks, Kind
  <1>19. Sleep => Kind
    BY SameAlive DEF Sleep, Kind
  <1>20. Wake => Kind
    <2> SUFFICES ASSUME Wake PROVE Kind
      OBVIOUS
    <2>1. batch' = <<>> /\ (seen' = seen \/ seen' = Nothing)
          /\ UNCHANGED <<world, emerger, main, lists, clients>>
      BY DEF Wake
    <2>2. AliveShrinks
      BY <2>1, NoElements, NothingElse DEF AliveShrinks, Alive
    <2> QED
      BY <2>1, <2>2 DEF Kind
  <1>21. UNCHANGED vars => Kind
    BY SameAlive DEF vars, Kind
  <1> HIDE DEF Kind
  <1> QED
    BY ServiceSteps, <1>1, <1>2, <1>3, <1>4, <1>5, <1>6, <1>7, <1>8, <1>9, <1>10, <1>11,
       <1>12, <1>13, <1>14, <1>15, <1>16, <1>17, <1>18, <1>19, <1>20, <1>21

----------------------------------------------------------------------------
(* Every step keeps the invariant: first the parts about chunks, by its kind. *)

(* Creating a chunk: what the map and the counts become. *)
LEMMA Loaded ==
  ASSUME TypeOK, EntryCreated, NEW pos \in Positions, LoadNew(pos)
  PROVE  /\ created'[pos] = created[pos] + 1
         /\ entry'[pos] = (IF entry[pos] = 0 THEN created[pos] + 1 ELSE entry[pos])
         /\ \A q \in Positions : q # pos => created'[q] = created[q] /\ entry'[q] = entry[q]
         /\ Elements(queue') = Elements(queue) \cup {NewChunk(pos)}
  <1>1. /\ created' = [created EXCEPT ![pos] = @ + 1]
        /\ entry' = [entry EXCEPT ![pos] = IF @ = 0 THEN created'[pos] ELSE @]
        /\ queue' = Append(queue, NewChunk(pos)) /\ NewChunk(pos) \in Chunks
    BY LoadTypes DEF LoadNew, GetNewEmptyChunk
  <1>2. queue \in Seq(Chunks)
    BY DEF TypeOK
  <1>3. Elements(queue') = Elements(queue) \cup {NewChunk(pos)}
    BY <1>1, <1>2, AppendedElements
  <1> QED
    BY <1>1, <1>3 DEF TypeOK

(* The four things a worker does, as far as its task goes. *)
LEMMA WorkerMoves ==
  ASSUME TypeOK, LockedBusy, NEW w \in Workers, WorkerStep(w)
  PROVE  /\ UNCHANGED <<created, entry>>
         /\ \A k \in Chunks : Emerging(k)' => Emerging(k)
         /\ \A k \in Chunks : Emerging(k) => Emerging(k)' \/ state'[k] = "Ready" \/ ~Alive(k)
         /\ \A k \in Chunks : state[k] = "Ready" => state'[k] = "Ready" \/ Emerging(k)'
         /\ LockedBusy'
  <1> USE NothingElse DEF world, emerger, lists, updater, clients
  <1>1. CASE TakeTask(w)
    <2>1. queue \in Seq(Chunks) /\ queue # <<>> /\ Elements(queue) = {Head(queue)} \cup Elements(Tail(queue))
          /\ Head(queue) \in Chunks
      BY <1>1, HeadAndTail DEF TakeTask, TypeOK
    <2>2. task[w] = Nothing /\ task' = [task EXCEPT ![w] = Head(queue)] /\ queue' = Tail(queue)
          /\ UNCHANGED <<world, locked>>
      BY <1>1 DEF TakeTask
    <2>3. task'[w] = Head(queue) /\ \A v \in Workers : v # w => task'[v] = task[v]
      BY <2>2 DEF TypeOK
    <2>4. \A k \in Chunks : Emerging(k)' <=> Emerging(k)
      <3> HIDE DEF Elements
      <3> QED
        BY <2>1, <2>2, <2>3 DEF Emerging
    <2>5. LockedBusy'
      BY <2>1, <2>2, <2>3 DEF LockedBusy, TypeOK
    <2> QED
      BY <2>2, <2>4, <2>5
  <1>2. CASE DropTask(w)
    <2>1. w \notin locked /\ ~Alive(task[w]) /\ task' = [task EXCEPT ![w] = Nothing]
          /\ UNCHANGED <<world, queue, locked>>
      BY <1>2 DEF DropTask
    <2>2. task'[w] = Nothing /\ \A v \in Workers : v # w => task'[v] = task[v]
      BY <2>1 DEF TypeOK
    <2>3. \A k \in Chunks : /\ Emerging(k)' => Emerging(k)
                            /\ Emerging(k) => Emerging(k)' \/ k = task[w]
      BY <2>1, <2>2 DEF Emerging
    <2>4. LockedBusy'
      BY <2>1, <2>2 DEF LockedBusy, TypeOK
    <2> QED
      BY <2>1, <2>3, <2>4
  <1>3. CASE LockTask(w)
    <2>1. task[w] # Nothing /\ locked' = locked \cup {w}
          /\ state' = [state EXCEPT ![task[w]] = "Generating"]
          /\ UNCHANGED <<created, entry, queue, task>>
      BY <1>3 DEF LockTask
    <2>2. \A k \in Chunks : Emerging(k)' <=> Emerging(k)
      BY <2>1 DEF Emerging
    <2>3. \A k \in Chunks : k # task[w] => state'[k] = state[k]
      BY <2>1 DEF TypeOK
    <2>4. \A k \in Chunks : k = task[w] => Emerging(k)
      BY DEF Emerging
    <2>5. LockedBusy'
      BY <2>1 DEF LockedBusy
    <2> QED
      BY <2>1, <2>2, <2>3, <2>4, <2>5
  <1>4. CASE Generated(w)
    <2>1. state' = [state EXCEPT ![task[w]] = "Ready"] /\ task' = [task EXCEPT ![w] = Nothing]
          /\ locked' = locked \ {w} /\ UNCHANGED <<created, entry, queue>>
      BY <1>4 DEF Generated
    <2>2. task'[w] = Nothing /\ \A v \in Workers : v # w => task'[v] = task[v]
      BY <2>1 DEF TypeOK
    <2>3. \A k \in Chunks : /\ Emerging(k)' => Emerging(k)
                            /\ Emerging(k) => Emerging(k)' \/ k = task[w]
      BY <2>1, <2>2 DEF Emerging
    <2>4. \A k \in Chunks : /\ k = task[w] => state'[k] = "Ready"
                            /\ state'[k] = state[k] \/ state'[k] = "Ready"
      BY <2>1 DEF TypeOK
    <2>5. LockedBusy'
      BY <2>1, <2>2 DEF LockedBusy, TypeOK
    <2> QED
      BY <2>1, <2>3, <2>4, <2>5
  <1> QED
    BY <1>1, <1>2, <1>3, <1>4 DEF WorkerStep

(* A step that leaves the map and the emerger alone. *)
LEMMA QuietEmerging ==
  ASSUME UNCHANGED <<queue, task>>
  PROVE  \A k \in Chunks : Emerging(k)' <=> Emerging(k)
  BY DEF Emerging

LEMMA CreatedStep ==
  ASSUME ServiceInv, Kind
  PROVE  EntryCreated' /\ OnlyCreated'
  <1> USE DEF ServiceInv
  <1>1. CASE AliveShrinks /\ UNCHANGED <<created, entry, state, queue, task, locked>>
    <2>1. \A k \in Chunks : Emerging(k)' => Emerging(k)
      BY <1>1, QuietEmerging
    <2> QED
      BY <1>1, <2>1 DEF AliveShrinks, EntryCreated, OnlyCreated
  <1>2. ASSUME NEW pos \in Positions, LoadNew(pos),
               \A k \in Chunks : Alive(k)' => Alive(k) \/ k = NewChunk(pos)
        PROVE  EntryCreated' /\ OnlyCreated'
    <2>1. /\ created'[pos] = created[pos] + 1
          /\ entry'[pos] = (IF entry[pos] = 0 THEN created[pos] + 1 ELSE entry[pos])
          /\ \A q \in Positions : q # pos => created'[q] = created[q] /\ entry'[q] = entry[q]
          /\ Elements(queue') = Elements(queue) \cup {NewChunk(pos)}
      BY <1>2, Loaded
    <2>2. created \in [Positions -> Nat] /\ entry \in [Positions -> Nat]
      BY ServiceAssumption DEF TypeOK
    <2>3. EntryCreated'
      BY <2>1, <2>2 DEF EntryCreated
    <2>4. task' = task /\ NewChunk(pos).at = pos /\ NewChunk(pos).nth = created[pos] + 1
      BY <1>2, LoadTypes, EntryIsChunk
    <2>5. \A k \in Chunks : Emerging(k)' => Emerging(k) \/ k = NewChunk(pos)
      <3> HIDE DEF Elements
      <3> QED
        BY <2>1, <2>4 DEF Emerging
    <2>6. ASSUME NEW k \in Chunks, Alive(k)' \/ Emerging(k)' PROVE k.nth <= created'[k.at]
      <3>1. CASE k = NewChunk(pos)
        BY <2>1, <2>2, <2>4, <3>1
      <3>2. CASE k # NewChunk(pos)
        <4>1. k.nth <= created[k.at]
          BY <1>2, <2>5, <2>6, <3>2 DEF OnlyCreated
        <4>2. k.at \in Positions /\ k.nth \in Nat
          BY DEF Chunks
        <4>3. created'[k.at] = created[k.at] \/ created'[k.at] = created[k.at] + 1
          BY <2>1, <4>2
        <4>4. \A a, b, c \in Nat : a <= b /\ (c = b \/ c = b + 1) => a <= c
          OBVIOUS
        <4>5. created[k.at] \in Nat /\ created'[k.at] \in Nat
          BY <2>2, <4>2, <4>3
        <4> QED
          BY <4>1, <4>2, <4>3, <4>4, <4>5
      <3> QED
        BY <3>1, <3>2
    <2> QED
      BY <2>3, <2>6 DEF OnlyCreated
  <1>3. ASSUME NEW w \in Workers, WorkerStep(w), AliveShrinks
        PROVE  EntryCreated' /\ OnlyCreated'
    <2>1. UNCHANGED <<created, entry>> /\ \A k \in Chunks : Emerging(k)' => Emerging(k)
      BY <1>3, WorkerMoves
    <2> QED
      BY <1>3, <2>1 DEF AliveShrinks, EntryCreated, OnlyCreated
  <1> QED
    BY <1>1, <1>2, <1>3 DEF Kind

LEMMA OneStep ==
  ASSUME ServiceInv, Kind
  PROVE  OneWhileFound'
  <1> USE DEF ServiceInv
  <1>1. ASSUME AliveShrinks, UNCHANGED <<created, entry>>
        PROVE  OneWhileFound'
    <2> SUFFICES ASSUME NEW pos \in Positions, Found(pos)',
                        NEW n \in (1 .. MaxCopies) \ {entry[pos]}
                 PROVE  ~Alive([at |-> pos, nth |-> n])'
      BY <1>1 DEF OneWhileFound
    <2>1. entry[pos] # 0 /\ Entry(pos)' = Entry(pos) /\ Alive(Entry(pos))'
      BY <1>1 DEF Found, Entry
    <2>2. Entry(pos) \in Chunks /\ [at |-> pos, nth |-> n] \in Chunks
      BY <2>1, EntryIsChunk DEF Chunks
    <2>3. Found(pos)
      <3>1. Alive(Entry(pos))
        BY <1>1, <2>1, <2>2 DEF AliveShrinks, Alive, Entry
      <3> QED
        BY <2>1, <3>1 DEF Found
    <2>4. ~Alive([at |-> pos, nth |-> n])
      BY <2>3 DEF OneWhileFound
    <2> QED
      BY <1>1, <2>2, <2>4 DEF AliveShrinks
  <1>2. ASSUME NEW p \in Positions, LoadNew(p), ~Found(p),
               \A k \in Chunks : Alive(k)' => Alive(k) \/ k = NewChunk(p)
        PROVE  OneWhileFound'
    <2> SUFFICES ASSUME NEW pos \in Positions, Found(pos)',
                        NEW n \in 1 .. MaxCopies, n # entry'[pos],
                        Alive([at |-> pos, nth |-> n])'
                 PROVE  FALSE
      BY DEF OneWhileFound
    <2>1. /\ entry'[p] = (IF entry[p] = 0 THEN created[p] + 1 ELSE entry[p])
          /\ \A q \in Positions : q # p => created'[q] = created[q] /\ entry'[q] = entry[q]
      BY <1>2, Loaded
    <2>2. created[pos] \in Nat /\ entry[pos] \in Nat /\ created[p] \in Nat
      BY ServiceAssumption DEF TypeOK
    <2>3. [at |-> pos, nth |-> n] \in Chunks /\ NewChunk(p) = [at |-> p, nth |-> created[p] + 1]
      BY DEF Chunks, NewChunk
    <2> PICK m : m = entry'[pos]
      OBVIOUS
    <2> DEFINE e == [at |-> pos, nth |-> m]
    <2>4. entry'[pos] # 0 /\ Alive(e)'
      <3>1. Entry(pos)' = e
        BY DEF Entry
      <3> QED
        BY <3>1 DEF Found, Alive
    <2>5. e \in Chunks
      BY <1>2, <2>4, LoadTypes DEF Chunks
    <2>6. CASE pos # p
      <3>1. entry'[pos] = entry[pos] /\ e # NewChunk(p) /\ [at |-> pos, nth |-> n] # NewChunk(p)
        BY <2>1, <2>3, <2>6
      <3>2. Alive(e) /\ Alive([at |-> pos, nth |-> n])
        BY <1>2, <2>3, <2>4, <2>5, <3>1
      <3>3. Found(pos)
        BY <2>4, <3>1, <3>2 DEF Found, Entry
      <3> QED
        BY <3>1, <3>2, <3>3 DEF OneWhileFound
    <2>7. CASE pos = p /\ entry[p] = 0
      <3>1. created[p] = 0 /\ entry'[p] = 1
        BY <2>1, <2>7 DEF EntryCreated
      <3>2. [at |-> pos, nth |-> n] # NewChunk(p)
        BY <2>3, <2>7, <3>1
      <3>3. n <= created[p]
        BY <1>2, <2>3, <2>7, <3>2 DEF OnlyCreated
      <3> QED
        BY <3>1, <3>3
    <2>8. CASE pos = p /\ entry[p] # 0
      <3>1. entry'[p] = entry[p] /\ entry[p] <= created[p]
        BY <2>1, <2>8 DEF EntryCreated
      <3>2. entry[p] # created[p] + 1
        BY <2>2, <2>8, <3>1
      <3>3. e # NewChunk(p)
        BY <2>3, <2>8, <3>1, <3>2
      <3>4. Alive(e)
        BY <1>2, <2>4, <2>5, <3>3
      <3> QED
        BY <1>2, <2>8, <3>1, <3>4 DEF Found, Entry
    <2> QED
      BY <2>6, <2>7, <2>8
  <1>3. ASSUME NEW w \in Workers, WorkerStep(w), AliveShrinks
        PROVE  OneWhileFound'
    BY <1>1, <1>3, WorkerMoves
  <1> QED
    BY <1>1, <1>2, <1>3 DEF Kind

LEMMA EmergingStep ==
  ASSUME ServiceInv, Kind
  PROVE  AliveEmerging' /\ LockedBusy'
  <1> USE DEF ServiceInv
  <1>1. CASE AliveShrinks /\ UNCHANGED <<created, entry, state, queue, task, locked>>
    <2>1. \A k \in Chunks : Emerging(k)' <=> Emerging(k)
      BY <1>1, QuietEmerging
    <2> QED
      BY <1>1, <2>1 DEF AliveShrinks, AliveEmerging, LockedBusy
  <1>2. ASSUME NEW pos \in Positions, LoadNew(pos),
               \A k \in Chunks : Alive(k)' => Alive(k) \/ k = NewChunk(pos)
        PROVE  AliveEmerging' /\ LockedBusy'
    <2>1. Elements(queue') = Elements(queue) \cup {NewChunk(pos)}
          /\ UNCHANGED <<state, task, locked>>
      BY <1>2, Loaded, LoadTypes
    <2>2. \A k \in Chunks : (Emerging(k) => Emerging(k)') /\ (k = NewChunk(pos) => Emerging(k)')
      <3> HIDE DEF Elements
      <3> QED
        BY <2>1 DEF Emerging
    <2> QED
      BY <1>2, <2>1, <2>2 DEF AliveEmerging, LockedBusy
  <1>3. ASSUME NEW w \in Workers, WorkerStep(w), AliveShrinks
        PROVE  AliveEmerging' /\ LockedBusy'
    <2>1. /\ \A k \in Chunks : Emerging(k) => Emerging(k)' \/ state'[k] = "Ready" \/ ~Alive(k)
          /\ \A k \in Chunks : state[k] = "Ready" => state'[k] = "Ready" \/ Emerging(k)'
          /\ LockedBusy'
      BY <1>3, WorkerMoves
    <2> QED
      BY <1>3, <2>1 DEF AliveShrinks, AliveEmerging
  <1> QED
    BY <1>1, <1>2, <1>3 DEF Kind

----------------------------------------------------------------------------
(* The parts about who waits for what, by action. *)

\* The home chunks' part, the walk's and that of those who left.
Manners == HomeHeld /\ WalksSomebody /\ GoneForgotten

LEMMA MannersStep ==
  ASSUME ServiceInv, [Next]_vars
  PROVE  Manners'
  <1> USE ServiceAssumption DEF ServiceInv, world, emerger, lists, updater, clients
  <1>1. \A pos \in Home : Start(pos) => Manners'
    <2> SUFFICES ASSUME NEW pos \in Home, Start(pos) PROVE Manners'
      OBVIOUS
    <2>1. pos \in Positions /\ LoadNew(pos) /\ created[pos] = 0 /\ held' = held \cup {NewChunk(pos)}
          /\ main' = main /\ main.pc = "start"
          /\ UNCHANGED <<present, upd, told>>
      BY DEF Start
    <2>2. entry[pos] = 0
      BY <2>1 DEF EntryCreated, TypeOK
    <2>3. /\ created'[pos] = 1 /\ entry'[pos] = 1
          /\ \A q \in Positions : q # pos => created'[q] = created[q] /\ entry'[q] = entry[q]
      BY <2>1, <2>2, Loaded
    <2>4. NewChunk(pos) = [at |-> pos, nth |-> 1]
      BY <2>1 DEF NewChunk
    <2>5. HomeHeld'
      BY <2>1, <2>3, <2>4 DEF HomeHeld, Entry
    <2> QED
      BY <2>1, <2>5 DEF Manners, WalksSomebody, GoneForgotten
  <1>2. Run => Manners'
    <2> SUFFICES ASSUME Run PROVE Manners'
      OBVIOUS
    <2>1. /\ \A pos \in Home : created[pos] # 0
          /\ main'.pc = "idle" /\ upd'.pc = "scan" /\ UNCHANGED <<world, held, present, told>>
      BY DEF Run, At
    <2> QED
      BY <2>1 DEF Manners, HomeHeld, Entry, WalksSomebody, GoneForgotten
  <1>3. RequestLock => Manners'
    BY DEF RequestLock, Schedule, Manners, HomeHeld, Entry, At, WalksSomebody, GoneForgotten
  <1>4. \A p \in Players : Join(p) => Manners'
    <2> SUFFICES ASSUME NEW p \in Players, Join(p) PROVE Manners'
      OBVIOUS
    <2>1. /\ present' = present \cup {p} /\ main.pc = "idle"
          /\ UNCHANGED <<world, main, held, upd, told>>
      BY DEF Join
    <2> QED
      BY <2>1 DEF Manners, HomeHeld, Entry, WalksSomebody, GoneForgotten
  <1>5. \A p \in Players, pos \in Positions : RequestFound(p, pos) => Manners'
    <2> SUFFICES ASSUME NEW p \in Players, NEW pos \in Positions, RequestFound(p, pos)
                 PROVE  Manners'
      OBVIOUS
    <2>1. /\ main.pc = "idle" /\ main'.pc = "lock"
          /\ UNCHANGED <<world, held, present, upd, told>>
      BY DEF RequestFound, CanRequest
    <2> QED
      BY <2>1 DEF Manners, HomeHeld, Entry, WalksSomebody, GoneForgotten
  <1>6. \A p \in Players, pos \in Positions : RequestNew(p, pos) => Manners'
    <2> SUFFICES ASSUME NEW p \in Players, NEW pos \in Positions, RequestNew(p, pos)
                 PROVE  Manners'
      OBVIOUS
    <2>1. /\ ~Found(pos) /\ LoadNew(pos) /\ main.pc = "idle"
          /\ UNCHANGED <<main, held, present, upd, told>>
      BY DEF RequestNew, CanRequest, Schedule
    <2>2. pos \notin Home
      <3> SUFFICES ASSUME pos \in Home PROVE FALSE
        OBVIOUS
      <3>1. created[pos] # 0 /\ Entry(pos) \in held
        BY <2>1 DEF HomeHeld
      <3>2. entry[pos] # 0
        BY <3>1 DEF EntryCreated
      <3> QED
        BY <2>1, <3>1, <3>2 DEF Found, Alive
    <2>3. \A q \in Home : created'[q] = created[q] /\ entry'[q] = entry[q]
      BY <2>1, <2>2, Loaded
    <2>4. HomeHeld'
      BY <2>1, <2>3 DEF HomeHeld, Entry
    <2> QED
      BY <2>1, <2>4 DEF Manners, WalksSomebody, GoneForgotten
  <1>7. \A p \in Players : Leave(p) => Manners'
    <2> SUFFICES ASSUME NEW p \in Players, Leave(p) PROVE Manners'
      OBVIOUS
    <2>1. /\ ~(upd.pc = "pick" /\ upd.to = p) /\ present' = present \ {p}
          /\ told' = [told EXCEPT ![p] = {}]
          /\ UNCHANGED <<world, main, held, upd>>
      BY DEF Leave
    <2>2. \A q \in Players \ present' : told'[q] = {}
      BY <2>1 DEF TypeOK, GoneForgotten
    <2> QED
      BY <2>1, <2>2 DEF Manners, HomeHeld, Entry, WalksSomebody, GoneForgotten
  <1>8. \A w \in Workers : TakeTask(w) => Manners'
    BY DEF TakeTask, Manners, HomeHeld, Entry, WalksSomebody, GoneForgotten, At
  <1>9. \A w \in Workers : DropTask(w) => Manners'
    BY DEF DropTask, Manners, HomeHeld, Entry, WalksSomebody, GoneForgotten, At
  <1>10. \A w \in Workers : LockTask(w) => Manners'
    BY DEF LockTask, Manners, HomeHeld, Entry, WalksSomebody, GoneForgotten, At
  <1>11. \A w \in Workers : Generated(w) => Manners'
    BY DEF Generated, Manners, HomeHeld, Entry, WalksSomebody, GoneForgotten, At
  <1>12. Scan => Manners'
    <2> SUFFICES ASSUME Scan PROVE Manners'
      OBVIOUS
    <2>1. upd'.pc = upd.pc /\ (upd.pc = "pick" => upd'.to = upd.to)
      BY Places DEF Scan, CanPick, Scanning, Picking
    <2>2. UNCHANGED <<world, main, held, present, told>>
      BY DEF Scan
    <2> QED
      BY <2>1, <2>2 DEF Manners, HomeHeld, Entry, WalksSomebody, GoneForgotten
  <1>13. ScanEnd => Manners'
    BY DEF ScanEnd, Manners, HomeHeld, Entry, WalksSomebody, GoneForgotten, At
  <1>14. \A p \in Players : Visit(p) => Manners'
    <2> SUFFICES ASSUME NEW p \in Players, Visit(p) PROVE Manners'
      OBVIOUS
    <2>1. /\ p \in present /\ upd'.pc = "pick" /\ upd'.to = p /\ upd.pc = "round"
          /\ UNCHANGED <<world, main, held, present, told>>
      BY DEF Visit
    <2> QED
      BY <2>1 DEF Manners, HomeHeld, Entry, WalksSomebody, GoneForgotten
  <1>15. PickNull => Manners'
    <2> SUFFICES ASSUME PickNull PROVE Manners'
      OBVIOUS
    <2>1. /\ upd.pc = "pick" /\ upd'.pc = "crashed"
          /\ UNCHANGED <<world, main, held, present, told>>
      BY DEF PickNull, CanPick, At
    <2> QED
      BY <2>1 DEF Manners, HomeHeld, Entry, WalksSomebody, GoneForgotten
  <1>16. PickReady => Manners'
    BY DEF PickReady, Manners, HomeHeld, Entry, WalksSomebody, GoneForgotten, At
  <1>17. PickSkip => Manners'
    <2> SUFFICES ASSUME PickSkip PROVE Manners'
      OBVIOUS
    <2>1. upd'.pc = upd.pc /\ (upd.pc = "pick" => upd'.to = upd.to)
      BY Places DEF PickSkip, CanPick, Scanning, Picking
    <2>2. UNCHANGED <<world, main, held, present, told>>
      BY DEF PickSkip
    <2> QED
      BY <2>1, <2>2 DEF Manners, HomeHeld, Entry, WalksSomebody, GoneForgotten
  <1>18. SendChunks => Manners'
    <2> SUFFICES ASSUME SendChunks PROVE Manners'
      OBVIOUS
    <2>1. /\ upd.to \in present /\ upd.pc = "pick" /\ upd'.pc = "round"
          /\ told' = [told EXCEPT ![upd.to] = @ \cup Readable(batch)]
          /\ UNCHANGED <<world, main, held, present>>
      BY DEF SendChunks, WalksSomebody, At
    <2>2. \A q \in Players \ present' : told'[q] = {}
      BY <2>1 DEF TypeOK, GoneForgotten
    <2> QED
      BY <2>1, <2>2 DEF Manners, HomeHeld, Entry, WalksSomebody, GoneForgotten, At
  <1>19. Sleep => Manners'
    BY DEF Sleep, Manners, HomeHeld, Entry, WalksSomebody, GoneForgotten, At
  <1>20. Wake => Manners'
    BY DEF Wake, Manners, HomeHeld, Entry, WalksSomebody, GoneForgotten, At
  <1>21. UNCHANGED vars => Manners'
    BY DEF vars, Manners, HomeHeld, Entry, WalksSomebody, GoneForgotten, At
  <1> HIDE DEF Manners
  <1> QED
    BY ServiceSteps, <1>1, <1>2, <1>3, <1>4, <1>5, <1>6, <1>7, <1>8, <1>9, <1>10, <1>11,
       <1>12, <1>13, <1>14, <1>15, <1>16, <1>17, <1>18, <1>19, <1>20, <1>21

(* Where a message's chunks are: all of them are readable. *)
LEMMA AllReadable ==
  ASSUME TypeOK
  PROVE  Readable(batch) = PositionsOf(batch)
  <1>1. batch \in Seq(Chunks) /\ Len(batch) \in Nat /\ Len(batch) < CountModulus
    BY LenProperties, ServiceAssumption DEF TypeOK
  <1>2. Len(batch) % CountModulus = Len(batch)
    BY <1>1, ServiceAssumption
  <1>3. \A k : k \in Elements(batch) <=> \E i \in 1 .. Len(batch) : k = batch[i]
    BY <1>1, SomeElements
  <1>4. Elements(batch) \ {Nothing} = Elements(batch)
    BY <1>1, SomeElements, NothingElse
  <1>5. PositionsOf(batch) = {k.at : k \in Elements(batch)}
    BY <1>4 DEF PositionsOf
  <1>6. Readable(batch) = {batch[i].at : i \in 1 .. Len(batch)}
    BY <1>2 DEF Readable
  <1> QED
    BY <1>3, <1>5, <1>6

(* A chunk is promised, and in the list. *)
LEMMA ScheduledAccounted ==
  ASSUME ServiceInv, NEW p \in Players, NEW pos \in Positions, NEW k \in Chunks \cup {Nothing},
         k # Nothing => k.at = pos,
         Schedule(p, pos, k), UNCHANGED <<upd, batch>>
  PROVE  AllAccountedFor'
  <1> USE DEF ServiceInv
  <1>1. pending' = [pending EXCEPT ![p] = Append(pending[p], k)]
        /\ wants' = [wants EXCEPT ![p] = wants[p] \cup {pos}]
        /\ UNCHANGED <<held, present, told>>
    BY DEF Schedule
  <1>2. pending[p] \in Seq(Chunks \cup {Nothing})
    BY DEF TypeOK
  <1>3. Elements(Append(pending[p], k)) = Elements(pending[p]) \cup {k}
    BY <1>2, AppendedElements
  <1>4. /\ pending'[p] = Append(pending[p], k) /\ wants'[p] = wants[p] \cup {pos}
        /\ \A q \in Players : q # p => pending'[q] = pending[q] /\ wants'[q] = wants[q]
    BY <1>1 DEF TypeOK
  <1> SUFFICES ASSUME NEW q \in present', Nothing \notin Elements(pending'[q])
               PROVE  wants'[q] = PositionsOf(pending'[q]) \cup InBatch(q)' \cup told'[q]
    BY DEF AllAccountedFor
  <1>5. InBatch(q)' = InBatch(q) /\ q \in present /\ q \in Players /\ told'[q] = told[q]
    BY <1>1 DEF InBatch, TypeOK, PositionsOf
  <1>6. CASE q # p
    BY <1>4, <1>5, <1>6 DEF AllAccountedFor
  <1>7. CASE q = p
    <2>1. Nothing \notin Elements(pending[p]) /\ k # Nothing
      BY <1>3, <1>4, <1>7
    <2>2. wants[p] = PositionsOf(pending[p]) \cup InBatch(p) \cup told[p]
      BY <1>5, <1>7, <2>1 DEF AllAccountedFor
    <2>3. PositionsOf(pending'[p]) = PositionsOf(pending[p]) \cup {pos}
      <3> HIDE DEF Elements
      <3> QED
        BY <1>3, <1>4, <2>1 DEF PositionsOf
    <2> QED
      BY <1>4, <1>5, <1>7, <2>2, <2>3
  <1> QED
    BY <1>6, <1>7

(* Nobody's list or promises change, and the batch stays with its player or is empty. *)
LEMMA SameAccounts ==
  ASSUME AllAccountedFor, UNCHANGED <<present, pending, wants, told>>,
         \A p \in present : InBatch(p)' = InBatch(p)
  PROVE  AllAccountedFor'
  BY DEF AllAccountedFor

LEMMA AccountsStep ==
  ASSUME ServiceInv, [Next]_vars
  PROVE  AllAccountedFor'
  <1> USE ServiceAssumption DEF ServiceInv, world, emerger, lists, updater, clients
  <1>1. \A pos \in Home : Start(pos) => AllAccountedFor'
    BY SameAccounts DEF Start, InBatch, PositionsOf, At, CanPick
  <1>2. Run => AllAccountedFor'
    <2> SUFFICES ASSUME Run PROVE AllAccountedFor'
      OBVIOUS
    <2>1. upd.pc # "pick" /\ upd'.pc = "scan"
      BY DEF Run, WalksSomebody
    <2>2. \A q \in present : InBatch(q)' = InBatch(q)
      BY <2>1 DEF InBatch
    <2> QED
      BY <2>2, SameAccounts DEF Run
  <1>3. RequestLock => AllAccountedFor'
    <2> SUFFICES ASSUME RequestLock PROVE AllAccountedFor'
      OBVIOUS
    <2> DEFINE k == IF Found(main.for) THEN Entry(main.for) ELSE Nothing
    <2>1. main.by \in Players /\ main.for \in Positions
      BY Places DEF RequestLock
    <2>2. k \in Chunks \cup {Nothing} /\ (k # Nothing => k.at = main.for)
      BY <2>1, EntryIsChunk, NothingElse DEF Found
    <2>3. Schedule(main.by, main.for, k) /\ UNCHANGED <<world, emerger, updater>>
      BY DEF RequestLock
    <2> HIDE DEF k
    <2> QED
      BY <2>1, <2>2, <2>3, ScheduledAccounted
  <1>4. \A p \in Players : Join(p) => AllAccountedFor'
    <2> SUFFICES ASSUME NEW p \in Players, Join(p) PROVE AllAccountedFor'
      OBVIOUS
    <2>1. PICK order \in [1 .. Cardinality(Home) -> Home] :
            /\ Elements(order) = Home
            /\ pending' = [pending EXCEPT ![p] = [i \in DOMAIN order |-> Entry(order[i])]]
      BY DEF Join
    <2> DEFINE list == [i \in DOMAIN order |-> Entry(order[i])]
    <2>2. \A k : k \in Elements(list) <=> \E pos \in Home : k = Entry(pos)
      BY <2>1, JoinOrder DEF Join
    <2>3. pending' = [pending EXCEPT ![p] = list]
      BY <2>1
    <2> HIDE DEF list
    <2>4. /\ p \notin present /\ present' = present \cup {p} /\ present \subseteq Players
          /\ wants' = [wants EXCEPT ![p] = Home]
          /\ UNCHANGED <<upd, batch, told>>
      BY DEF Join, TypeOK
    <2>5. \A q \in Players : InBatch(q)' = InBatch(q)
      BY <2>4 DEF InBatch, PositionsOf
    <2>6. /\ pending'[p] = list /\ wants'[p] = Home
          /\ \A q \in Players : q # p => pending'[q] = pending[q] /\ wants'[q] = wants[q]
      BY <2>3, <2>4 DEF TypeOK
    <2>7. InBatch(p) = {} /\ told'[p] = {}
      BY <2>4 DEF InBatch, WalksSomebody, GoneForgotten
    <2>8. \A pos \in Home : Entry(pos) # Nothing /\ Entry(pos).at = pos
      <3> SUFFICES ASSUME NEW pos \in Home PROVE Entry(pos) # Nothing /\ Entry(pos).at = pos
        OBVIOUS
      <3>1. Entry(pos) \in held
        BY DEF Join, HomeHeld
      <3> QED
        BY <3>1, NothingElse DEF TypeOK, Entry
    <2>9. PositionsOf(list) = Home
      <3> HIDE DEF Elements
      <3>1. \A x : x \in PositionsOf(list) <=> \E k \in Elements(list) : k # Nothing /\ x = k.at
        BY DEF PositionsOf
      <3>2. ASSUME NEW x, x \in PositionsOf(list) PROVE x \in Home
        <4>1. PICK k \in Elements(list) : k # Nothing /\ x = k.at
          BY <3>1, <3>2
        <4>2. PICK pos \in Home : k = Entry(pos)
          BY <2>2, <4>1
        <4> QED
          BY <2>8, <4>1, <4>2
      <3>3. ASSUME NEW x \in Home PROVE x \in PositionsOf(list)
        <4>1. Entry(x) \in Elements(list)
          BY <2>2
        <4> QED
          BY <2>8, <3>1, <4>1
      <3> QED
        BY <3>2, <3>3
    <2>10. ASSUME NEW q \in present', Nothing \notin Elements(pending'[q])
           PROVE  wants'[q] = PositionsOf(pending'[q]) \cup InBatch(q)' \cup told'[q]
      <3>1. CASE q = p
        BY <2>4, <2>5, <2>6, <2>7, <2>9, <3>1
      <3>2. CASE q # p
        BY <2>4, <2>5, <2>6, <2>10, <3>2 DEF AllAccountedFor
      <3> QED
        BY <3>1, <3>2
    <2> QED
      BY <2>10 DEF AllAccountedFor
  <1>5. \A p \in Players, pos \in Positions : RequestFound(p, pos) => AllAccountedFor'
    BY SameAccounts DEF RequestFound, InBatch, PositionsOf, At, CanPick
  <1>6. \A p \in Players, pos \in Positions : RequestNew(p, pos) => AllAccountedFor'
    <2> SUFFICES ASSUME NEW p \in Players, NEW pos \in Positions, RequestNew(p, pos)
                 PROVE  AllAccountedFor'
      OBVIOUS
    <2>1. LoadNew(pos) /\ Schedule(p, pos, NewChunk(pos)) /\ UNCHANGED updater
      BY DEF RequestNew
    <2>2. NewChunk(pos) \in Chunks /\ NewChunk(pos).at = pos
      BY <2>1, LoadTypes, EntryIsChunk
    <2> QED
      BY <2>1, <2>2, ScheduledAccounted
  <1>7. \A p \in Players : Leave(p) => AllAccountedFor'
    <2> SUFFICES ASSUME NEW p \in Players, Leave(p) PROVE AllAccountedFor'
      OBVIOUS
    <2>1. /\ present' = present \ {p} /\ UNCHANGED <<upd, batch>>
          /\ pending' = [pending EXCEPT ![p] = <<>>] /\ wants' = [wants EXCEPT ![p] = {}]
          /\ told' = [told EXCEPT ![p] = {}]
      BY DEF Leave
    <2>2. \A q \in present' : /\ q \in present /\ pending'[q] = pending[q]
                              /\ wants'[q] = wants[q] /\ told'[q] = told[q]
      BY <2>1 DEF TypeOK
    <2>3. \A q \in present' : InBatch(q)' = InBatch(q)
      BY <2>1 DEF InBatch, PositionsOf
    <2> QED
      BY <2>2, <2>3 DEF AllAccountedFor
  <1>8. \A w \in Workers : TakeTask(w) => AllAccountedFor'
    BY SameAccounts DEF TakeTask, InBatch, PositionsOf, At, CanPick
  <1>9. \A w \in Workers : DropTask(w) => AllAccountedFor'
    BY SameAccounts DEF DropTask, InBatch, PositionsOf, At, CanPick
  <1>10. \A w \in Workers : LockTask(w) => AllAccountedFor'
    BY SameAccounts DEF LockTask, InBatch, PositionsOf, At, CanPick
  <1>11. \A w \in Workers : Generated(w) => AllAccountedFor'
    BY SameAccounts DEF Generated, InBatch, PositionsOf, At, CanPick
  <1>12. Scan => AllAccountedFor'
    <2> SUFFICES ASSUME Scan PROVE AllAccountedFor'
      OBVIOUS
    <2>1. upd.pc = "scan" /\ upd'.pc = "scan"
      BY Places DEF Scan, Scanning
    <2>2. \A p \in present : InBatch(p)' = InBatch(p)
      BY <2>1 DEF InBatch
    <2> QED
      BY <2>2, SameAccounts DEF Scan
  <1>13. ScanEnd => AllAccountedFor'
    BY SameAccounts DEF ScanEnd, InBatch, PositionsOf, At, CanPick
  <1>14. \A p \in Players : Visit(p) => AllAccountedFor'
    <2> SUFFICES ASSUME NEW p \in Players, Visit(p) PROVE AllAccountedFor'
      OBVIOUS
    <2>1. upd.pc = "round" /\ batch' = <<>>
      BY DEF Visit
    <2>2. PositionsOf(batch') = {}
      BY <2>1, NoElements DEF PositionsOf
    <2>3. \A q \in present : InBatch(q)' = InBatch(q)
      BY <2>1, <2>2 DEF InBatch
    <2> QED
      BY <2>3, SameAccounts DEF Visit
  <1>15. PickNull => AllAccountedFor'
    <2> SUFFICES ASSUME PickNull PROVE AllAccountedFor'
      OBVIOUS
    <2>1. /\ upd.pc = "pick" /\ upd.to \in Players /\ upd.it \in 1 .. Len(pending[upd.to])
          /\ pending[upd.to][upd.it] = Nothing /\ upd'.pc = "crashed"
          /\ UNCHANGED <<lists, clients>>
      BY Places DEF PickNull, CanPick, PendingHere, At
    <2>2. Nothing \in Elements(pending[upd.to])
      <3>1. pending[upd.to] \in Seq(Chunks \cup {Nothing})
        BY <2>1 DEF TypeOK
      <3> QED
        BY <2>1, <3>1, SomeElements
    <2>3. \A q \in present : q # upd.to => InBatch(q) = {} /\ InBatch(q)' = {}
      BY <2>1 DEF InBatch
    <2> QED
      BY <2>1, <2>2, <2>3 DEF AllAccountedFor
  <1>16. PickReady => AllAccountedFor'
    <2> SUFFICES ASSUME PickReady PROVE AllAccountedFor'
      OBVIOUS
    <2>1. /\ upd.to \in Players
          /\ \A p \in Players \ {upd.to} : pending'[p] = pending[p]
      BY Picked
    <2>2. PICK k \in Chunks :
            /\ k \in Elements(pending[upd.to])
            /\ Elements(batch') = Elements(batch) \cup {k}
            /\ Elements(pending[upd.to]) = {k} \cup Elements(pending'[upd.to])
      BY Picked
    <2>3. upd.pc = "pick" /\ UNCHANGED <<upd, present, wants, told>> /\ present \subseteq Players
      BY DEF PickReady, CanPick, TypeOK
    <2> HIDE DEF Elements
    <2>4. k # Nothing
      BY NothingElse
    <2>5. PositionsOf(batch') = PositionsOf(batch) \cup {k.at}
      BY <2>2, <2>4 DEF PositionsOf
    <2>6. PositionsOf(pending[upd.to]) = PositionsOf(pending'[upd.to]) \cup {k.at}
      BY <2>2, <2>4 DEF PositionsOf
    <2>7. ASSUME NEW q \in present', Nothing \notin Elements(pending'[q])
          PROVE  wants'[q] = PositionsOf(pending'[q]) \cup InBatch(q)' \cup told'[q]
      <3>1. CASE q = upd.to
        <4>1. Nothing \notin Elements(pending[q])
          BY <2>2, <2>4, <2>7, <3>1
        <4>2. wants[q] = PositionsOf(pending[q]) \cup PositionsOf(batch) \cup told[q]
          BY <2>3, <3>1, <4>1 DEF AllAccountedFor, InBatch
        <4>3. InBatch(q)' = PositionsOf(batch')
          BY <2>3, <3>1 DEF InBatch, PositionsOf
        <4> QED
          BY <2>3, <2>5, <2>6, <3>1, <4>2, <4>3
      <3>2. CASE q # upd.to
        <4>1. InBatch(q)' = {} /\ InBatch(q) = {}
          BY <2>3, <3>2 DEF InBatch
        <4> QED
          BY <2>1, <2>3, <2>7, <3>2, <4>1 DEF AllAccountedFor
      <3> QED
        BY <3>1, <3>2
    <2> QED
      BY <2>7 DEF AllAccountedFor
  <1>17. PickSkip => AllAccountedFor'
    <2> SUFFICES ASSUME PickSkip PROVE AllAccountedFor'
      OBVIOUS
    <2>1. upd'.pc = upd.pc /\ upd'.to = upd.to /\ batch' = batch
      BY Places DEF PickSkip, CanPick, Picking
    <2>2. \A q \in present : InBatch(q)' = InBatch(q)
      BY <2>1 DEF InBatch, PositionsOf
    <2> QED
      BY <2>2, SameAccounts DEF PickSkip
  <1>18. SendChunks => AllAccountedFor'
    <2> SUFFICES ASSUME SendChunks PROVE AllAccountedFor'
      OBVIOUS
    <2>1. /\ upd.pc = "pick" /\ upd'.pc = "round" /\ upd.to \in Players
          /\ told' = [told EXCEPT ![upd.to] = @ \cup Readable(batch)]
          /\ UNCHANGED <<present, pending, wants>> /\ present \subseteq Players
      BY Places DEF SendChunks, At, TypeOK
    <2>2. /\ told'[upd.to] = told[upd.to] \cup PositionsOf(batch)
          /\ \A q \in Players : q # upd.to => told'[q] = told[q]
      BY <2>1, AllReadable DEF TypeOK
    <2>3. \A q : InBatch(q)' = {} /\ InBatch(q) = IF q = upd.to THEN PositionsOf(batch) ELSE {}
      BY <2>1 DEF InBatch
    <2>4. ASSUME NEW q \in present, Nothing \notin Elements(pending[q])
          PROVE  wants[q] = PositionsOf(pending[q]) \cup told'[q]
      <3>1. wants[q] = PositionsOf(pending[q]) \cup InBatch(q) \cup told[q]
        BY <2>4 DEF AllAccountedFor
      <3> QED
        BY <2>1, <2>2, <2>3, <3>1
    <2>5. \A q : PositionsOf(pending'[q]) = PositionsOf(pending[q])
      BY <2>1
    <2> QED
      BY <2>1, <2>3, <2>4, <2>5 DEF AllAccountedFor
  <1>19. Sleep => AllAccountedFor'
    BY SameAccounts DEF Sleep, InBatch, PositionsOf, At, CanPick
  <1>20. Wake => AllAccountedFor'
    <2> SUFFICES ASSUME Wake PROVE AllAccountedFor'
      OBVIOUS
    <2>1. upd.pc # "pick" /\ upd'.pc = "scan"
      BY DEF Wake, WalksSomebody
    <2>2. \A q \in present : InBatch(q)' = InBatch(q)
      BY <2>1 DEF InBatch
    <2> QED
      BY <2>2, SameAccounts DEF Wake
  <1>21. UNCHANGED vars => AllAccountedFor'
    BY SameAccounts DEF vars, InBatch, PositionsOf, At, CanPick
  <1> HIDE DEF AllAccountedFor
  <1> QED
    BY ServiceSteps, <1>1, <1>2, <1>3, <1>4, <1>5, <1>6, <1>7, <1>8, <1>9, <1>10, <1>11,
       <1>12, <1>13, <1>14, <1>15, <1>16, <1>17, <1>18, <1>19, <1>20, <1>21

----------------------------------------------------------------------------
(* Theorems *)

LEMMA ServiceInitially == Init => ServiceInv
  <1> SUFFICES ASSUME Init PROVE ServiceInv
    OBVIOUS
  <1> USE ServiceAssumption DEF Init
  <1>1. <<>> \in Seq(Chunks) /\ <<>> \in Seq(Chunks \cup {Nothing}) /\ Len(<<>>) = 0
    BY EmptySeq
  <1>2. TypeOK
    BY <1>1 DEF TypeOK
  <1>3. \A k \in Chunks : ~Alive(k)
    BY NoElements, NothingElse DEF Alive
  <1>4. \A k \in Chunks : ~Emerging(k)
    BY NoElements, NothingElse DEF Emerging
  <1>5. EntryCreated /\ OnlyCreated /\ AliveEmerging
    BY <1>3, <1>4 DEF EntryCreated, OnlyCreated, AliveEmerging
  <1>6. OneWhileFound
    BY DEF OneWhileFound, Found
  <1>7. HomeHeld /\ LockedBusy /\ WalksSomebody /\ GoneForgotten /\ AllAccountedFor
    BY DEF HomeHeld, LockedBusy, WalksSomebody, GoneForgotten, AllAccountedFor, At
  <1> QED
    BY <1>2, <1>5, <1>6, <1>7 DEF ServiceInv

LEMMA ServiceStep == ServiceInv /\ [Next]_vars => ServiceInv'
  <1> SUFFICES ASSUME ServiceInv, [Next]_vars PROVE ServiceInv'
    OBVIOUS
  <1>1. Kind
    BY StepKinds DEF ServiceInv
  <1>2. TypeOK'
    BY ServiceTypeStep DEF ServiceInv
  <1> QED
    BY <1>1, <1>2, CreatedStep, OneStep, EmergingStep, MannersStep, AccountsStep
       DEF ServiceInv, Manners

LEMMA ServiceInvariant == Safety => []ServiceInv
  BY ServiceInitially, ServiceStep, PTL DEF Safety

(* The state has its type: no batch exceeds what a message may count. *)
THEOREM ServiceTypes == Safety => []TypeOK
  BY ServiceInvariant, PTL DEF ServiceInv

(* Where the map finds a chunk it is the only live one, so all players and all edits meet *)
(* in it, for any number of them: a chunk that was dropped never comes back, and a second *)
(* is only created after that.                                                            *)
THEOREM ServiceOneChunk == Safety => []OneWhileFound
  BY ServiceInvariant, PTL DEF ServiceInv

(* The emerger drops no chunk that a player waits for. *)
THEOREM ServicePending == Safety => []PendingIsEmerging
  <1>1. ServiceInv => PendingIsEmerging
    <2> SUFFICES ASSUME ServiceInv, NEW p \in present, NEW k \in Elements(pending[p]) \ {Nothing}
                 PROVE  state[k] = "Ready" \/ Emerging(k)
      BY DEF PendingIsEmerging
    <2>1. pending[p] \in Seq(Chunks \cup {Nothing})
      BY DEF ServiceInv, TypeOK
    <2>2. k \in Chunks
      BY <2>1, SomeElements
    <2>3. Alive(k)
      BY DEF Alive
    <2> QED
      BY <2>2, <2>3 DEF ServiceInv, AliveEmerging
  <1> QED
    BY <1>1, ServiceInvariant, PTL

(* No chunk a player was promised is skipped, lost or unreadable, whatever is erased from *)
(* its list during the walk, for any batch size below the count's modulus.               *)
THEOREM ServiceAccounts == Safety => []AllAccountedFor
  BY ServiceInvariant, PTL DEF ServiceInv

(* A step of the world or of a worker is one of the pool, and the others leave it alone. *)
LEMMA PoolStep == ServiceInv /\ [Next]_vars => [Pool!Next]_Pool!vars
  <1> SUFFICES ASSUME ServiceInv, [Next]_vars PROVE [Pool!Next]_Pool!vars
    OBVIOUS
  <1> DEFINE sub == {k \in Chunks : k.nth <= created[k.at]}
  <1>1. Kind
    BY StepKinds DEF ServiceInv
  <1>2. TypeOK /\ EntryCreated /\ LockedBusy
    BY DEF ServiceInv
  <1>3. CASE UNCHANGED <<created, entry, state, queue, task, locked>>
    BY <1>3 DEF Pool!vars
  <1>4. ASSUME NEW pos \in Positions, LoadNew(pos)
        PROVE  Pool!Next
    <2> PICK k : k = NewChunk(pos)
      OBVIOUS
    <2>1. /\ created'[pos] = created[pos] + 1 /\ created[pos] \in Nat
          /\ \A q \in Positions : q # pos => created'[q] = created[q]
      BY <1>2, <1>4, Loaded, ServiceAssumption, SMTT(30) DEF TypeOK
    <2>2. k \in Chunks /\ k = [at |-> pos, nth |-> created[pos] + 1]
          /\ queue' = Append(queue, k) /\ task' = task
      BY <1>2, <1>4, LoadTypes DEF LoadNew, NewChunk
    <2>3. k \notin sub
      BY <2>1, <2>2
    <2>4. sub' = sub \cup {k}
      <3>1. ASSUME NEW c \in Chunks PROVE c \in sub' <=> c \in sub \/ c = k
        <4>1. c.at \in Positions /\ c.nth \in Nat /\ c = [at |-> c.at, nth |-> c.nth]
          BY DEF Chunks
        <4>2. CASE c.at # pos
          BY <2>1, <2>2, <4>1, <4>2
        <4>3. CASE c.at = pos
          <5>1. \A m, n \in Nat : m <= n + 1 <=> (m <= n \/ m = n + 1)
            OBVIOUS
          <5>2. c.nth <= created'[pos] <=> (c.nth <= created[pos] \/ c.nth = created[pos] + 1)
            BY <2>1, <4>1, <5>1
          <5>3. c.nth = created[pos] + 1 <=> c = k
            BY <2>2, <4>1, <4>3
          <5> QED
            BY <4>3, <5>2, <5>3
        <4> QED
          BY <4>2, <4>3
      <3> QED
        BY <2>2, <3>1
    <2>5. Pool!Submit(k)
      BY <2>2, <2>3, <2>4 DEF Pool!Submit
    <2> QED
      BY <2>2, <2>5 DEF Pool!Next
  <1>5. ASSUME NEW w \in Workers, WorkerStep(w)
        PROVE  [Pool!Next]_Pool!vars
    <2>1. sub' = sub
      <3>1. created' = created
        BY <1>2, <1>5, WorkerMoves
      <3> QED
        BY <3>1
    <2>2. CASE TakeTask(w)
      BY <2>1, <2>2 DEF TakeTask, Pool!Take, Pool!Next
    <2>3. CASE DropTask(w)
      BY <2>1, <2>3 DEF DropTask, Pool!Complete, Pool!Next
    <2>4. CASE LockTask(w)
      BY <2>1, <2>4 DEF LockTask, Pool!vars
    <2>5. CASE Generated(w)
      BY <1>2, <2>1, <2>5 DEF Generated, LockedBusy, Pool!Complete, Pool!Next
    <2> QED
      BY <1>5, <2>2, <2>3, <2>4, <2>5 DEF WorkerStep
  <1> QED
    BY <1>1, <1>3, <1>4, <1>5 DEF Kind

(* The world and the emerger's workers use the pool as TaskPool, and WorkerPool below it, *)
(* assume of their callers.                                                               *)
THEOREM ServiceUsesPool == Safety => UsesPool
  <1>1. Init => Pool!Init
    BY DEF Init, Pool!Init, Chunks
  <1> QED
    BY <1>1, ServiceInitially, ServiceStep, PoolStep, PTL DEF Safety, UsesPool, Pool!Safety
=============================================================================
