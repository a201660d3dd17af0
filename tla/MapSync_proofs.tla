--------------------------- MODULE MapSync_proofs ---------------------------
(***************************************************************************)
(* Proofs about MapSync for any number of clients, blocks and edits.       *)
(***************************************************************************)
EXTENDS MapSync, SequenceTheorems, TLAPS

(* What one step may do, named once for the case splits below. *)
LEMMA StepCases ==
  ASSUME [Next]_vars, NEW P,
         GenerateStart => P,
         \A b \in Blocks : GenerateBlock(b) => P,
         GenerateEnd => P,
         \A c \in Clients : JoinPlayer(c) => P,
         \A b \in Blocks : EditWrite(b) => P,
         EditNotify => P,
         EditCheck => P,
         EditFlush => P,
         EditClear => P,
         EditBroadcast => P,
         UpdaterCheck => P,
         UpdaterFlush => P,
         UpdaterClear => P,
         UpdaterBroadcast => P,
         \A c \in Clients : UpdaterTake(c) => P,
         \A c \in Clients : UpdaterSkip(c) => P,
         UpdaterSend => P,
         UpdaterSleep => P,
         \A c \in Clients : HandleTransfer(c) => P,
         \A c \in Clients : HandleUpdate(c) => P,
         UNCHANGED vars => P
  PROVE  P
  BY DEF Next, EmergerStep, EditStep, UpdaterStep

----------------------------------------------------------------------------
(* Type correctness, and who owns the change list. They need each other: the list has *)
(* room for one change because the handler that notes one begins with an empty list.  *)

(* What the flush reads is a sequence of blocks with their contents. *)
LEMMA FlushedType ==
  ASSUME ServerTypeOK
  PROVE  Flushed \in Found
  <1>1. Len(changes) \in Nat /\ DOMAIN changes = 1 .. Len(changes)
    BY LenProperties DEF ServerTypeOK
  <1>2. \A i \in 1 .. Len(changes) : changes[i] \in Blocks /\ block[changes[i]] \in Content
    BY ElementOfSeq DEF ServerTypeOK, Chunk
  <1>3. Flushed \in [1 .. Len(changes) -> Blocks \X Content]
    BY <1>1, <1>2 DEF Flushed
  <1> QED
    BY <1>1, <1>3, SeqDef DEF Found

(* A broadcast of such a sequence extends each player's channel with updates. *)
LEMMA BroadcastType ==
  ASSUME ClientsTypeOK, NEW found \in Found, Broadcast(found)
  PROVE  updates' \in [Clients -> Seq(Update)]
  <1> SUFFICES ASSUME NEW c \in Clients
               PROVE  updates[c] \o [i \in DOMAIN found |->
                        [block |-> found[i][1], to |-> found[i][2], after |-> Transferred(c)]]
                          \in Seq(Update)
    BY DEF Broadcast, ClientsTypeOK
  <1> DEFINE msg(i) == [block |-> found[i][1], to |-> found[i][2], after |-> Transferred(c)]
  <1>1. Transferred(c) \in BOOLEAN
    BY DEF Transferred
  <1>2. Len(found) \in Nat /\ DOMAIN found = 1 .. Len(found)
    BY LenProperties DEF Found
  <1>3. \A i \in 1 .. Len(found) : msg(i) \in Update
    BY <1>1, ElementOfSeq DEF Update, Found
  <1>4. [i \in DOMAIN found |-> msg(i)] \in [1 .. Len(found) -> Update]
    BY <1>2, <1>3
  <1>5. [i \in DOMAIN found |-> msg(i)] \in Seq(Update)
    BY <1>2, <1>4, SeqDef
  <1> QED
    BY <1>5, ConcatProperties DEF ClientsTypeOK

(* Init satisfies both. *)
LEMMA TypeInit == Init => TypeOK /\ ChangesOnlyInHandler
  <1> SUFFICES ASSUME Init PROVE TypeOK /\ ChangesOnlyInHandler
    OBVIOUS
  <1> USE MapSyncAssumption DEF Init
  <1>1. ServerTypeOK
    BY DEF ServerTypeOK, Chunk, Content, Cleared
  <1>2. main \in MainType /\ upd \in UpdType
    BY DEF MainType, UpdType, MainIdle, UpdAt
  <1>3. ClientsTypeOK
    BY EmptySeq DEF ClientsTypeOK
  <1> QED
    BY <1>1, <1>2, <1>3 DEF TypeOK, ChangesOnlyInHandler

(* Where a thread is, read off the type of its locals. *)
LEMMA Locals ==
  ASSUME TypeOK
  PROVE  /\ main.pc = "notify" => main.at \in Blocks
         /\ main.pc \in {"clear", "broadcast"}
              => main.found \in Found /\ main \in [pc : {"clear", "broadcast"}, found : Found]
         /\ upd.pc \in {"clear", "broadcast"}
              => upd.found \in Found /\ upd \in [pc : {"clear", "broadcast"}, found : Found]
         /\ upd.pc = "send" => upd.to \in Clients /\ upd.copy \in Chunk
  BY DEF TypeOK, MainType, UpdType, MainIdle

(* Every step preserves TypeOK, given who owns the change list. *)
LEMMA TypeStep == TypeOK /\ ChangesOnlyInHandler /\ [Next]_vars => TypeOK'
  <1> SUFFICES ASSUME TypeOK, ChangesOnlyInHandler, [Next]_vars PROVE TypeOK'
    OBVIOUS
  <1> USE MapSyncAssumption DEF TypeOK, server, players, network, history
  <1>1. GenerateStart => TypeOK'
    BY DEF GenerateStart, ServerTypeOK, ClientsTypeOK, MainType, UpdType, MainIdle, UpdAt
  <1>2. \A b \in Blocks : GenerateBlock(b) => TypeOK'
    BY DEF GenerateBlock, ServerTypeOK, ClientsTypeOK, MainType, UpdType, Chunk, Content, Terrain
  <1>3. GenerateEnd => TypeOK'
    BY DEF GenerateEnd, ServerTypeOK, ClientsTypeOK, MainType, UpdType, MainIdle, UpdAt
  <1>4. \A c \in Clients : JoinPlayer(c) => TypeOK'
    BY DEF JoinPlayer, ServerTypeOK, ClientsTypeOK, MainType, UpdType, MainIdle, UpdAt
  <1>5. \A b \in Blocks : EditWrite(b) => TypeOK'
    <2> SUFFICES ASSUME NEW b \in Blocks, EditWrite(b) PROVE TypeOK'
      OBVIOUS
    <2>1. ServerTypeOK'
      BY DEF EditWrite, ServerTypeOK, Chunk, Content, Terrain
    <2>2. main' \in MainType
      BY DEF EditWrite, MainType
    <2>3. upd' \in UpdType
      BY DEF EditWrite
    <2>4. ClientsTypeOK'
      BY DEF EditWrite, ClientsTypeOK
    <2> QED
      BY <2>1, <2>2, <2>3, <2>4
  <1>6. EditNotify => TypeOK'
    <2> SUFFICES ASSUME EditNotify PROVE TypeOK'
      OBVIOUS
    <2>1. ServerTypeOK'
      <3>1. main.at \in Blocks
        BY Locals DEF EditNotify
      <3>2. changes = <<>>
        BY DEF EditNotify, ChangesOnlyInHandler
      <3> QED
        BY <3>1, <3>2 DEF EditNotify, ServerTypeOK
    <2>2. main' \in MainType
      BY DEF EditNotify, MainType
    <2>3. upd' \in UpdType
      BY DEF EditNotify
    <2>4. ClientsTypeOK'
      BY DEF EditNotify, ClientsTypeOK
    <2> QED
      BY <2>1, <2>2, <2>3, <2>4
  <1>7. EditCheck => TypeOK'
    BY DEF EditCheck, ServerTypeOK, ClientsTypeOK, MainType, UpdType, MainIdle, UpdAt
  <1>8. EditFlush => TypeOK'
    <2> SUFFICES ASSUME EditFlush PROVE TypeOK'
      OBVIOUS
    <2>1. ServerTypeOK'
      BY DEF EditFlush, ServerTypeOK
    <2>2. main' \in MainType
      BY FlushedType DEF EditFlush, MainType
    <2>3. upd' \in UpdType
      BY DEF EditFlush
    <2>4. ClientsTypeOK'
      BY DEF EditFlush, ClientsTypeOK
    <2> QED
      BY <2>1, <2>2, <2>3, <2>4
  <1>9. EditClear => TypeOK'
    <2> SUFFICES ASSUME EditClear PROVE TypeOK'
      OBVIOUS
    <2>1. ServerTypeOK'
      BY EmptySeq DEF EditClear, ServerTypeOK
    <2>2. main' \in MainType
      BY Locals DEF EditClear, MainType
    <2>3. upd' \in UpdType
      BY DEF EditClear
    <2>4. ClientsTypeOK'
      BY DEF EditClear, ClientsTypeOK
    <2> QED
      BY <2>1, <2>2, <2>3, <2>4
  <1>10. EditBroadcast => TypeOK'
    <2> SUFFICES ASSUME EditBroadcast PROVE TypeOK'
      OBVIOUS
    <2>1. ServerTypeOK'
      BY DEF EditBroadcast, ServerTypeOK
    <2>2. main' \in MainType
      BY DEF EditBroadcast, MainType
    <2>3. upd' \in UpdType
      BY DEF EditBroadcast
    <2>4. ClientsTypeOK'
      BY Locals, BroadcastType DEF EditBroadcast, ClientsTypeOK
    <2> QED
      BY <2>1, <2>2, <2>3, <2>4
  <1>11. UpdaterCheck => TypeOK'
    BY DEF UpdaterCheck, ServerTypeOK, ClientsTypeOK, MainType, UpdType, MainIdle, UpdAt
  <1>12. UpdaterFlush => TypeOK'
    <2> SUFFICES ASSUME UpdaterFlush PROVE TypeOK'
      OBVIOUS
    <2>1. ServerTypeOK'
      BY DEF UpdaterFlush, ServerTypeOK
    <2>2. main' \in MainType
      BY DEF UpdaterFlush
    <2>3. upd' \in UpdType
      BY FlushedType DEF UpdaterFlush, UpdType
    <2>4. ClientsTypeOK'
      BY DEF UpdaterFlush, ClientsTypeOK
    <2> QED
      BY <2>1, <2>2, <2>3, <2>4
  <1>13. UpdaterClear => TypeOK'
    <2> SUFFICES ASSUME UpdaterClear PROVE TypeOK'
      OBVIOUS
    <2>1. ServerTypeOK'
      BY EmptySeq DEF UpdaterClear, ServerTypeOK
    <2>2. main' \in MainType
      BY DEF UpdaterClear
    <2>3. upd' \in UpdType
      BY Locals DEF UpdaterClear, UpdType
    <2>4. ClientsTypeOK'
      BY DEF UpdaterClear, ClientsTypeOK
    <2> QED
      BY <2>1, <2>2, <2>3, <2>4
  <1>14. UpdaterBroadcast => TypeOK'
    <2> SUFFICES ASSUME UpdaterBroadcast PROVE TypeOK'
      OBVIOUS
    <2>1. ServerTypeOK'
      BY DEF UpdaterBroadcast, ServerTypeOK
    <2>2. main' \in MainType
      BY DEF UpdaterBroadcast
    <2>3. upd' \in UpdType
      BY DEF UpdaterBroadcast, UpdType, UpdAt
    <2>4. ClientsTypeOK'
      BY Locals, BroadcastType DEF UpdaterBroadcast, ClientsTypeOK
    <2> QED
      BY <2>1, <2>2, <2>3, <2>4
  <1>15. \A c \in Clients : UpdaterTake(c) => TypeOK'
    BY DEF UpdaterTake, Written, ServerTypeOK, ClientsTypeOK, MainType, UpdType, MainIdle, UpdAt
  <1>16. \A c \in Clients : UpdaterSkip(c) => TypeOK'
    BY DEF UpdaterSkip, ServerTypeOK, ClientsTypeOK, MainType, UpdType, MainIdle, UpdAt
  <1>17. UpdaterSend => TypeOK'
    <2> SUFFICES ASSUME UpdaterSend PROVE TypeOK'
      OBVIOUS
    <2>1. ServerTypeOK'
      BY DEF UpdaterSend, ServerTypeOK
    <2>2. main' \in MainType
      BY DEF UpdaterSend
    <2>3. upd' \in UpdType
      BY DEF UpdaterSend, UpdType, UpdAt
    <2>4. ClientsTypeOK'
      BY Locals, AppendProperties DEF UpdaterSend, ClientsTypeOK
    <2> QED
      BY <2>1, <2>2, <2>3, <2>4
  <1>18. UpdaterSleep => TypeOK'
    BY DEF UpdaterSleep, ServerTypeOK, ClientsTypeOK, MainType, UpdType, MainIdle, UpdAt
  <1>19. \A c \in Clients : HandleTransfer(c) => TypeOK'
    <2> SUFFICES ASSUME NEW c \in Clients, HandleTransfer(c) PROVE TypeOK'
      OBVIOUS
    <2>1. ServerTypeOK'
      BY DEF HandleTransfer, ServerTypeOK
    <2>2. main' \in MainType
      BY DEF HandleTransfer
    <2>3. upd' \in UpdType
      BY DEF HandleTransfer
    <2>4. ClientsTypeOK'
      <3>1. Head(transfers[c]) \in Chunk /\ Tail(transfers[c]) \in Seq(Chunk)
        BY HeadTailProperties DEF HandleTransfer, ClientsTypeOK
      <3> QED
        BY <3>1 DEF HandleTransfer, Received, ClientsTypeOK
    <2> QED
      BY <2>1, <2>2, <2>3, <2>4
  <1>20. \A c \in Clients : HandleUpdate(c) => TypeOK'
    <2> SUFFICES ASSUME NEW c \in Clients, HandleUpdate(c) PROVE TypeOK'
      OBVIOUS
    <2>1. ServerTypeOK'
      BY DEF HandleUpdate, ServerTypeOK
    <2>2. main' \in MainType
      BY DEF HandleUpdate
    <2>3. upd' \in UpdType
      BY DEF HandleUpdate
    <2>4. ClientsTypeOK'
      <3> DEFINE u == Head(updates[c])
      <3>1. u \in Update /\ Tail(updates[c]) \in Seq(Update)
        BY HeadTailProperties DEF HandleUpdate, ClientsTypeOK
      <3>2. u.block \in Blocks /\ u.to \in Content
        BY <3>1 DEF Update
      <3>3. CASE HasChunk(c)
        <4>1. view[c] \in Chunk
          BY <3>3 DEF HasChunk, ClientsTypeOK
        <4>2. [view[c] EXCEPT ![u.block] = u.to] \in Chunk
          BY <3>2, <4>1 DEF Chunk
        <4>3. view' = [view EXCEPT ![c] = [view[c] EXCEPT ![u.block] = u.to]]
          BY <3>3 DEF HandleUpdate
        <4>4. view' \in [Clients -> Chunk \cup {NoChunk}]
          BY <4>2, <4>3 DEF ClientsTypeOK
        <4> QED
          BY <3>1, <3>3, <4>4 DEF HandleUpdate, ClientsTypeOK
      <3>4. CASE ~HasChunk(c)
        <4>1. missed' \in [Clients -> SUBSET Blocks]
          <5> DEFINE newer == \E k \in Copies(c) : u.to > k[u.block]
          <5>1. missed' = [missed EXCEPT ![c] = IF newer THEN @ \cup {u.block} ELSE @]
            BY <3>4 DEF HandleUpdate
          <5> HIDE DEF newer, u
          <5> QED
            BY <3>2, <5>1 DEF ClientsTypeOK
        <4>2. overtaken' \subseteq Clients
          BY <3>4 DEF HandleUpdate, ClientsTypeOK
        <4>3. view' = view
          BY <3>4 DEF HandleUpdate
        <4> QED
          BY <3>1, <4>1, <4>2, <4>3 DEF HandleUpdate, ClientsTypeOK
      <3> QED
        BY <3>3, <3>4
    <2> QED
      BY <2>1, <2>2, <2>3, <2>4
  <1>21. UNCHANGED vars => TypeOK'
    BY DEF vars, server, players, network, history, ServerTypeOK, ClientsTypeOK
  <1> QED
    BY <1>1, <1>2, <1>3, <1>4, <1>5, <1>6, <1>7, <1>8, <1>9, <1>10, <1>11, <1>12,
       <1>13, <1>14, <1>15, <1>16, <1>17, <1>18, <1>19, <1>20, <1>21, StepCases

(* Every step leaves the change list empty unless an edit's handler is at work on it. *)
LEMMA ChangesStep == TypeOK /\ ChangesOnlyInHandler /\ [Next]_vars => ChangesOnlyInHandler'
  <1> SUFFICES ASSUME TypeOK, ChangesOnlyInHandler, [Next]_vars PROVE ChangesOnlyInHandler'
    OBVIOUS
  <1> USE DEF ChangesOnlyInHandler, MainIdle, server
  <1>1. GenerateStart => ChangesOnlyInHandler'
    BY DEF GenerateStart
  <1>2. \A b \in Blocks : GenerateBlock(b) => ChangesOnlyInHandler'
    BY DEF GenerateBlock
  <1>3. GenerateEnd => ChangesOnlyInHandler'
    BY DEF GenerateEnd
  <1>4. \A c \in Clients : JoinPlayer(c) => ChangesOnlyInHandler'
    BY DEF JoinPlayer
  <1>5. \A b \in Blocks : EditWrite(b) => ChangesOnlyInHandler'
    BY DEF EditWrite
  <1>6. EditNotify => ChangesOnlyInHandler'
    BY DEF EditNotify
  <1>7. EditCheck => ChangesOnlyInHandler'
    BY DEF EditCheck
  <1>8. EditFlush => ChangesOnlyInHandler'
    BY DEF EditFlush
  <1>9. EditClear => ChangesOnlyInHandler'
    BY DEF EditClear
  <1>10. EditBroadcast => ChangesOnlyInHandler'
    BY DEF EditBroadcast
  <1>11. UpdaterCheck => ChangesOnlyInHandler'
    BY DEF UpdaterCheck
  <1>12. UpdaterFlush => ChangesOnlyInHandler'
    BY DEF UpdaterFlush
  <1>13. UpdaterClear => ChangesOnlyInHandler'
    BY DEF UpdaterClear
  <1>14. UpdaterBroadcast => ChangesOnlyInHandler'
    BY DEF UpdaterBroadcast
  <1>15. \A c \in Clients : UpdaterTake(c) => ChangesOnlyInHandler'
    BY DEF UpdaterTake
  <1>16. \A c \in Clients : UpdaterSkip(c) => ChangesOnlyInHandler'
    BY DEF UpdaterSkip
  <1>17. UpdaterSend => ChangesOnlyInHandler'
    BY DEF UpdaterSend
  <1>18. UpdaterSleep => ChangesOnlyInHandler'
    BY DEF UpdaterSleep
  <1>19. \A c \in Clients : HandleTransfer(c) => ChangesOnlyInHandler'
    BY DEF HandleTransfer
  <1>20. \A c \in Clients : HandleUpdate(c) => ChangesOnlyInHandler'
    BY DEF HandleUpdate
  <1>21. UNCHANGED vars => ChangesOnlyInHandler'
    BY DEF vars, server, players, network, history
  <1> QED
    BY <1>1, <1>2, <1>3, <1>4, <1>5, <1>6, <1>7, <1>8, <1>9, <1>10, <1>11, <1>12,
       <1>13, <1>14, <1>15, <1>16, <1>17, <1>18, <1>19, <1>20, <1>21, StepCases

(* The type invariant, and with it the bound of one on the change list. *)
THEOREM MapSyncTypes == Safety => []TypeOK
  <1>1. Init => TypeOK /\ ChangesOnlyInHandler
    BY TypeInit
  <1>2. TypeOK /\ ChangesOnlyInHandler /\ [Next]_vars => (TypeOK /\ ChangesOnlyInHandler)'
    BY TypeStep, ChangesStep
  <1> QED
    BY <1>1, <1>2, PTL DEF Safety

(* The flush in chunkUpdater finds a change only while an edit's handler is between *)
(* noting it and clearing the list, whatever the number of clients, blocks, edits.  *)
THEOREM OnlyHandlerHasChanges == Safety => []ChangesOnlyInHandler
  <1>1. Init => TypeOK /\ ChangesOnlyInHandler
    BY TypeInit
  <1>2. TypeOK /\ ChangesOnlyInHandler /\ [Next]_vars => (TypeOK /\ ChangesOnlyInHandler)'
    BY TypeStep, ChangesStep
  <1> QED
    BY <1>1, <1>2, PTL DEF Safety

----------------------------------------------------------------------------
(* A chunk, once promised to a player, is in exactly one place. *)

(* A chunk is never taken for the absence of one. *)
LEMMA ChunkIsSome == \A k \in Chunk : k # NoChunk
  <1> SUFFICES ASSUME NEW k \in Chunk, k = NoChunk PROVE FALSE
    OBVIOUS
  <1>1. DOMAIN k = Blocks
    BY DEF Chunk
  <1>2. DOMAIN k = {}
    BY EmptySeq DEF NoChunk
  <1> QED
    BY <1>1, <1>2, MapSyncAssumption

(* The places of client c's chunk. *)
Places(c) == One(pending[c]) + One(BeingSent(c)) + Len(transfers[c]) + One(HasChunk(c))

(* A step that leaves the clients' part alone keeps the count. *)
LEMMA PlacesSame ==
  ASSUME NEW c \in Clients, SentOnce,
         UNCHANGED <<pending, listed, transfers>>,
         BeingSent(c)' = BeingSent(c), HasChunk(c)' = HasChunk(c)
  PROVE  Places(c)' = One(listed[c])'
  BY DEF SentOnce, Places

(* Every step keeps each client's chunk in one place. *)
LEMMA SentOnceStep == TypeOK /\ SentOnce /\ [Next]_vars => SentOnce'
  <1> SUFFICES ASSUME TypeOK, SentOnce, [Next]_vars, NEW c \in Clients
               PROVE  Places(c)' = One(listed[c])'
    BY DEF SentOnce, Places
  <1> USE DEF players, network, server
  <1>0. /\ Places(c) = One(listed[c])
        /\ pending[c] \in BOOLEAN /\ listed[c] \in BOOLEAN
        /\ transfers[c] \in Seq(Chunk) /\ Len(transfers[c]) \in Nat
        /\ One(pending[c]) \in {0, 1} /\ One(BeingSent(c)) \in {0, 1}
        /\ One(HasChunk(c)) \in {0, 1} /\ One(listed[c]) \in {0, 1}
    BY LenProperties DEF SentOnce, Places, TypeOK, ClientsTypeOK, One
  <1>1. GenerateStart => Places(c)' = One(listed[c])'
    BY PlacesSame DEF GenerateStart, BeingSent, HasChunk
  <1>2. \A b \in Blocks : GenerateBlock(b) => Places(c)' = One(listed[c])'
    BY PlacesSame DEF GenerateBlock, BeingSent, HasChunk
  <1>3. GenerateEnd => Places(c)' = One(listed[c])'
    BY PlacesSame DEF GenerateEnd, BeingSent, HasChunk
  <1>4. \A d \in Clients : JoinPlayer(d) => Places(c)' = One(listed[c])'
    <2> SUFFICES ASSUME NEW d \in Clients, JoinPlayer(d) PROVE Places(c)' = One(listed[c])'
      OBVIOUS
    <2>1. UNCHANGED <<upd, transfers, view>>
      BY DEF JoinPlayer
    <2>2. BeingSent(c)' = BeingSent(c) /\ HasChunk(c)' = HasChunk(c)
      BY <2>1 DEF BeingSent, HasChunk
    <2>3. CASE c = d
      <3>1. listed[c] = FALSE /\ listed'[c] = TRUE /\ pending'[c] = TRUE
        BY <2>3 DEF JoinPlayer, TypeOK, ClientsTypeOK
      <3>2. One(listed[c]) = 0 /\ One(listed[c])' = 1 /\ One(pending[c])' = 1
        BY <3>1 DEF One
      <3>3. One(pending[c]) = 0
        BY <1>0, <3>2 DEF Places
      <3> QED
        BY <1>0, <2>1, <2>2, <3>2, <3>3 DEF Places
    <2>4. CASE c # d
      <3>1. listed'[c] = listed[c] /\ pending'[c] = pending[c]
        BY <2>4 DEF JoinPlayer, TypeOK, ClientsTypeOK
      <3> QED
        BY <1>0, <2>1, <2>2, <3>1 DEF Places
    <2> QED
      BY <2>3, <2>4
  <1>5. \A b \in Blocks : EditWrite(b) => Places(c)' = One(listed[c])'
    BY PlacesSame DEF EditWrite, BeingSent, HasChunk
  <1>6. EditNotify => Places(c)' = One(listed[c])'
    BY PlacesSame DEF EditNotify, BeingSent, HasChunk
  <1>7. EditCheck => Places(c)' = One(listed[c])'
    BY PlacesSame DEF EditCheck, BeingSent, HasChunk
  <1>8. EditFlush => Places(c)' = One(listed[c])'
    BY PlacesSame DEF EditFlush, BeingSent, HasChunk
  <1>9. EditClear => Places(c)' = One(listed[c])'
    BY PlacesSame DEF EditClear, BeingSent, HasChunk
  <1>10. EditBroadcast => Places(c)' = One(listed[c])'
    BY PlacesSame DEF EditBroadcast, BeingSent, HasChunk
  <1>11. UpdaterCheck => Places(c)' = One(listed[c])'
    BY PlacesSame DEF UpdaterCheck, BeingSent, HasChunk, UpdAt
  <1>12. UpdaterFlush => Places(c)' = One(listed[c])'
    BY PlacesSame DEF UpdaterFlush, BeingSent, HasChunk
  <1>13. UpdaterClear => Places(c)' = One(listed[c])'
    <2> SUFFICES ASSUME UpdaterClear PROVE Places(c)' = One(listed[c])'
      OBVIOUS
    <2>1. upd.pc = "clear" /\ upd' = [upd EXCEPT !.pc = "broadcast"]
      BY DEF UpdaterClear
    <2>2. upd'.pc = "broadcast"
      BY <2>1, Locals
    <2> QED
      BY <2>1, <2>2, PlacesSame DEF UpdaterClear, BeingSent, HasChunk
  <1>14. UpdaterBroadcast => Places(c)' = One(listed[c])'
    BY PlacesSame DEF UpdaterBroadcast, BeingSent, HasChunk, UpdAt
  <1>15. \A d \in Clients : UpdaterTake(d) => Places(c)' = One(listed[c])'
    <2> SUFFICES ASSUME NEW d \in Clients, UpdaterTake(d) PROVE Places(c)' = One(listed[c])'
      OBVIOUS
    <2>1. UNCHANGED <<listed, transfers, view>> /\ HasChunk(c)' = HasChunk(c)
      BY DEF UpdaterTake, HasChunk
    <2>2. ~BeingSent(c)
      BY DEF UpdaterTake, BeingSent
    <2>3. CASE c = d
      <3>1. pending[c] = TRUE /\ pending'[c] = FALSE /\ BeingSent(c)'
        BY <2>3, <1>0 DEF UpdaterTake, CanTake, BeingSent, TypeOK, ClientsTypeOK
      <3>2. /\ One(pending[c]) = 1 /\ One(pending[c])' = 0
            /\ One(BeingSent(c)) = 0 /\ One(BeingSent(c))' = 1
        BY <2>2, <3>1 DEF One
      <3> QED
        BY <1>0, <2>1, <3>2 DEF Places
    <2>4. CASE c # d
      <3>1. pending'[c] = pending[c] /\ ~BeingSent(c)'
        BY <2>4 DEF UpdaterTake, BeingSent, TypeOK, ClientsTypeOK
      <3> QED
        BY <1>0, <2>1, <2>2, <3>1 DEF Places, One
    <2> QED
      BY <2>3, <2>4
  <1>16. \A d \in Clients : UpdaterSkip(d) => Places(c)' = One(listed[c])'
    BY PlacesSame DEF UpdaterSkip, BeingSent, HasChunk
  <1>17. UpdaterSend => Places(c)' = One(listed[c])'
    <2> SUFFICES ASSUME UpdaterSend PROVE Places(c)' = One(listed[c])'
      OBVIOUS
    <2>1. UNCHANGED <<listed, pending, view>> /\ HasChunk(c)' = HasChunk(c)
      BY DEF UpdaterSend, HasChunk
    <2>2. ~BeingSent(c)'
      BY DEF UpdaterSend, BeingSent, UpdAt
    <2>3. CASE c = upd.to
      <3>1. BeingSent(c)
        BY <2>3 DEF UpdaterSend, BeingSent
      <3>2. transfers'[c] = Append(transfers[c], upd.copy) /\ upd.copy \in Chunk
        BY <2>3, Locals DEF UpdaterSend, TypeOK, ClientsTypeOK
      <3>3. Len(transfers'[c]) = Len(transfers[c]) + 1
        BY <1>0, <3>2, AppendProperties
      <3>4. One(BeingSent(c)) = 1 /\ One(BeingSent(c))' = 0
        BY <2>2, <3>1 DEF One
      <3> QED
        BY <1>0, <2>1, <3>3, <3>4 DEF Places
    <2>4. CASE c # upd.to
      <3>1. transfers'[c] = transfers[c] /\ ~BeingSent(c)
        BY <2>4 DEF UpdaterSend, BeingSent, TypeOK, ClientsTypeOK
      <3> QED
        BY <1>0, <2>1, <2>2, <3>1 DEF Places, One
    <2> QED
      BY <2>3, <2>4
  <1>18. UpdaterSleep => Places(c)' = One(listed[c])'
    BY PlacesSame DEF UpdaterSleep, BeingSent, HasChunk, UpdAt
  <1>19. \A d \in Clients : HandleTransfer(d) => Places(c)' = One(listed[c])'
    <2> SUFFICES ASSUME NEW d \in Clients, HandleTransfer(d) PROVE Places(c)' = One(listed[c])'
      OBVIOUS
    <2>1. UNCHANGED <<listed, pending, upd>> /\ BeingSent(c)' = BeingSent(c)
      BY DEF HandleTransfer, BeingSent
    <2>2. CASE c = d
      <3>1. transfers'[c] = Tail(transfers[c]) /\ transfers[c] # <<>>
        BY <2>2 DEF HandleTransfer, TypeOK, ClientsTypeOK
      <3>2. Len(Tail(transfers[c])) = Len(transfers[c]) - 1 /\ Head(transfers[c]) \in Chunk
        BY <1>0, <3>1, HeadTailProperties
      <3>3. Len(transfers[c]) >= 1
        BY <1>0, <3>1, EmptySeq
      <3>5. One(HasChunk(c)) = 0 /\ ~HasChunk(c)
        <4>1. One(HasChunk(c)) = 0
          BY <1>0, <3>3 DEF Places
        <4> QED
          BY <4>1 DEF One
      <3>4. view'[c] = Head(transfers[c]) /\ HasChunk(c)'
        <4>1. view'[c] = Head(transfers[c])
          BY <2>2, <3>5 DEF HandleTransfer, Received, TypeOK, ClientsTypeOK
        <4> QED
          BY <4>1, <3>2, ChunkIsSome DEF HasChunk
      <3>6. One(HasChunk(c))' = 1
        BY <3>4 DEF One
      <3>7. Len(transfers[c])' = Len(transfers[c]) - 1
        BY <3>1, <3>2
      <3> QED
        BY <1>0, <2>1, <3>5, <3>6, <3>7 DEF Places
    <2>3. CASE c # d
      <3>1. transfers'[c] = transfers[c] /\ view'[c] = view[c]
        BY <2>3 DEF HandleTransfer, TypeOK, ClientsTypeOK
      <3> QED
        BY <1>0, <2>1, <3>1 DEF Places, HasChunk
    <2> QED
      BY <2>2, <2>3
  <1>20. \A d \in Clients : HandleUpdate(d) => Places(c)' = One(listed[c])'
    <2> SUFFICES ASSUME NEW d \in Clients, HandleUpdate(d) PROVE Places(c)' = One(listed[c])'
      OBVIOUS
    <2>1. UNCHANGED <<listed, pending, upd, transfers>> /\ BeingSent(c)' = BeingSent(c)
      BY DEF HandleUpdate, BeingSent
    <2>2. HasChunk(c)' = HasChunk(c)
      <3>1. CASE c = d /\ HasChunk(c)
        <4> DEFINE u == Head(updates[c])
        <4>1. view' = [view EXCEPT ![c][u.block] = u.to]
          BY <3>1 DEF HandleUpdate
        <4>2. view[c] \in Chunk /\ u \in Update
          BY <3>1, HeadTailProperties DEF HandleUpdate, HasChunk, TypeOK, ClientsTypeOK
        <4>3. view'[c] = [view[c] EXCEPT ![u.block] = u.to]
          BY <4>1 DEF TypeOK, ClientsTypeOK
        <4>4. view'[c] \in Chunk
          <5> HIDE DEF u
          <5> QED
            BY <4>2, <4>3 DEF Update, Chunk
        <4> QED
          BY <3>1, <4>4, ChunkIsSome DEF HasChunk
      <3>2. CASE c # d /\ HasChunk(d)
        BY <3>2 DEF HandleUpdate, HasChunk, TypeOK, ClientsTypeOK
      <3>3. CASE ~HasChunk(d)
        BY <3>3 DEF HandleUpdate, HasChunk
      <3> QED
        BY <3>1, <3>2, <3>3
    <2> QED
      BY <1>0, <2>1, <2>2 DEF Places
  <1>21. UNCHANGED vars => Places(c)' = One(listed[c])'
    BY PlacesSame DEF vars, BeingSent, HasChunk
  <1> QED
    BY <1>1, <1>2, <1>3, <1>4, <1>5, <1>6, <1>7, <1>8, <1>9, <1>10, <1>11, <1>12,
       <1>13, <1>14, <1>15, <1>16, <1>17, <1>18, <1>19, <1>20, <1>21, StepCases

(* The updater loses no chunk it was to send and sends none twice. *)
THEOREM ChunkSentOnce == Safety => []SentOnce
  <1>1. Init => SentOnce
    BY EmptySeq DEF Init, SentOnce, One, BeingSent, HasChunk, UpdAt, NoChunk
  <1>2. TypeOK /\ SentOnce /\ [Next]_vars => SentOnce'
    BY SentOnceStep
  <1> QED
    BY <1>1, <1>2, MapSyncTypes, PTL DEF Safety

----------------------------------------------------------------------------
(* No cleared memory ever leaves the server. The invariant follows it from the    *)
(* generator through the threads' locals and the channels to the clients' copies. *)

Filled == Content \ {Cleared}
FilledChunk == [Blocks -> Filled]
FilledUpdate == [block : Blocks, to : Filled, after : BOOLEAN]
FilledFound == Seq(Blocks \X Filled)

\* The generator has filled what it has no more to generate, and all once Ready.
TerrainFilled ==
  /\ state = "Ready" => toGenerate = {}
  /\ \A b \in Blocks \ toGenerate : block[b] # Cleared

\* Changes are only noted of a Ready chunk.
ChangesReady == changes # <<>> => state = "Ready"

\* What the threads have read and not yet sent.
LocalsFilled ==
  /\ main.pc \in {"clear", "broadcast"} => main.found \in FilledFound
  /\ upd.pc \in {"clear", "broadcast"} => upd.found \in FilledFound
  /\ upd.pc = "send" => upd.copy \in FilledChunk

\* What is under way, and what has arrived.
ChannelsFilled ==
  /\ transfers \in [Clients -> Seq(FilledChunk)]
  /\ updates \in [Clients -> Seq(FilledUpdate)]
  /\ view \in [Clients -> FilledChunk \cup {NoChunk}]

FilledInv == TerrainFilled /\ ChangesReady /\ LocalsFilled /\ ChannelsFilled

(* A Ready chunk has no cleared block. *)
LEMMA ReadyFilled ==
  ASSUME TypeOK, TerrainFilled, state = "Ready"
  PROVE  block \in FilledChunk
  BY DEF TypeOK, ServerTypeOK, TerrainFilled, Chunk, FilledChunk, Filled

(* So what a flush of one finds is terrain or an edit. *)
LEMMA FlushedFilled ==
  ASSUME TypeOK, TerrainFilled, ChangesReady
  PROVE  Flushed \in FilledFound
  <1>1. Len(changes) \in Nat /\ DOMAIN changes = 1 .. Len(changes)
    BY LenProperties DEF TypeOK, ServerTypeOK
  <1>2. CASE changes = <<>>
    <2>1. Len(changes) = 0
      BY <1>2, EmptySeq
    <2>2. Flushed \in [1 .. Len(changes) -> Blocks \X Filled]
      BY <1>1, <2>1 DEF Flushed
    <2> QED
      BY <1>1, <2>2, SeqDef DEF FilledFound
  <1>3. CASE changes # <<>>
    <2>1. block \in FilledChunk
      BY <1>3, ReadyFilled DEF ChangesReady
    <2>2. \A i \in 1 .. Len(changes) : changes[i] \in Blocks /\ block[changes[i]] \in Filled
      BY <2>1, ElementOfSeq DEF TypeOK, ServerTypeOK, FilledChunk
    <2>3. Flushed \in [1 .. Len(changes) -> Blocks \X Filled]
      BY <1>1, <2>2 DEF Flushed
    <2> QED
      BY <1>1, <2>3, SeqDef DEF FilledFound
  <1> QED
    BY <1>2, <1>3

(* And what is broadcast of it is too. *)
LEMMA BroadcastFilled ==
  ASSUME ChannelsFilled, NEW found \in FilledFound, Broadcast(found)
  PROVE  updates' \in [Clients -> Seq(FilledUpdate)]
  <1> SUFFICES ASSUME NEW c \in Clients
               PROVE  updates[c] \o [i \in DOMAIN found |->
                        [block |-> found[i][1], to |-> found[i][2], after |-> Transferred(c)]]
                          \in Seq(FilledUpdate)
    BY DEF Broadcast, ChannelsFilled
  <1> DEFINE msg(i) == [block |-> found[i][1], to |-> found[i][2], after |-> Transferred(c)]
  <1>1. Transferred(c) \in BOOLEAN
    BY DEF Transferred
  <1>2. Len(found) \in Nat /\ DOMAIN found = 1 .. Len(found)
    BY LenProperties DEF FilledFound
  <1>3. \A i \in 1 .. Len(found) : msg(i) \in FilledUpdate
    BY <1>1, ElementOfSeq DEF FilledUpdate, FilledFound
  <1>4. [i \in DOMAIN found |-> msg(i)] \in [1 .. Len(found) -> FilledUpdate]
    BY <1>2, <1>3
  <1>5. [i \in DOMAIN found |-> msg(i)] \in Seq(FilledUpdate)
    BY <1>2, <1>4, SeqDef
  <1> QED
    BY <1>5, ConcatProperties DEF ChannelsFilled

(* Every step keeps cleared memory where it is. *)
LEMMA FilledStep == TypeOK /\ FilledInv /\ [Next]_vars => FilledInv'
  <1> SUFFICES ASSUME TypeOK, FilledInv, [Next]_vars PROVE FilledInv'
    OBVIOUS
  <1> USE MapSyncAssumption DEF FilledInv, server, players, network
  <1>1. GenerateStart => FilledInv'
    BY DEF GenerateStart, TerrainFilled, ChangesReady, LocalsFilled, ChannelsFilled, MainIdle, UpdAt
  <1>2. \A b \in Blocks : GenerateBlock(b) => FilledInv'
    <2> SUFFICES ASSUME NEW b \in Blocks, GenerateBlock(b) PROVE FilledInv'
      OBVIOUS
    <2>1. TerrainFilled'
      BY DEF GenerateBlock, TerrainFilled, Terrain, Cleared, TypeOK, ServerTypeOK, Chunk
    <2>2. ChangesReady'
      BY DEF GenerateBlock, ChangesReady
    <2>3. LocalsFilled'
      BY DEF GenerateBlock, LocalsFilled
    <2>4. ChannelsFilled'
      BY DEF GenerateBlock, ChannelsFilled
    <2> QED
      BY <2>1, <2>2, <2>3, <2>4
  <1>3. GenerateEnd => FilledInv'
    BY DEF GenerateEnd, TerrainFilled, ChangesReady, LocalsFilled, ChannelsFilled, MainIdle, UpdAt
  <1>4. \A c \in Clients : JoinPlayer(c) => FilledInv'
    BY DEF JoinPlayer, TerrainFilled, ChangesReady, LocalsFilled, ChannelsFilled, MainIdle, UpdAt
  <1>5. \A b \in Blocks : EditWrite(b) => FilledInv'
    <2> SUFFICES ASSUME NEW b \in Blocks, EditWrite(b) PROVE FilledInv'
      OBVIOUS
    <2>1. TerrainFilled'
      BY DEF EditWrite, TerrainFilled, Terrain, Cleared, TypeOK, ServerTypeOK, Chunk
    <2>2. ChangesReady'
      BY DEF EditWrite, ChangesReady
    <2>3. LocalsFilled'
      BY DEF EditWrite, LocalsFilled
    <2>4. ChannelsFilled'
      BY DEF EditWrite, ChannelsFilled
    <2> QED
      BY <2>1, <2>2, <2>3, <2>4
  <1>6. EditNotify => FilledInv'
    BY DEF EditNotify, TerrainFilled, ChangesReady, LocalsFilled, ChannelsFilled, MainIdle, UpdAt
  <1>7. EditCheck => FilledInv'
    BY DEF EditCheck, TerrainFilled, ChangesReady, LocalsFilled, ChannelsFilled, MainIdle, UpdAt
  <1>8. EditFlush => FilledInv'
    <2> SUFFICES ASSUME EditFlush PROVE FilledInv'
      OBVIOUS
    <2>1. TerrainFilled'
      BY DEF EditFlush, TerrainFilled
    <2>2. ChangesReady'
      BY DEF EditFlush, ChangesReady
    <2>3. LocalsFilled'
      BY FlushedFilled DEF EditFlush, LocalsFilled
    <2>4. ChannelsFilled'
      BY DEF EditFlush, ChannelsFilled
    <2> QED
      BY <2>1, <2>2, <2>3, <2>4
  <1>9. EditClear => FilledInv'
    <2> SUFFICES ASSUME EditClear PROVE FilledInv'
      OBVIOUS
    <2>1. TerrainFilled'
      BY DEF EditClear, TerrainFilled
    <2>2. ChangesReady'
      BY DEF EditClear, ChangesReady
    <2>3. LocalsFilled'
      BY Locals DEF EditClear, LocalsFilled
    <2>4. ChannelsFilled'
      BY DEF EditClear, ChannelsFilled
    <2> QED
      BY <2>1, <2>2, <2>3, <2>4
  <1>10. EditBroadcast => FilledInv'
    <2> SUFFICES ASSUME EditBroadcast PROVE FilledInv'
      OBVIOUS
    <2>1. TerrainFilled'
      BY DEF EditBroadcast, TerrainFilled
    <2>2. ChangesReady'
      BY DEF EditBroadcast, ChangesReady
    <2>3. LocalsFilled'
      BY DEF EditBroadcast, LocalsFilled, MainIdle
    <2>4. ChannelsFilled'
      BY BroadcastFilled DEF EditBroadcast, LocalsFilled, ChannelsFilled
    <2> QED
      BY <2>1, <2>2, <2>3, <2>4
  <1>11. UpdaterCheck => FilledInv'
    BY DEF UpdaterCheck, TerrainFilled, ChangesReady, LocalsFilled, ChannelsFilled, MainIdle, UpdAt
  <1>12. UpdaterFlush => FilledInv'
    <2> SUFFICES ASSUME UpdaterFlush PROVE FilledInv'
      OBVIOUS
    <2>1. TerrainFilled'
      BY DEF UpdaterFlush, TerrainFilled
    <2>2. ChangesReady'
      BY DEF UpdaterFlush, ChangesReady
    <2>3. LocalsFilled'
      BY FlushedFilled DEF UpdaterFlush, LocalsFilled
    <2>4. ChannelsFilled'
      BY DEF UpdaterFlush, ChannelsFilled
    <2> QED
      BY <2>1, <2>2, <2>3, <2>4
  <1>13. UpdaterClear => FilledInv'
    <2> SUFFICES ASSUME UpdaterClear PROVE FilledInv'
      OBVIOUS
    <2>1. TerrainFilled'
      BY DEF UpdaterClear, TerrainFilled
    <2>2. ChangesReady'
      BY DEF UpdaterClear, ChangesReady
    <2>3. LocalsFilled'
      BY Locals DEF UpdaterClear, LocalsFilled
    <2>4. ChannelsFilled'
      BY DEF UpdaterClear, ChannelsFilled
    <2> QED
      BY <2>1, <2>2, <2>3, <2>4
  <1>14. UpdaterBroadcast => FilledInv'
    <2> SUFFICES ASSUME UpdaterBroadcast PROVE FilledInv'
      OBVIOUS
    <2>1. TerrainFilled'
      BY DEF UpdaterBroadcast, TerrainFilled
    <2>2. ChangesReady'
      BY DEF UpdaterBroadcast, ChangesReady
    <2>3. LocalsFilled'
      BY DEF UpdaterBroadcast, LocalsFilled, UpdAt
    <2>4. ChannelsFilled'
      BY BroadcastFilled DEF UpdaterBroadcast, LocalsFilled, ChannelsFilled
    <2> QED
      BY <2>1, <2>2, <2>3, <2>4
  <1>15. \A c \in Clients : UpdaterTake(c) => FilledInv'
    <2> SUFFICES ASSUME NEW c \in Clients, UpdaterTake(c) PROVE FilledInv'
      OBVIOUS
    <2>1. TerrainFilled'
      BY DEF UpdaterTake, TerrainFilled
    <2>2. ChangesReady'
      BY DEF UpdaterTake, ChangesReady
    <2>3. LocalsFilled'
      BY ReadyFilled DEF UpdaterTake, LocalsFilled, CanTake, Written
    <2>4. ChannelsFilled'
      BY DEF UpdaterTake, ChannelsFilled
    <2> QED
      BY <2>1, <2>2, <2>3, <2>4
  <1>16. \A c \in Clients : UpdaterSkip(c) => FilledInv'
    BY DEF UpdaterSkip, TerrainFilled, ChangesReady, LocalsFilled, ChannelsFilled, MainIdle, UpdAt
  <1>17. UpdaterSend => FilledInv'
    <2> SUFFICES ASSUME UpdaterSend PROVE FilledInv'
      OBVIOUS
    <2>1. TerrainFilled'
      BY DEF UpdaterSend, TerrainFilled
    <2>2. ChangesReady'
      BY DEF UpdaterSend, ChangesReady
    <2>3. LocalsFilled'
      BY DEF UpdaterSend, LocalsFilled, UpdAt
    <2>4. ChannelsFilled'
      BY AppendProperties DEF UpdaterSend, LocalsFilled, ChannelsFilled
    <2> QED
      BY <2>1, <2>2, <2>3, <2>4
  <1>18. UpdaterSleep => FilledInv'
    BY DEF UpdaterSleep, TerrainFilled, ChangesReady, LocalsFilled, ChannelsFilled, MainIdle, UpdAt
  <1>19. \A c \in Clients : HandleTransfer(c) => FilledInv'
    <2> SUFFICES ASSUME NEW c \in Clients, HandleTransfer(c) PROVE FilledInv'
      OBVIOUS
    <2>1. TerrainFilled'
      BY DEF HandleTransfer, TerrainFilled
    <2>2. ChangesReady'
      BY DEF HandleTransfer, ChangesReady
    <2>3. LocalsFilled'
      BY DEF HandleTransfer, LocalsFilled
    <2>4. ChannelsFilled'
      <3>1. Head(transfers[c]) \in FilledChunk /\ Tail(transfers[c]) \in Seq(FilledChunk)
        BY HeadTailProperties DEF HandleTransfer, ChannelsFilled
      <3> QED
        BY <3>1 DEF HandleTransfer, Received, ChannelsFilled
    <2> QED
      BY <2>1, <2>2, <2>3, <2>4
  <1>20. \A c \in Clients : HandleUpdate(c) => FilledInv'
    <2> SUFFICES ASSUME NEW c \in Clients, HandleUpdate(c) PROVE FilledInv'
      OBVIOUS
    <2>1. TerrainFilled'
      BY DEF HandleUpdate, TerrainFilled
    <2>2. ChangesReady'
      BY DEF HandleUpdate, ChangesReady
    <2>3. LocalsFilled'
      BY DEF HandleUpdate, LocalsFilled
    <2>4. ChannelsFilled'
      <3> DEFINE u == Head(updates[c])
      <3>1. u \in FilledUpdate /\ Tail(updates[c]) \in Seq(FilledUpdate)
        BY HeadTailProperties DEF HandleUpdate, ChannelsFilled
      <3>2. u.block \in Blocks /\ u.to \in Filled
        BY <3>1 DEF FilledUpdate
      <3>3. CASE HasChunk(c)
        <4>1. view[c] \in FilledChunk
          BY <3>3 DEF HasChunk, ChannelsFilled
        <4>2. [view[c] EXCEPT ![u.block] = u.to] \in FilledChunk
          BY <3>2, <4>1 DEF FilledChunk
        <4>3. view' = [view EXCEPT ![c] = [view[c] EXCEPT ![u.block] = u.to]]
          BY <3>3 DEF HandleUpdate
        <4>4. view' \in [Clients -> FilledChunk \cup {NoChunk}]
          BY <4>2, <4>3 DEF ChannelsFilled
        <4> QED
          BY <3>1, <4>4 DEF HandleUpdate, ChannelsFilled
      <3>4. CASE ~HasChunk(c)
        BY <3>1, <3>4 DEF HandleUpdate, ChannelsFilled
      <3> QED
        BY <3>3, <3>4
    <2> QED
      BY <2>1, <2>2, <2>3, <2>4
  <1>21. UNCHANGED vars => FilledInv'
    BY DEF vars, TerrainFilled, ChangesReady, LocalsFilled, ChannelsFilled
  <1> QED
    BY <1>1, <1>2, <1>3, <1>4, <1>5, <1>6, <1>7, <1>8, <1>9, <1>10, <1>11, <1>12,
       <1>13, <1>14, <1>15, <1>16, <1>17, <1>18, <1>19, <1>20, <1>21, StepCases

(* Nothing is noted, read or sent of the chunk before the generator has filled it. *)
LEMMA FilledInvariant == Safety => []FilledInv
  <1>1. Init => FilledInv
    <2> SUFFICES ASSUME Init PROVE FilledInv
      OBVIOUS
    <2>1. TerrainFilled /\ ChangesReady /\ LocalsFilled
      BY DEF Init, TerrainFilled, ChangesReady, LocalsFilled, MainIdle, UpdAt
    <2>2. ChannelsFilled
      BY EmptySeq DEF Init, ChannelsFilled
    <2> QED
      BY <2>1, <2>2 DEF FilledInv
  <1>2. TypeOK /\ FilledInv /\ [Next]_vars => FilledInv'
    BY FilledStep
  <1> QED
    BY <1>1, <1>2, MapSyncTypes, PTL DEF Safety

(* No client is ever shown memory that the generator has not filled. *)
THEOREM NoClientSeesUngenerated == Safety => []NothingUngenerated
  <1>1. FilledInv => NothingUngenerated
    BY DEF FilledInv, ChannelsFilled, NothingUngenerated, HasChunk, FilledChunk, Filled
  <1> QED
    BY <1>1, FilledInvariant, PTL

----------------------------------------------------------------------------
(* Clients agree with the server once nothing is under way. The invariant says of   *)
(* each block what keeps the news of it: the main thread, which will broadcast it,  *)
(* the channel, whose last update of the block is the newest, or the client's copy. *)

\* An edit the main thread has made and will still tell everybody about: it notes it of a
\* Ready chunk, flushes it, and broadcasts it.
Announced(b) ==
  \/ main.pc = "notify" /\ main.at = b /\ state = "Ready"
  \/ main.pc \in {"check", "flush"} /\ \E i \in DOMAIN changes : changes[i] = b
  \/ main.pc \in {"clear", "broadcast"} /\ \E i \in DOMAIN main.found : main.found[i] = <<b, block[b]>>

\* An update to what the block holds now is under way to c, at or behind place i.
NewestFrom(c, i, b) ==
  \E j \in DOMAIN updates[c] :
    j >= i /\ updates[c][j].block = b /\ updates[c][j].to = block[b]

\* What client c has of the chunk, or will have.
Shown(c) == Copies(c) \cup (IF HasChunk(c) THEN {view[c]} ELSE {})

\* Content v of block b is the server's, or c will be told.
Fresh(c, b, v) == v = block[b] \/ Announced(b) \/ NewestFrom(c, 1, b)

\* Until the chunk is Ready nothing of it is on its way.
QuietUntilReady ==
  state # "Ready" =>
    /\ main.pc \in {"clear", "broadcast"} => main.found = <<>>
    /\ \A c \in Clients : updates[c] = <<>> /\ Shown(c) = {}

UnlistedUntold == \A c \in Clients : ~listed[c] => updates[c] = <<>>

\* No block is of an edit to come.
BlocksDated == \A b \in Blocks : block[b] <= Terrain + edits

\* A flush of the main thread is not overtaken by another edit.
FoundCurrent ==
  main.pc \in {"clear", "broadcast"} =>
    \A i \in DOMAIN main.found : main.found[i][2] = block[main.found[i][1]]

\* A copy is no newer than the chunk.
CopiesOld == \A c \in Clients : \A k \in Copies(c) : \A b \in Blocks : k[b] <= block[b]

\* Behind each update there is one to what the block holds now.
UpdatesEndNewest ==
  \A c \in Clients : \A i \in DOMAIN updates[c] : \A b \in Blocks :
    updates[c][i].block = b => Announced(b) \/ NewestFrom(c, i, b)

ShownFresh ==
  \A c \in Clients : \A k \in Shown(c) : \A b \in Blocks : Fresh(c, b, k[b]) \/ b \in missed[c]

\* What holds until the updater flushes in a race with an edit.
AgreeInv ==
  /\ upd.pc \in {"changes", "scan", "send"}
  /\ QuietUntilReady
  /\ UnlistedUntold
  /\ BlocksDated
  /\ FoundCurrent
  /\ CopiesOld
  /\ UpdatesEndNewest
  /\ ShownFresh

(* Whoever has a copy, or will, is in the players' list, and has it once. *)
LEMMA ShownListed ==
  ASSUME TypeOK, SentOnce, NEW c \in Clients
  PROVE  /\ Shown(c) # {} => listed[c]
         /\ HasChunk(c) => Copies(c) = {}
         /\ transfers[c] # <<>> => ~HasChunk(c)
         /\ Copies(c) \subseteq Chunk
  <1>1. /\ transfers[c] \in Seq(Chunk) /\ Len(transfers[c]) \in Nat
        /\ DOMAIN transfers[c] = 1 .. Len(transfers[c])
    BY LenProperties DEF TypeOK, ClientsTypeOK
  <1>2. /\ One(pending[c]) \in {0, 1} /\ One(BeingSent(c)) \in {0, 1}
        /\ One(HasChunk(c)) \in {0, 1} /\ One(listed[c]) \in {0, 1}
        /\ (One(BeingSent(c)) = 1 <=> BeingSent(c))
        /\ (One(HasChunk(c)) = 1 <=> HasChunk(c))
        /\ (One(listed[c]) = 1 <=> listed[c])
    BY DEF One, TypeOK, ClientsTypeOK
  <1>3. One(pending[c]) + One(BeingSent(c)) + Len(transfers[c]) + One(HasChunk(c)) = One(listed[c])
    BY DEF SentOnce
  <1>4. transfers[c] # <<>> => Len(transfers[c]) > 0
    BY <1>1, EmptySeq
  <1>5. transfers[c] = <<>> => DOMAIN transfers[c] = {}
    BY EmptySeq
  <1> DEFINE p == One(pending[c])
             s == One(BeingSent(c))
             n == Len(transfers[c])
             h == One(HasChunk(c))
             l == One(listed[c])
  <1>6. /\ p \in {0, 1} /\ s \in {0, 1} /\ h \in {0, 1} /\ l \in {0, 1} /\ n \in Nat
        /\ p + s + n + h = l
    BY <1>1, <1>2, <1>3
  <1> HIDE DEF p, s, n, h, l
  <1>7. /\ h = 1 => s = 0 /\ n = 0
        /\ s = 1 \/ n > 0 \/ h = 1 => l = 1
    BY <1>6
  <1>8. HasChunk(c) => ~BeingSent(c) /\ transfers[c] = <<>>
    BY <1>2, <1>4, <1>7 DEF s, n, h, l
  <1>9. BeingSent(c) \/ transfers[c] # <<>> \/ HasChunk(c) => listed[c]
    BY <1>2, <1>4, <1>7 DEF s, n, h, l
  <1>10. Copies(c) # {} => BeingSent(c) \/ transfers[c] # <<>>
    BY <1>5 DEF Copies
  <1>11. \A i \in DOMAIN transfers[c] : transfers[c][i] \in Chunk
    BY <1>1, ElementOfSeq
  <1>12. BeingSent(c) => upd.copy \in Chunk
    BY Locals DEF BeingSent
  <1> QED
    BY <1>8, <1>9, <1>10, <1>11, <1>12 DEF Shown, Copies

(* Steps that write no block and send or take no update: they may send a copy of the *)
(* chunk, deliver one, or take an edit nearer to its broadcast.                      *)
LEMMA AgreeKeeps ==
  ASSUME AgreeInv, UNCHANGED <<block, edits, updates, missed>>,
         upd'.pc \in {"changes", "scan", "send"},
         state = "Ready" => state' = "Ready",
         state' # "Ready" /\ main'.pc \in {"clear", "broadcast"} => main'.found = <<>>,
         FoundCurrent',
         \A c \in Clients : listed[c] => listed'[c],
         \A b : Announced(b) => Announced(b)',
         \A c \in Clients : \A k \in Copies(c)' : k \in Copies(c) \/ (k = block /\ state = "Ready"),
         \A c \in Clients : \A k \in Shown(c)' : k \in Shown(c) \/ (k = block /\ state = "Ready"),
         block \in Chunk
  PROVE  AgreeInv'
  <1>1. \A c, i, b : NewestFrom(c, i, b) => NewestFrom(c, i, b)'
    BY DEF NewestFrom
  <1>2. QuietUntilReady'
    BY DEF AgreeInv, QuietUntilReady
  <1>3. UnlistedUntold' /\ BlocksDated'
    BY DEF AgreeInv, UnlistedUntold, BlocksDated
  <1>4. CopiesOld'
    <2>1. \A b \in Blocks : block[b] <= block[b]
      BY DEF Chunk, Content
    <2> QED
      BY <2>1 DEF AgreeInv, CopiesOld
  <1>5. UpdatesEndNewest'
    <2> SUFFICES ASSUME NEW c \in Clients, NEW i \in DOMAIN updates[c],
                        NEW b \in Blocks, updates[c][i].block = b
                 PROVE  Announced(b)' \/ NewestFrom(c, i, b)'
      BY DEF UpdatesEndNewest
    <2>1. Announced(b) \/ NewestFrom(c, i, b)
      BY DEF AgreeInv, UpdatesEndNewest
    <2> QED
      BY <1>1, <2>1
  <1>6. ShownFresh'
    <2> SUFFICES ASSUME NEW c \in Clients, NEW k \in Shown(c)', NEW b \in Blocks
                 PROVE  Fresh(c, b, k[b])' \/ b \in missed[c]
      BY DEF ShownFresh
    <2>1. CASE k = block
      BY <2>1 DEF Fresh
    <2>2. CASE k \in Shown(c)
      <3>1. Fresh(c, b, k[b]) \/ b \in missed[c]
        BY <2>2 DEF AgreeInv, ShownFresh
      <3> QED
        BY <1>1, <3>1 DEF Fresh
    <2> QED
      BY <2>1, <2>2
  <1> QED
    BY <1>2, <1>3, <1>4, <1>5, <1>6 DEF AgreeInv

(* The generator writes a block while nobody has or hears of any. *)
LEMMA AgreeGenerate ==
  ASSUME TypeOK, AgreeInv, NEW b \in Blocks, GenerateBlock(b)
  PROVE  AgreeInv'
  <1>1. /\ state # "Ready" /\ block' = [block EXCEPT ![b] = Terrain]
        /\ UNCHANGED <<state, edits, main, upd, listed, transfers, updates, view, missed>>
    BY DEF GenerateBlock, server, players, network, history
  <1>2. /\ main.pc \in {"clear", "broadcast"} => main.found = <<>>
        /\ \A c \in Clients : updates[c] = <<>> /\ Shown(c) = {} /\ Copies(c) = {}
    BY <1>1 DEF AgreeInv, QuietUntilReady, Shown
  <1>3. \A c \in Clients : Shown(c)' = Shown(c) /\ Copies(c)' = Copies(c)
    BY <1>1 DEF Shown, Copies, HasChunk, BeingSent
  <1>4. DOMAIN <<>> = {}
    BY EmptySeq
  <1>5. BlocksDated'
    BY <1>1 DEF AgreeInv, BlocksDated, Terrain, TypeOK, ServerTypeOK, Chunk
  <1> QED
    BY <1>1, <1>2, <1>3, <1>4, <1>5
       DEF AgreeInv, QuietUntilReady, UnlistedUntold, FoundCurrent, CopiesOld,
           UpdatesEndNewest, ShownFresh

(* An edit of a Ready chunk will be broadcast; one of another is nobody's yet. *)
LEMMA AgreeWrite ==
  ASSUME TypeOK, SentOnce, AgreeInv, NEW b \in Blocks, EditWrite(b)
  PROVE  AgreeInv'
  <1>1. /\ main = MainIdle /\ main' = [pc |-> "notify", at |-> b]
        /\ edits' = edits + 1 /\ block' = [block EXCEPT ![b] = Terrain + (edits + 1)]
        /\ UNCHANGED <<state, upd, listed, transfers, updates, view, missed>>
    BY DEF EditWrite, players, network, history
  <1>2. \A a : ~Announced(a)
    BY <1>1 DEF Announced, MainIdle
  <1>3. state = "Ready" => Announced(b)'
    BY <1>1 DEF Announced
  <1>4. \A c \in Clients : Shown(c)' = Shown(c) /\ Copies(c)' = Copies(c)
    BY <1>1 DEF Shown, Copies, HasChunk, BeingSent
  <1>5. \A c \in Clients : \A a \in Blocks : \A i :
          a # b /\ NewestFrom(c, i, a) => NewestFrom(c, i, a)'
    BY <1>1 DEF NewestFrom, TypeOK, ServerTypeOK, Chunk
  <1>6. /\ \A a \in Blocks : block'[a] = IF a = b THEN Terrain + (edits + 1) ELSE block[a]
        /\ block \in Chunk /\ edits \in Nat
    BY <1>1 DEF TypeOK, ServerTypeOK, Chunk
  <1>7. QuietUntilReady' /\ UnlistedUntold' /\ FoundCurrent'
    BY <1>1, <1>4 DEF AgreeInv, QuietUntilReady, UnlistedUntold, FoundCurrent
  <1>8. BlocksDated' /\ CopiesOld'
    <2>1. \A a \in Blocks : block[a] \in Nat /\ block[a] <= Terrain + edits
      BY <1>6, MapSyncAssumption DEF AgreeInv, BlocksDated, Chunk, Content
    <2>2. \A a \in Blocks : block'[a] \in Nat /\ block[a] <= block'[a]
                            /\ block'[a] <= Terrain + (edits + 1)
      BY <1>6, <2>1 DEF Terrain
    <2>3. BlocksDated'
      BY <1>1, <2>2 DEF BlocksDated
    <2>4. CopiesOld'
      <3> SUFFICES ASSUME NEW c \in Clients, NEW k \in Copies(c), NEW a \in Blocks
                   PROVE  k[a] <= block'[a]
        BY <1>4 DEF CopiesOld
      <3>1. k[a] \in Nat /\ k[a] <= block[a]
        BY ShownListed, MapSyncAssumption DEF AgreeInv, CopiesOld, Chunk, Content
      <3> QED
        BY <2>1, <2>2, <3>1
    <2> QED
      BY <2>3, <2>4
  <1>9. UpdatesEndNewest'
    <2> SUFFICES ASSUME NEW c \in Clients, NEW i \in DOMAIN updates[c],
                        NEW a \in Blocks, updates[c][i].block = a
                 PROVE  Announced(a)' \/ NewestFrom(c, i, a)'
      BY <1>1 DEF UpdatesEndNewest
    <2>1. state = "Ready"
      BY EmptySeq DEF AgreeInv, QuietUntilReady
    <2>2. NewestFrom(c, i, a)
      BY <1>2 DEF AgreeInv, UpdatesEndNewest
    <2> QED
      BY <1>3, <1>5, <2>1, <2>2
  <1>10. ShownFresh'
    <2> SUFFICES ASSUME NEW c \in Clients, NEW k \in Shown(c), NEW a \in Blocks
                 PROVE  Fresh(c, a, k[a])' \/ a \in missed[c]
      BY <1>1, <1>4 DEF ShownFresh
    <2>1. state = "Ready"
      BY DEF AgreeInv, QuietUntilReady
    <2>2. Fresh(c, a, k[a]) \/ a \in missed[c]
      BY DEF AgreeInv, ShownFresh
    <2> QED
      BY <1>2, <1>3, <1>5, <1>6, <2>1, <2>2 DEF Fresh
  <1> QED
    BY <1>1, <1>7, <1>8, <1>9, <1>10 DEF AgreeInv

(* What a broadcast adds to the channel of a listed client. *)
LEMMA BroadcastTold ==
  ASSUME TypeOK, NEW found \in Found, Broadcast(found), NEW c \in Clients
  PROVE  /\ Len(updates[c]) \in Nat /\ DOMAIN updates[c] = 1 .. Len(updates[c])
         /\ Len(found) \in Nat /\ DOMAIN found = 1 .. Len(found)
         /\ ~listed[c] => updates'[c] = updates[c]
         /\ listed[c] =>
              /\ DOMAIN updates'[c] = 1 .. Len(updates[c]) + Len(found)
              /\ \A j \in 1 .. Len(updates[c]) : updates'[c][j] = updates[c][j]
              /\ \A j \in 1 .. Len(found) :
                   /\ updates'[c][Len(updates[c]) + j].block = found[j][1]
                   /\ updates'[c][Len(updates[c]) + j].to = found[j][2]
  <1> DEFINE msg(i) == [block |-> found[i][1], to |-> found[i][2], after |-> Transferred(c)]
             more == [i \in DOMAIN found |-> msg(i)]
             q == updates[c]
  <1>1. q \in Seq(Update) /\ Len(q) \in Nat /\ DOMAIN q = 1 .. Len(q)
    BY LenProperties DEF TypeOK, ClientsTypeOK
  <1>2. Len(found) \in Nat /\ DOMAIN found = 1 .. Len(found)
    BY LenProperties DEF Found
  <1>3. Transferred(c) \in BOOLEAN
    BY DEF Transferred
  <1>4. \A i \in 1 .. Len(found) : msg(i) \in Update
    BY <1>3, ElementOfSeq DEF Update, Found
  <1>5. more \in [1 .. Len(found) -> Update]
    BY <1>2, <1>4
  <1>6. more \in Seq(Update) /\ Len(more) = Len(found)
    <2>1. more \in Seq(Update)
      BY <1>2, <1>5, SeqDef
    <2>2. Len(more) \in Nat /\ 1 .. Len(more) = 1 .. Len(found)
      BY <1>2, <2>1, LenProperties
    <2> QED
      BY <1>2, <2>1, <2>2
  <1>7. updates'[c] = IF listed[c] THEN q \o more ELSE q
    BY DEF Broadcast
  <1>8. \A i \in 1 .. Len(found) : more[i].block = found[i][1] /\ more[i].to = found[i][2]
    BY <1>2
  <1> HIDE DEF more
  <1>9. /\ q \o more \in Seq(Update) /\ Len(q \o more) = Len(q) + Len(found)
        /\ \A i \in 1 .. Len(q) + Len(found) :
             (q \o more)[i] = IF i <= Len(q) THEN q[i] ELSE more[i - Len(q)]
    <2> HIDE DEF q, msg
    <2>1. /\ q \o more \in Seq(Update) /\ Len(q \o more) = Len(q) + Len(more)
          /\ \A i \in 1 .. Len(q) + Len(more) :
               (q \o more)[i] = IF i <= Len(q) THEN q[i] ELSE more[i - Len(q)]
      BY <1>1, <1>6, ConcatProperties
    <2> QED
      BY <1>6, <2>1
  <1>10. DOMAIN (q \o more) = 1 .. Len(q) + Len(found)
    BY <1>9, LenProperties
  <1>11. \A j \in 1 .. Len(q) : (q \o more)[j] = q[j]
    BY <1>1, <1>2, <1>9
  <1>12. \A j \in 1 .. Len(found) : (q \o more)[Len(q) + j] = more[j]
    BY <1>1, <1>2, <1>9
  <1> QED
    BY <1>1, <1>2, <1>7, <1>8, <1>10, <1>11, <1>12

(* The broadcast of an edit: what was announced is now under way to everybody listed. *)
LEMMA AgreeBroadcast ==
  ASSUME TypeOK, SentOnce, AgreeInv, EditBroadcast
  PROVE  AgreeInv'
  <1> DEFINE found == main.found
  <1>1. /\ main.pc = "broadcast" /\ main' = MainIdle /\ Broadcast(found)
        /\ UNCHANGED <<state, block, edits, upd, listed, transfers, view, missed>>
    BY DEF EditBroadcast, server, players, network, history
  <1>2. found \in Found /\ \A i \in DOMAIN found : found[i][2] = block[found[i][1]]
    BY <1>1, Locals DEF AgreeInv, FoundCurrent
  <1>3. \A b : Announced(b) => \E i \in DOMAIN found : found[i][1] = b /\ found[i][2] = block[b]
    BY <1>1 DEF Announced
  <1>4. state # "Ready" => found = <<>>
    BY <1>1 DEF AgreeInv, QuietUntilReady
  <1> HIDE DEF found
  <1>5. \A c \in Clients : Shown(c)' = Shown(c) /\ Copies(c)' = Copies(c)
    BY <1>1 DEF Shown, Copies, HasChunk, BeingSent
  <1>6. \A c \in Clients : \A i, b : NewestFrom(c, i, b) => NewestFrom(c, i, b)'
    <2> SUFFICES ASSUME NEW c \in Clients, NEW i, NEW b, NEW j \in DOMAIN updates[c],
                        j >= i, updates[c][j].block = b, updates[c][j].to = block[b]
                 PROVE  NewestFrom(c, i, b)'
      BY DEF NewestFrom
    <2>1. j \in DOMAIN updates'[c] /\ updates'[c][j] = updates[c][j]
      BY <1>1, <1>2, BroadcastTold, SMTT(30)
    <2> QED
      BY <1>1, <2>1 DEF NewestFrom
  <1>7. \A c \in Clients : \A i, b :
          Announced(b) /\ listed[c] /\ i \in DOMAIN updates[c] \cup {1} => NewestFrom(c, i, b)'
    <2> SUFFICES ASSUME NEW c \in Clients, NEW i \in DOMAIN updates[c] \cup {1}, NEW b,
                        Announced(b), listed[c]
                 PROVE  NewestFrom(c, i, b)'
      OBVIOUS
    <2>1. PICK j \in DOMAIN found : found[j][1] = b /\ found[j][2] = block[b]
      BY <1>3
    <2> DEFINE k == Len(updates[c]) + j
    <2>2. /\ Len(updates[c]) \in Nat /\ DOMAIN updates[c] = 1 .. Len(updates[c])
          /\ Len(found) \in Nat /\ DOMAIN found = 1 .. Len(found)
          /\ DOMAIN updates'[c] = 1 .. Len(updates[c]) + Len(found)
      BY <1>1, <1>2, BroadcastTold
    <2>3. k \in DOMAIN updates'[c] /\ k >= i
      BY <2>1, <2>2
    <2>4. updates'[c][k].block = b /\ updates'[c][k].to = block[b]
      BY <1>1, <1>2, <2>1, <2>2, BroadcastTold, SMTT(30)
    <2> HIDE DEF k
    <2> QED
      BY <1>1, <2>3, <2>4 DEF NewestFrom
  <1>8. QuietUntilReady'
    <2> SUFFICES ASSUME state # "Ready", NEW c \in Clients PROVE updates'[c] = <<>> /\ Shown(c) = {}
      BY <1>1, <1>5 DEF QuietUntilReady, MainIdle
    <2>1. updates[c] = <<>> /\ Shown(c) = {} /\ found = <<>>
      BY <1>4 DEF AgreeInv, QuietUntilReady
    <2>2. updates'[c] = <<>>
      <3>1. [i \in DOMAIN found |->
              [block |-> found[i][1], to |-> found[i][2], after |-> Transferred(c)]] = <<>>
        BY <2>1, EmptySeq
      <3>2. updates'[c] = <<>> \/ updates'[c] = <<>> \o <<>>
        BY <1>1, <2>1, <3>1 DEF Broadcast
      <3> QED
        BY <3>2, EmptySeq, ConcatEmptySeq
    <2> QED
      BY <2>1, <2>2
  <1>9. UnlistedUntold'
    BY <1>1, <1>2, BroadcastTold DEF AgreeInv, UnlistedUntold
  <1>10. BlocksDated' /\ CopiesOld' /\ FoundCurrent'
    BY <1>1, <1>5 DEF AgreeInv, BlocksDated, CopiesOld, FoundCurrent, MainIdle
  <1>11. UpdatesEndNewest'
    <2> SUFFICES ASSUME NEW c \in Clients, NEW i \in DOMAIN updates'[c],
                        NEW b \in Blocks, updates'[c][i].block = b
                 PROVE  NewestFrom(c, i, b)'
      BY DEF UpdatesEndNewest
    <2>0. /\ Len(updates[c]) \in Nat /\ DOMAIN updates[c] = 1 .. Len(updates[c])
          /\ Len(found) \in Nat /\ DOMAIN found = 1 .. Len(found)
      BY <1>1, <1>2, BroadcastTold
    <2>1. CASE i \in DOMAIN updates[c]
      <3>1. listed[c]
        <4>1. updates[c] # <<>>
          BY <2>1, EmptySeq
        <4> QED
          BY <4>1 DEF AgreeInv, UnlistedUntold, TypeOK, ClientsTypeOK
      <3>2. updates[c][i].block = b
        BY <1>1, <1>2, <2>0, <2>1, <3>1, BroadcastTold
      <3>3. Announced(b) \/ NewestFrom(c, i, b)
        BY <2>1, <3>2 DEF AgreeInv, UpdatesEndNewest
      <3> QED
        BY <1>6, <1>7, <2>1, <3>1, <3>3
    <2>2. CASE i \notin DOMAIN updates[c]
      <3> DEFINE j == i - Len(updates[c])
      <3>1. listed[c]
        BY <1>1, <1>2, <2>2, BroadcastTold
      <3>2. DOMAIN updates'[c] = 1 .. Len(updates[c]) + Len(found)
        BY <1>1, <1>2, <3>1, BroadcastTold
      <3>3. j \in 1 .. Len(found) /\ Len(updates[c]) + j = i /\ i >= i
        BY <2>0, <2>2, <3>2
      <3> HIDE DEF j
      <3>4. updates'[c][i].block = found[j][1] /\ updates'[c][i].to = found[j][2]
        BY <1>1, <1>2, <3>1, <3>3, BroadcastTold
      <3>5. found[j][2] = block[found[j][1]]
        BY <1>2, <2>0, <3>3
      <3> QED
        BY <1>1, <3>3, <3>4, <3>5 DEF NewestFrom
    <2> QED
      BY <2>1, <2>2
  <1>12. ShownFresh'
    <2> SUFFICES ASSUME NEW c \in Clients, NEW k \in Shown(c), NEW b \in Blocks
                 PROVE  Fresh(c, b, k[b])' \/ b \in missed[c]
      BY <1>1, <1>5 DEF ShownFresh
    <2>1. listed[c]
      BY ShownListed
    <2>2. Fresh(c, b, k[b]) \/ b \in missed[c]
      BY DEF AgreeInv, ShownFresh
    <2> QED
      BY <1>1, <1>6, <1>7, <2>1, <2>2 DEF Fresh
  <1> QED
    BY <1>1, <1>8, <1>9, <1>10, <1>11, <1>12 DEF AgreeInv

(* A client handles an update: the one behind it, if any, is newer still. *)
LEMMA AgreeUpdate ==
  ASSUME TypeOK, SentOnce, AgreeInv, NEW c \in Clients, HandleUpdate(c)
  PROVE  AgreeInv'
  <1> DEFINE u == Head(updates[c])
             n == Len(updates[c])
  <1>1. /\ updates[c] # <<>> /\ updates' = [updates EXCEPT ![c] = Tail(@)]
        /\ UNCHANGED <<state, block, edits, main, changes, upd, listed, transfers>>
    BY DEF HandleUpdate, server, players
  <1>2. updates[c] \in Seq(Update) /\ updates \in [Clients -> Seq(Update)]
    BY DEF TypeOK, ClientsTypeOK
  <1>3. n \in Nat /\ DOMAIN updates[c] = 1 .. n /\ n # 0
    BY <1>1, <1>2, LenProperties, EmptySeq
  <1>4. /\ DOMAIN updates'[c] = 1 .. n - 1
        /\ \A i \in 1 .. n - 1 : updates'[c][i] = updates[c][i + 1]
        /\ u = updates[c][1] /\ u \in Update
    <2>1. /\ Tail(updates[c]) \in Seq(Update) /\ Len(Tail(updates[c])) = n - 1
          /\ \A i \in 1 .. n - 1 : Tail(updates[c])[i] = updates[c][i + 1]
          /\ u = updates[c][1] /\ u \in Update
      BY <1>1, <1>2, HeadTailProperties
    <2>2. DOMAIN Tail(updates[c]) = 1 .. n - 1
      BY <2>1, LenProperties
    <2> QED
      BY <1>1, <1>2, <2>1, <2>2
  <1> HIDE DEF n, u
  <1>5. \A d \in Clients : d # c => updates'[d] = updates[d]
    BY <1>1, <1>2
  <1>6. \A b : Announced(b)' <=> Announced(b)
    BY <1>1 DEF Announced
  <1>7. u.block \in Blocks /\ u.to \in Content /\ block[u.block] \in Content
    BY <1>4 DEF Update, TypeOK, ServerTypeOK, Chunk
  <1>8. \A d \in Clients : \A i, b : d # c /\ NewestFrom(d, i, b) => NewestFrom(d, i, b)'
    BY <1>1, <1>5 DEF NewestFrom
  <1>9. \A i \in 1 .. n - 1 : \A b : NewestFrom(c, i + 1, b) => NewestFrom(c, i, b)'
    <2> SUFFICES ASSUME NEW i \in 1 .. n - 1, NEW b, NEW j \in DOMAIN updates[c],
                        j >= i + 1, updates[c][j].block = b, updates[c][j].to = block[b]
                 PROVE  NewestFrom(c, i, b)'
      BY DEF NewestFrom
    <2>1. j - 1 \in 1 .. n - 1 /\ j - 1 >= i /\ (j - 1) + 1 = j
      BY <1>3
    <2>2. updates'[c][j - 1] = updates[c][j]
      BY <1>4, <2>1
    <2> QED
      BY <1>1, <1>4, <2>1, <2>2 DEF NewestFrom
  <1>10. \A b : NewestFrom(c, 1, b) => (u.block = b /\ u.to = block[b]) \/ NewestFrom(c, 1, b)'
    <2> SUFFICES ASSUME NEW b, NEW j \in DOMAIN updates[c], j # 1,
                        updates[c][j].block = b, updates[c][j].to = block[b]
                 PROVE  NewestFrom(c, 1, b)'
      BY <1>4 DEF NewestFrom
    <2>1. j - 1 \in 1 .. n - 1 /\ j - 1 >= 1 /\ (j - 1) + 1 = j
      BY <1>3
    <2>2. updates'[c][j - 1] = updates[c][j]
      BY <1>4, <2>1
    <2> QED
      BY <1>1, <1>4, <2>1, <2>2 DEF NewestFrom
  <1>11. \A b : b = u.block => Announced(b) \/ u.to = block[b] \/ NewestFrom(c, 1, b)'
    <2> SUFFICES ASSUME NEW b, b = u.block
                 PROVE  Announced(b) \/ u.to = block[b] \/ NewestFrom(c, 1, b)'
      OBVIOUS
    <2>1. 1 \in DOMAIN updates[c] /\ updates[c][1].block = b /\ b \in Blocks
      BY <1>3, <1>4, <1>7
    <2>2. Announced(b) \/ NewestFrom(c, 1, b)
      BY <2>1 DEF AgreeInv, UpdatesEndNewest
    <2> QED
      BY <1>10, <2>2
  <1>12. state = "Ready"
    BY <1>1 DEF AgreeInv, QuietUntilReady
  <1>13. \A d \in Clients : Copies(d)' = Copies(d)
    BY <1>1 DEF Copies, BeingSent
  <1>14. UpdatesEndNewest'
    <2> SUFFICES ASSUME NEW d \in Clients, NEW i \in DOMAIN updates'[d],
                        NEW b \in Blocks, updates'[d][i].block = b
                 PROVE  Announced(b)' \/ NewestFrom(d, i, b)'
      BY DEF UpdatesEndNewest
    <2>1. CASE d = c
      <3>1. i + 1 \in DOMAIN updates[c] /\ updates[c][i + 1].block = b
        BY <1>3, <1>4, <2>1
      <3>2. Announced(b) \/ NewestFrom(c, i + 1, b)
        BY <3>1 DEF AgreeInv, UpdatesEndNewest
      <3> QED
        BY <1>4, <1>6, <1>9, <2>1, <3>2
    <2>2. CASE d # c
      <3>1. Announced(b) \/ NewestFrom(d, i, b)
        BY <1>5, <2>2 DEF AgreeInv, UpdatesEndNewest
      <3> QED
        BY <1>6, <1>8, <2>2, <3>1
    <2> QED
      BY <2>1, <2>2
  <1>15. ShownFresh'
    <2> SUFFICES ASSUME NEW d \in Clients, NEW k \in Shown(d)', NEW b \in Blocks
                 PROVE  Fresh(d, b, k[b])' \/ b \in missed'[d]
      BY DEF ShownFresh
    <2>1. ASSUME d # c PROVE Fresh(d, b, k[b])' \/ b \in missed'[d]
      <3>1. view'[d] = view[d] /\ missed'[d] = missed[d]
        BY <2>1 DEF HandleUpdate, TypeOK, ClientsTypeOK
      <3>2. k \in Shown(d)
        BY <1>13, <3>1 DEF Shown, HasChunk
      <3>3. Fresh(d, b, k[b]) \/ b \in missed[d]
        BY <3>2 DEF AgreeInv, ShownFresh
      <3> QED
        BY <1>1, <1>6, <1>8, <2>1, <3>1, <3>3 DEF Fresh
    <2>2. ASSUME d = c, HasChunk(c) PROVE Fresh(d, b, k[b])' \/ b \in missed'[d]
      <3>1. /\ view' = [view EXCEPT ![c] = [view[c] EXCEPT ![u.block] = u.to]]
            /\ missed' = missed
        BY <2>2 DEF HandleUpdate, u
      <3>2. Copies(c) = {} /\ view[c] \in Chunk
        BY <2>2, ShownListed DEF HasChunk, TypeOK, ClientsTypeOK
      <3>3. k = [view[c] EXCEPT ![u.block] = u.to]
        BY <1>13, <2>2, <3>1, <3>2 DEF Shown, TypeOK, ClientsTypeOK
      <3>4. Fresh(c, b, view[c][b]) \/ b \in missed[c]
        BY <2>2 DEF AgreeInv, ShownFresh, Shown
      <3>5. CASE b = u.block
        <4>1. k[b] = u.to
          BY <1>7, <3>2, <3>3, <3>5 DEF Chunk
        <4> QED
          BY <1>1, <1>6, <1>11, <2>2, <3>5, <4>1 DEF Fresh
      <3>6. CASE b # u.block
        <4>1. k[b] = view[c][b]
          BY <3>2, <3>3, <3>6 DEF Chunk
        <4> QED
          BY <1>1, <1>6, <1>10, <2>2, <3>1, <3>4, <3>6, <4>1 DEF Fresh
      <3> QED
        BY <3>5, <3>6
    <2>3. ASSUME d = c, ~HasChunk(c) PROVE Fresh(d, b, k[b])' \/ b \in missed'[d]
      <3>1. /\ view' = view
            /\ missed' = [missed EXCEPT ![c] =
                 IF \E m \in Copies(c) : u.to > m[u.block] THEN @ \cup {u.block} ELSE @]
        BY <2>3 DEF HandleUpdate, u
      <3>2. k \in Copies(c) /\ k \in Shown(c)
        BY <1>13, <2>3, <3>1 DEF Shown, HasChunk
      <3>3. missed[c] \subseteq missed'[c]
        BY <3>1 DEF TypeOK, ClientsTypeOK
      <3>4. Fresh(c, b, k[b]) \/ b \in missed[c]
        BY <3>2 DEF AgreeInv, ShownFresh
      <3>5. CASE b = u.block /\ u.to = block[b]
        <4>1. k[b] \in Nat /\ block[b] \in Nat /\ k[b] <= block[b]
          BY <1>7, <3>2, <3>5, ShownListed, MapSyncAssumption
             DEF AgreeInv, CopiesOld, Chunk, Content
        <4>2. CASE k[b] = block[b]
          BY <1>1, <2>3, <4>2 DEF Fresh
        <4>3. CASE k[b] # block[b]
          <5>1. u.to > k[u.block]
            BY <3>5, <4>1, <4>3
          <5>2. b \in missed'[c]
            BY <3>1, <3>2, <3>5, <5>1 DEF TypeOK, ClientsTypeOK
          <5> QED
            BY <2>3, <5>2
        <4> QED
          BY <4>2, <4>3
      <3>6. CASE ~(b = u.block /\ u.to = block[b])
        BY <1>1, <1>6, <1>10, <2>3, <3>3, <3>4, <3>6 DEF Fresh
      <3> QED
        BY <3>5, <3>6
    <2> QED
      BY <2>1, <2>2, <2>3
  <1>16. UnlistedUntold'
    <2>1. listed[c]
      BY <1>1 DEF AgreeInv, UnlistedUntold, TypeOK, ClientsTypeOK
    <2> QED
      BY <1>1, <1>5, <2>1 DEF AgreeInv, UnlistedUntold
  <1>17. QuietUntilReady' /\ BlocksDated' /\ FoundCurrent' /\ CopiesOld'
    BY <1>1, <1>12, <1>13 DEF AgreeInv, QuietUntilReady, BlocksDated, FoundCurrent, CopiesOld
  <1> QED
    BY <1>1, <1>14, <1>15, <1>16, <1>17 DEF AgreeInv

(* The elements of a sequence with one more. *)
LEMMA Appended ==
  ASSUME NEW S, NEW q \in Seq(S), NEW x \in S
  PROVE  {Append(q, x)[i] : i \in DOMAIN Append(q, x)} = {q[i] : i \in DOMAIN q} \cup {x}
  <1>1. Len(q) \in Nat /\ DOMAIN q = 1 .. Len(q)
    BY LenProperties
  <1>2. /\ Append(q, x) \in Seq(S) /\ Len(Append(q, x)) = Len(q) + 1
        /\ \A i \in 1 .. Len(q) : Append(q, x)[i] = q[i]
        /\ Append(q, x)[Len(q) + 1] = x
    BY AppendProperties
  <1> DEFINE p == Append(q, x)
  <1>3. DOMAIN p = 1 .. Len(q) + 1
    BY <1>2, LenProperties
  <1> HIDE DEF p
  <1>4. \A i \in 1 .. Len(q) + 1 : i \in 1 .. Len(q) \/ i = Len(q) + 1
    BY <1>1
  <1>5. 1 .. Len(q) \subseteq DOMAIN p /\ Len(q) + 1 \in DOMAIN p
    BY <1>1, <1>3
  <1>6. /\ \A i \in 1 .. Len(q) : p[i] = q[i]
        /\ p[Len(q) + 1] = x
    BY <1>2 DEF p
  <1>7. {p[i] : i \in DOMAIN p} = {q[i] : i \in DOMAIN q} \cup {x}
    BY <1>1, <1>3, <1>4, <1>5, <1>6
  <1> QED
    BY <1>7 DEF p

(* A client receives its copy: it had none. *)
LEMMA AgreeTransfer ==
  ASSUME TypeOK, SentOnce, AgreeInv, NEW c \in Clients, HandleTransfer(c)
  PROVE  AgreeInv'
  <1>1. /\ transfers[c] # <<>> /\ transfers' = [transfers EXCEPT ![c] = Tail(@)]
        /\ UNCHANGED <<state, block, edits, main, changes, upd, listed, updates, missed>>
    BY DEF HandleTransfer, server, players, history
  <1>2. ~HasChunk(c)
    BY <1>1, ShownListed
  <1>3. view' = [view EXCEPT ![c] = Head(transfers[c])]
    BY <1>2 DEF HandleTransfer, Received
  <1>4. /\ Head(transfers[c]) = transfers[c][1] /\ 1 \in DOMAIN transfers[c]
        /\ \A i \in DOMAIN Tail(transfers[c]) :
             i + 1 \in DOMAIN transfers[c] /\ Tail(transfers[c])[i] = transfers[c][i + 1]
    <2>1. transfers[c] \in Seq(Chunk)
      BY DEF TypeOK, ClientsTypeOK
    <2>2. /\ Tail(transfers[c]) \in Seq(Chunk) /\ Len(Tail(transfers[c])) = Len(transfers[c]) - 1
          /\ \A i \in 1 .. Len(transfers[c]) - 1 : Tail(transfers[c])[i] = transfers[c][i + 1]
          /\ Head(transfers[c]) = transfers[c][1]
      BY <1>1, <2>1, HeadTailProperties
    <2>3. /\ Len(transfers[c]) \in Nat \ {0} /\ DOMAIN transfers[c] = 1 .. Len(transfers[c])
          /\ DOMAIN Tail(transfers[c]) = 1 .. Len(transfers[c]) - 1
      BY <1>1, <2>1, <2>2, LenProperties, EmptySeq
    <2> QED
      BY <2>2, <2>3
  <1>5. \A d \in Clients : Copies(d)' \subseteq Copies(d)
    <2>1. \A d \in Clients : BeingSent(d)' <=> BeingSent(d)
      BY <1>1 DEF BeingSent
    <2>2. \A d \in Clients : transfers'[d] = IF d = c THEN Tail(transfers[c]) ELSE transfers[d]
      BY <1>1 DEF TypeOK, ClientsTypeOK
    <2> QED
      BY <1>1, <1>4, <2>1, <2>2 DEF Copies
  <1>6. \A d \in Clients : Shown(d)' \subseteq Shown(d)
    <2>1. \A d \in Clients : view'[d] = IF d = c THEN Head(transfers[c]) ELSE view[d]
      BY <1>3 DEF TypeOK, ClientsTypeOK
    <2>2. Head(transfers[c]) \in Copies(c)
      BY <1>4 DEF Copies
    <2> QED
      BY <1>5, <2>1, <2>2 DEF Shown, HasChunk
  <1>7. \A b : Announced(b) => Announced(b)'
    BY <1>1 DEF Announced
  <1>8. /\ state' # "Ready" /\ main'.pc \in {"clear", "broadcast"} => main'.found = <<>>
        /\ FoundCurrent' /\ upd'.pc \in {"changes", "scan", "send"}
    BY <1>1 DEF AgreeInv, QuietUntilReady, FoundCurrent
  <1>9. block \in Chunk
    BY DEF TypeOK, ServerTypeOK
  <1> QED
    BY <1>1, <1>5, <1>6, <1>7, <1>8, <1>9, AgreeKeeps

(* The main thread between the write of an edit and its broadcast. *)
LEMMA AgreeHandler ==
  ASSUME TypeOK, ChangesReady, AgreeInv,
         EditNotify \/ EditCheck \/ EditFlush \/ EditClear
  PROVE  AgreeInv'
  <1>1. UNCHANGED <<state, block, edits, upd, listed, transfers, updates, view, missed>>
    BY DEF EditNotify, EditCheck, EditFlush, EditClear, server, players, network, history
  <1>2. \A c \in Clients : Shown(c)' = Shown(c) /\ Copies(c)' = Copies(c)
    BY <1>1 DEF Shown, Copies, HasChunk, BeingSent
  <1>3. block \in Chunk /\ changes \in Seq(Blocks) /\ DOMAIN changes = 1 .. Len(changes)
        /\ Len(changes) \in Nat
    BY LenProperties DEF TypeOK, ServerTypeOK
  <1> DEFINE Handled ==
        /\ state' # "Ready" /\ main'.pc \in {"clear", "broadcast"} => main'.found = <<>>
        /\ FoundCurrent'
        /\ \A b : Announced(b) => Announced(b)'
  <1>4. ASSUME EditNotify PROVE Handled
    <2>1. main.pc = "notify" /\ main' = [pc |-> "check"]
          /\ changes' = IF state = "Ready" THEN Append(changes, main.at) ELSE changes
      BY <1>4 DEF EditNotify
    <2>2. ASSUME state = "Ready"
          PROVE  \E i \in DOMAIN changes' : changes'[i] = main.at
      <3>1. main.at \in Blocks
        BY <2>1, Locals
      <3>2. /\ Append(changes, main.at) \in Seq(Blocks)
            /\ Len(Append(changes, main.at)) = Len(changes) + 1
            /\ Append(changes, main.at)[Len(changes) + 1] = main.at
        BY <1>3, <3>1, AppendProperties
      <3>3. Len(changes) + 1 \in DOMAIN Append(changes, main.at)
        BY <1>3, <3>2, LenProperties
      <3> QED
        BY <2>1, <2>2, <3>2, <3>3
    <2> QED
      BY <1>1, <2>1, <2>2 DEF FoundCurrent, Announced
  <1>5. ASSUME EditCheck PROVE Handled
    <2>1. /\ main.pc = "check" /\ changes' = changes
          /\ main' = IF changes = <<>> THEN MainIdle ELSE [pc |-> "flush"]
      BY <1>5 DEF EditCheck, server
    <2>2. changes = <<>> => DOMAIN changes = {}
      BY EmptySeq
    <2> QED
      BY <1>1, <2>1, <2>2 DEF FoundCurrent, Announced, MainIdle
  <1>6. ASSUME EditFlush PROVE Handled
    <2>1. main.pc = "flush" /\ main' = [pc |-> "clear", found |-> Flushed] /\ changes' = changes
      BY <1>6 DEF EditFlush, server
    <2>2. \A i \in DOMAIN changes : Flushed[i] = <<changes[i], block[changes[i]]>>
      BY DEF Flushed
    <2>3. DOMAIN Flushed = DOMAIN changes
      BY DEF Flushed
    <2>4. state # "Ready" => Flushed = <<>>
      <3>1. state # "Ready" => DOMAIN Flushed = {}
        BY <2>3, EmptySeq DEF ChangesReady
      <3>2. Flushed \in Found
        BY FlushedType DEF TypeOK
      <3>3. Len(Flushed) \in Nat /\ DOMAIN Flushed = 1 .. Len(Flushed) /\ Flushed \in Seq(Blocks \X Content)
        BY <3>2, LenProperties DEF Found
      <3>4. DOMAIN Flushed = {} => Len(Flushed) = 0
        BY <3>3
      <3> QED
        BY <3>1, <3>3, <3>4, EmptySeq
    <2>5. FoundCurrent'
      <3>1. \A i \in DOMAIN Flushed : Flushed[i][2] = block[Flushed[i][1]]
        BY <2>2, <2>3
      <3> QED
        BY <1>1, <2>1, <3>1 DEF FoundCurrent
    <2>6. \A b : Announced(b) => Announced(b)'
      <3> SUFFICES ASSUME NEW b, NEW i \in DOMAIN changes, changes[i] = b PROVE Announced(b)'
        BY <2>1 DEF Announced
      <3>1. main'.pc = "clear" /\ i \in DOMAIN main'.found /\ main'.found[i] = <<b, block'[b]>>
        BY <1>1, <2>1, <2>2, <2>3
      <3> QED
        BY <3>1 DEF Announced
    <2> QED
      BY <1>1, <2>1, <2>4, <2>5, <2>6
  <1>7. ASSUME EditClear PROVE Handled
    <2>1. main.pc = "clear" /\ main' = [main EXCEPT !.pc = "broadcast"]
      BY <1>7 DEF EditClear
    <2>2. main'.pc = "broadcast" /\ main'.found = main.found
      BY <2>1, Locals
    <2> QED
      BY <1>1, <2>1, <2>2 DEF AgreeInv, QuietUntilReady, FoundCurrent, Announced
  <1>8. Handled
    BY <1>4, <1>5, <1>6, <1>7
  <1> QED
    BY <1>1, <1>2, <1>3, <1>8, AgreeKeeps DEF AgreeInv

(* Until the updater races with an edit, every step keeps it. *)
LEMMA AgreeStep ==
  ASSUME TypeOK, SentOnce, FilledInv, raced \/ AgreeInv, [Next]_vars
  PROVE  (raced \/ AgreeInv)'
  <1> DEFINE P == (raced \/ AgreeInv)'
  <1>0. block \in Chunk /\ ChangesReady
    BY DEF TypeOK, ServerTypeOK, FilledInv
  <1>1. CASE raced
    <2>1. raced'
      BY <1>1 DEF Next, EmergerStep, EditStep, UpdaterStep, GenerateStart, GenerateBlock,
              GenerateEnd, JoinPlayer, EditWrite, EditNotify, EditCheck, EditFlush, EditClear,
              EditBroadcast, UpdaterCheck, UpdaterFlush, UpdaterClear, UpdaterBroadcast,
              UpdaterTake, UpdaterSkip, UpdaterSend, UpdaterSleep, HandleTransfer,
              HandleUpdate, vars, history
    <2> QED
      BY <2>1
  <1>2. CASE AgreeInv
    \* Nothing the clients have or the main thread announced is touched.
    <2>1. ASSUME UNCHANGED <<block, edits, changes, main, updates, view, missed>>,
                 upd'.pc \in {"changes", "scan", "send"},
                 state = "Ready" => state' = "Ready",
                 \A c \in Clients : listed[c] => listed'[c],
                 \A c \in Clients : Copies(c)' = Copies(c)
          PROVE  AgreeInv'
      <3>1. \A c \in Clients : Shown(c)' = Shown(c)
        BY <2>1 DEF Shown, HasChunk
      <3>2. /\ state' # "Ready" /\ main'.pc \in {"clear", "broadcast"} => main'.found = <<>>
            /\ FoundCurrent'
        BY <1>2, <2>1 DEF AgreeInv, QuietUntilReady, FoundCurrent
      <3>3. \A b : Announced(b) => Announced(b)'
        BY <2>1 DEF Announced
      <3> QED
        BY <1>0, <1>2, <2>1, <3>1, <3>2, <3>3, AgreeKeeps
    <2>2. upd.pc \in {"changes", "scan", "send"}
      BY <1>2 DEF AgreeInv
    <2> USE DEF server, players, network, history
    <2>3. ASSUME GenerateStart \/ GenerateEnd PROVE P
      BY <2>1, <2>2, <2>3 DEF GenerateStart, GenerateEnd, Copies, BeingSent
    <2>4. ASSUME NEW b \in Blocks, GenerateBlock(b) PROVE P
      BY <1>2, <2>4, AgreeGenerate
    <2>5. ASSUME NEW c \in Clients, JoinPlayer(c) PROVE P
      <3>1. \A d \in Clients : listed[d] => listed'[d]
        BY <2>5 DEF JoinPlayer, TypeOK, ClientsTypeOK
      <3> QED
        BY <2>1, <2>2, <2>5, <3>1 DEF JoinPlayer, Copies, BeingSent
    <2>6. ASSUME NEW b \in Blocks, EditWrite(b) PROVE P
      BY <1>2, <2>6, AgreeWrite
    <2>7. ASSUME EditNotify \/ EditCheck \/ EditFlush \/ EditClear PROVE P
      BY <1>0, <1>2, <2>7, AgreeHandler
    <2>8. ASSUME EditBroadcast PROVE P
      BY <1>2, <2>8, AgreeBroadcast
    <2>9. ASSUME UpdaterCheck PROVE P
      <3>1. CASE changes # <<>>
        BY <2>9, <3>1 DEF UpdaterCheck
      <3>2. CASE changes = <<>>
        BY <2>1, <2>9, <3>2 DEF UpdaterCheck, UpdAt, Copies, BeingSent
      <3> QED
        BY <3>1, <3>2
    <2>10. ASSUME UpdaterFlush \/ UpdaterClear \/ UpdaterBroadcast PROVE P
      BY <2>2, <2>10 DEF UpdaterFlush, UpdaterClear, UpdaterBroadcast
    <2>11. ASSUME NEW c \in Clients, UpdaterTake(c) PROVE P
      <3>1. /\ upd.pc = "scan" /\ state = "Ready"
            /\ upd' = [pc |-> "send", to |-> c, copy |-> block]
            /\ UNCHANGED <<state, block, edits, changes, main, listed, transfers, updates, view, missed>>
        BY <2>11 DEF UpdaterTake, CanTake, Written
      <3>2. \A d \in Clients : \A k \in Copies(d)' : k \in Copies(d) \/ k = block
        BY <3>1 DEF Copies, BeingSent
      <3>3. \A d \in Clients : \A k \in Shown(d)' : k \in Shown(d) \/ k = block
        BY <3>1, <3>2 DEF Shown, HasChunk
      <3>4. /\ state' # "Ready" /\ main'.pc \in {"clear", "broadcast"} => main'.found = <<>>
            /\ FoundCurrent' /\ upd'.pc = "send"
        BY <1>2, <3>1 DEF AgreeInv, FoundCurrent
      <3>5. \A b : Announced(b) => Announced(b)'
        BY <3>1 DEF Announced
      <3> QED
        BY <1>0, <1>2, <3>1, <3>2, <3>3, <3>4, <3>5, AgreeKeeps
    <2>12. ASSUME NEW c \in Clients, UpdaterSkip(c) PROVE P
      BY <2>1, <2>2, <2>12 DEF UpdaterSkip, Copies, BeingSent
    <2>13. ASSUME UpdaterSend PROVE P
      <3> DEFINE c == upd.to
      <3>1. /\ upd.pc = "send" /\ c \in Clients /\ upd.copy \in Chunk
            /\ transfers' = [transfers EXCEPT ![c] = Append(@, upd.copy)]
            /\ upd' = UpdAt("scan") /\ transfers[c] \in Seq(Chunk)
        BY <2>13, Locals DEF UpdaterSend, TypeOK, ClientsTypeOK
      <3>2. \A d \in Clients : ~BeingSent(d)' /\ (BeingSent(d) <=> d = c)
        BY <3>1 DEF BeingSent, UpdAt
      <3>3. \A d \in Clients :
              transfers'[d] = IF d = c THEN Append(transfers[c], upd.copy) ELSE transfers[d]
        BY <3>1 DEF TypeOK, ClientsTypeOK
      <3>4. {transfers'[c][i] : i \in DOMAIN transfers'[c]} =
              {transfers[c][i] : i \in DOMAIN transfers[c]} \cup {upd.copy}
        <4> DEFINE q == transfers[c]
                   x == upd.copy
        <4>1. transfers'[c] = Append(q, x) /\ q \in Seq(Chunk) /\ x \in Chunk
          BY <3>1, <3>3
        <4> HIDE DEF q, x
        <4>2. {Append(q, x)[i] : i \in DOMAIN Append(q, x)} = {q[i] : i \in DOMAIN q} \cup {x}
          BY <4>1, Appended
        <4> QED
          BY <4>1, <4>2 DEF q, x
      <3>5. \A d \in Clients : Copies(d)' = Copies(d)
        BY <3>2, <3>3, <3>4 DEF Copies
      <3> QED
        BY <2>1, <2>13, <3>5 DEF UpdaterSend, UpdAt
    <2>14. ASSUME UpdaterSleep PROVE P
      BY <2>1, <2>14 DEF UpdaterSleep, UpdAt, Copies, BeingSent
    <2>15. ASSUME NEW c \in Clients, HandleTransfer(c) PROVE P
      BY <1>2, <2>15, AgreeTransfer
    <2>16. ASSUME NEW c \in Clients, HandleUpdate(c) PROVE P
      BY <1>2, <2>16, AgreeUpdate
    <2>17. ASSUME UNCHANGED vars PROVE P
      BY <2>1, <2>2, <2>17 DEF vars, Copies, BeingSent
    <2> HIDE DEF P
    <2> QED
      BY <2>3, <2>4, <2>5, <2>6, <2>7, <2>8, <2>9, <2>10, <2>11, <2>12, <2>13, <2>14,
         <2>15, <2>16, <2>17, StepCases DEF P
  <1> QED
    BY <1>1, <1>2

(* Whatever the interleaving of edits, generation, joins and transfers: unless the *)
(* updater has flushed in a race with an edit, a client with nothing under way has *)
(* the server's chunk, but for what it missed while its copy was on its way.       *)
THEOREM ClientsAgree == Safety => []AgreeWhenSettled
  <1>1. Init => AgreeInv
    <2> SUFFICES ASSUME Init PROVE AgreeInv
      OBVIOUS
    <2>1. /\ main = MainIdle /\ upd = UpdAt("changes") /\ edits = 0
          /\ block = [b \in Blocks |-> Cleared] /\ view = [c \in Clients |-> NoChunk]
          /\ \A c \in Clients : updates[c] = <<>> /\ transfers[c] = <<>>
      BY DEF Init
    <2>2. DOMAIN <<>> = {}
      BY EmptySeq
    <2>3. \A c \in Clients : Shown(c) = {} /\ Copies(c) = {}
      BY <2>1, <2>2 DEF Shown, Copies, HasChunk, BeingSent, UpdAt
    <2>4. BlocksDated
      BY <2>1 DEF BlocksDated, Cleared, Terrain
    <2> QED
      BY <2>1, <2>2, <2>3, <2>4
         DEF AgreeInv, QuietUntilReady, UnlistedUntold, FoundCurrent, CopiesOld,
             UpdatesEndNewest, ShownFresh, MainIdle, UpdAt
  <1>2. TypeOK /\ SentOnce /\ FilledInv /\ (raced \/ AgreeInv) /\ [Next]_vars
          => (raced \/ AgreeInv)'
    BY AgreeStep
  <1>3. raced \/ AgreeInv => AgreeWhenSettled
    <2> SUFFICES ASSUME AgreeInv, NEW c \in Clients, Settled(c), NEW b \in Blocks
                 PROVE  view[c][b] = block[b] \/ b \in missed[c]
      BY DEF AgreeWhenSettled, Agrees
    <2>1. view[c] \in Shown(c)
      BY DEF Settled, Shown
    <2>2. Fresh(c, b, view[c][b]) \/ b \in missed[c]
      BY <2>1 DEF AgreeInv, ShownFresh
    <2>3. ~Announced(b)
      BY DEF Settled, Announced, MainIdle
    <2>4. ~NewestFrom(c, 1, b)
      BY EmptySeq DEF Settled, NewestFrom
    <2> QED
      BY <2>2, <2>3, <2>4 DEF Fresh
  <1> QED
    BY <1>1, <1>2, <1>3, MapSyncTypes, ChunkSentOnce, FilledInvariant, PTL DEF Safety
=============================================================================
