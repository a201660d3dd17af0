------------------------------ MODULE MapSync -------------------------------
(***************************************************************************)
(* One chunk of the world and the clients that see it: the edits the       *)
(* server's main thread handles (Server.cpp handlePlayerMapUpdate), the    *)
(* updater thread that flushes changes and sends pending chunks            *)
(* (chunkUpdater, sendChunks), the emerger thread that generates the chunk *)
(* (CaveGenerator), Chunk's change list (ChangeHelper), and the clients'   *)
(* BlockUpdateHandler and ChunkTransferHandler.                            *)
(*                                                                         *)
(* No lock protects the chunk, its state or its change list: each step of  *)
(* a thread is one access to them, and steps interleave freely. Updates    *)
(* travel on channel MapUpdate and the chunk on MapTransfer: each in       *)
(* order, one not with respect to the other (ENet, external).              *)
(***************************************************************************)
EXTENDS Naturals, Sequences, FiniteSets

CONSTANTS
  Clients,
  Blocks,    \* positions in the chunk
  MaxEdits   \* bound: how many edits are made

ASSUME MapSyncAssumption ==
  /\ IsFiniteSet(Clients)
  /\ IsFiniteSet(Blocks) /\ Blocks # {}
  /\ MaxEdits \in Nat

\* What a block can be: cleared memory, generated terrain, or what the n-th edit put
\* there (each edit is told apart from every other).
Cleared == 0
Terrain == 1
Content == 0 .. (MaxEdits + 1)

VARIABLES
  \* the server's chunk
  state,      \* Chunk::state
  block,      \* Chunk::data
  changes,    \* CH.m_changes
  edits,      \* how many edits have been made
  toGenerate, \* what the emerger has still to generate
  \* the server's threads
  main,       \* the main thread, in handlePlayerMapUpdate
  upd,        \* the updater thread
  visited,    \* the players the updater has dealt with in this round
  \* what the server keeps of each client
  listed,     \* it is in G.players
  pending,    \* the chunk is in its pendingChunks
  \* what is under way to it, and what it has
  transfers,  \* channel MapTransfer
  updates,    \* channel MapUpdate
  view,       \* its copy of the chunk
  \* history
  missed,     \* blocks of which it ignored an update newer than the copy it will get
  overtaken,  \* clients that handled an update before the transfer sent before it
  raced       \* the updater has found changes to flush

server == <<state, block, changes, edits, toGenerate>>
players == <<listed, pending>>
network == <<transfers, updates>>
history == <<missed, overtaken, raced>>
vars == <<server, main, upd, visited, players, network, view, history>>

Chunk == [Blocks -> Content]
NoChunk == <<>>
Update == [block : Blocks, to : Content, after : BOOLEAN]

\* Threads: where they are, and their locals.
MainIdle == [pc |-> "idle"]
UpdAt(pc) == [pc |-> pc]

HasChunk(c) == view[c] # NoChunk

ServerTypeOK ==
  /\ state \in {"Unavailable", "Generating", "Ready"}
  /\ block \in Chunk
  /\ changes \in Seq(Blocks)
  /\ Len(changes) <= 1
  /\ edits \in 0 .. MaxEdits
  /\ toGenerate \subseteq Blocks

Found == Seq(Blocks \X Content)
MainType ==
  {MainIdle} \cup [pc : {"notify"}, at : Blocks] \cup [pc : {"check", "flush"}]
    \cup [pc : {"clear", "broadcast"}, found : Found]
UpdType ==
  [pc : {"changes", "flush", "scan"}] \cup [pc : {"clear", "broadcast"}, found : Found]
    \cup [pc : {"send"}, to : Clients, copy : Chunk]

ClientsTypeOK ==
  /\ visited \subseteq Clients
  /\ listed \in [Clients -> BOOLEAN]
  /\ pending \in [Clients -> BOOLEAN]
  /\ transfers \in [Clients -> Seq(Chunk)]
  /\ updates \in [Clients -> Seq(Update)]
  /\ view \in [Clients -> Chunk \cup {NoChunk}]
  /\ missed \in [Clients -> SUBSET Blocks]
  /\ overtaken \subseteq Clients
  /\ raced \in BOOLEAN

\* Type invariant. At most one change is ever noted at a time.
TypeOK == ServerTypeOK /\ main \in MainType /\ upd \in UpdType /\ ClientsTypeOK

Init ==
  /\ state = "Unavailable"
  /\ block = [b \in Blocks |-> Cleared]
  /\ changes = <<>>
  /\ edits = 0
  /\ toGenerate = Blocks
  /\ main = MainIdle
  /\ upd = UpdAt("changes")
  /\ visited = {}
  /\ listed = [c \in Clients |-> FALSE]
  /\ pending = [c \in Clients |-> FALSE]
  /\ transfers = [c \in Clients |-> <<>>]
  /\ updates = [c \in Clients |-> <<>>]
  /\ view = [c \in Clients |-> NoChunk]
  /\ missed = [c \in Clients |-> {}]
  /\ overtaken = {}
  /\ raced = FALSE

----------------------------------------------------------------------------
(* The emerger: CaveGenerator::Generate, called once for the chunk. *)

GenerateStart ==
  /\ state = "Unavailable"
  /\ state' = "Generating"
  /\ UNCHANGED <<block, changes, edits, toGenerate,
                 main, upd, visited, players, network, view, history>>

\* setBlock on each block of the chunk; a chunk that is not Ready notes no change.
GenerateBlock(b) ==
  /\ state = "Generating"
  /\ b \in toGenerate
  /\ block' = [block EXCEPT ![b] = Terrain]
  /\ toGenerate' = toGenerate \ {b}
  /\ UNCHANGED <<state, changes, edits, main, upd, visited, players, network, view, history>>

GenerateEnd_NotReady ==
  /\ state = "Generating"
  /\ toGenerate = {}
  /\ UNCHANGED vars

GenerateEnd ==
  /\ state = "Generating"
  /\ toGenerate = {}
  /\ state' = "Ready"
  /\ UNCHANGED <<block, changes, edits, toGenerate,
                 main, upd, visited, players, network, view, history>>

----------------------------------------------------------------------------
(* Joint parts of the two threads that flush: ChangeHelper::flush and Broadcast. *)

\* flush, the loop: what the changed blocks are by now.
Flushed == [i \in DOMAIN changes |-> <<changes[i], block[changes[i]]>>]

BeingSent(c) == upd.pc = "send" /\ upd.to = c

\* The chunk has left for this client; any copy of it the client handles later is older.
Transferred(c) == listed[c] /\ ~pending[c] /\ ~BeingSent(c)

\* NetHelper::Broadcast of one BlockUpdateNotify with all that was found.
Broadcast(found) ==
  updates' = [c \in Clients |->
    IF listed[c]
      THEN updates[c] \o [i \in DOMAIN found |->
             [block |-> found[i][1], to |-> found[i][2], after |-> Transferred(c)]]
      ELSE updates[c]]

----------------------------------------------------------------------------
(* The server's main thread. *)

\* handlePlayerJoin: a new player, with the chunk scheduled for it.
JoinPlayer(c) ==
  /\ main = MainIdle
  /\ ~listed[c]
  /\ listed' = [listed EXCEPT ![c] = TRUE]
  /\ pending' = [pending EXCEPT ![c] = TRUE]
  /\ UNCHANGED <<server, main, upd, visited, network, view, history>>

\* handlePlayerMapUpdate, a Place or a Break: setBlock writes the block ...
EditWrite(b) ==
  /\ main = MainIdle
  /\ edits < MaxEdits
  /\ \E c \in Clients : listed[c]
  /\ edits' = edits + 1
  /\ block' = [block EXCEPT ![b] = Terrain + edits']
  /\ main' = [pc |-> "notify", at |-> b]
  /\ UNCHANGED <<state, changes, toGenerate,
                 upd, visited, players, network, view, history>>

EditNotify_Silent ==
  /\ main.pc = "notify"
  /\ main' = [pc |-> "check"]
  /\ UNCHANGED <<server, upd, visited, players, network, view, history>>

\* ... and notifyChange notes it, if the chunk is Ready ...
EditNotify ==
  /\ main.pc = "notify"
  /\ changes' = IF state = "Ready" THEN Append(changes, main.at) ELSE changes
  /\ main' = [pc |-> "check"]
  /\ UNCHANGED <<state, block, edits, toGenerate,
                 upd, visited, players, network, view, history>>

\* ... then: are there changes to tell everybody about?
EditCheck ==
  /\ main.pc = "check"
  /\ main' = IF changes = <<>> THEN MainIdle ELSE [pc |-> "flush"]
  /\ UNCHANGED <<server, upd, visited, players, network, view, history>>

EditFlush ==
  /\ main.pc = "flush"
  /\ main' = [pc |-> "clear", found |-> Flushed]
  /\ UNCHANGED <<server, upd, visited, players, network, view, history>>

EditClear_Not ==
  /\ main.pc = "clear"
  /\ main' = [main EXCEPT !.pc = "broadcast"]
  /\ UNCHANGED <<server, upd, visited, players, network, view, history>>

EditClear ==
  /\ main.pc = "clear"
  /\ changes' = <<>>
  /\ main' = [main EXCEPT !.pc = "broadcast"]
  /\ UNCHANGED <<state, block, edits, toGenerate,
                 upd, visited, players, network, view, history>>

EditBroadcast ==
  /\ main.pc = "broadcast"
  /\ Broadcast(main.found)
  /\ main' = MainIdle
  /\ UNCHANGED <<server, upd, visited, players, transfers, view, history>>

----------------------------------------------------------------------------
(* The updater thread: flush, then one round over the players, then sleep. *)

UpdaterCheck ==
  /\ upd.pc = "changes"
  /\ upd' = UpdAt(IF changes = <<>> THEN "scan" ELSE "flush")
  /\ raced' = (raced \/ changes # <<>>)
  /\ UNCHANGED <<server, main, visited, players, network, view, missed, overtaken>>

UpdaterFlush ==
  /\ upd.pc = "flush"
  /\ upd' = [pc |-> "clear", found |-> Flushed]
  /\ UNCHANGED <<server, main, visited, players, network, view, history>>

UpdaterClear ==
  /\ upd.pc = "clear"
  /\ changes' = <<>>
  /\ upd' = [upd EXCEPT !.pc = "broadcast"]
  /\ UNCHANGED <<state, block, edits, toGenerate,
                 main, visited, players, network, view, history>>

UpdaterBroadcast ==
  /\ upd.pc = "broadcast"
  /\ Broadcast(upd.found)
  /\ upd' = UpdAt("scan")
  /\ UNCHANGED <<server, main, visited, players, transfers, view, history>>

\* Chunk::write: the copy is of what the blocks hold at this moment.
Written == block

CanTake_AnyState(c) == pending[c]

\* The chunk is pending for this player, and Ready.
CanTake(c) == pending[c] /\ state = "Ready"

UpdaterTake_Keep(c) ==
  /\ upd.pc = "scan"
  /\ c \notin visited
  /\ CanTake(c)
  /\ visited' = visited \cup {c}
  /\ upd' = [pc |-> "send", to |-> c, copy |-> Written]
  /\ UNCHANGED <<server, main, listed, pending, network, view, history>>

\* A Ready chunk leaves the pending list and is serialised (Chunk::write) ...
UpdaterTake(c) ==
  /\ upd.pc = "scan"
  /\ c \notin visited
  /\ CanTake(c)
  /\ visited' = visited \cup {c}
  /\ pending' = [pending EXCEPT ![c] = FALSE]
  /\ upd' = [pc |-> "send", to |-> c, copy |-> Written]
  /\ UNCHANGED <<server, main, listed, network, view, history>>

\* ... and then sent.
UpdaterSend ==
  /\ upd.pc = "send"
  /\ transfers' = [transfers EXCEPT ![upd.to] = Append(@, upd.copy)]
  /\ upd' = UpdAt("scan")
  /\ UNCHANGED <<server, main, visited, players, updates, view, history>>

\* Nothing to send to this player now: a message with no chunk leaves, which its
\* handler reads to no effect.
UpdaterSkip(c) ==
  /\ upd.pc = "scan"
  /\ listed[c]
  /\ c \notin visited
  /\ ~CanTake(c)
  /\ visited' = visited \cup {c}
  /\ UNCHANGED <<server, main, upd, players, network, view, history>>

\* The end of the round; one second later the next begins.
UpdaterSleep ==
  /\ upd.pc = "scan"
  /\ \A c \in Clients : listed[c] => c \in visited
  /\ visited' = {}
  /\ upd' = UpdAt("changes")
  /\ UNCHANGED <<server, main, players, network, view, history>>

----------------------------------------------------------------------------
(* The clients. *)

\* Chunk::read: the client's chunk holds what the message does, and is Ready.
Received(c) == Head(transfers[c])

\* ChunkTransferHandler: the world's map has the chunk from now on; emplace would not
\* let a second one take its place.
HandleTransfer(c) ==
  /\ transfers[c] # <<>>
  /\ view' = [view EXCEPT ![c] = IF HasChunk(c) THEN @ ELSE Received(c)]
  /\ transfers' = [transfers EXCEPT ![c] = Tail(@)]
  /\ UNCHANGED <<server, main, upd, visited, players, updates, history>>

\* The copy on its way to a client that has none yet.
Copies(c) ==
  {transfers[c][i] : i \in DOMAIN transfers[c]}
    \cup (IF BeingSent(c) THEN {upd.copy} ELSE {})

\* BlockUpdateHandler: an update of a chunk the client does not have is ignored.
HandleUpdate(c) ==
  /\ updates[c] # <<>>
  /\ updates' = [updates EXCEPT ![c] = Tail(@)]
  /\ LET u == Head(updates[c])
     IN IF HasChunk(c)
          THEN /\ view' = [view EXCEPT ![c][u.block] = u.to]
               /\ UNCHANGED <<missed, overtaken>>
          ELSE /\ missed' = [missed EXCEPT ![c] =
                    IF \E k \in Copies(c) : u.to > k[u.block] THEN @ \cup {u.block} ELSE @]
               /\ overtaken' = IF u.after THEN overtaken \cup {c} ELSE overtaken
               /\ UNCHANGED view
  /\ UNCHANGED <<server, main, upd, visited, players, transfers, raced>>

----------------------------------------------------------------------------
EmergerStep == GenerateStart \/ (\E b \in Blocks : GenerateBlock(b)) \/ GenerateEnd
EditStep == EditNotify \/ EditCheck \/ EditFlush \/ EditClear \/ EditBroadcast
UpdaterStep ==
  \/ UpdaterCheck
  \/ UpdaterFlush
  \/ UpdaterClear
  \/ UpdaterBroadcast
  \/ \E c \in Clients : UpdaterTake(c) \/ UpdaterSkip(c)
  \/ UpdaterSend
  \/ UpdaterSleep

Next ==
  \/ EmergerStep
  \/ \E c \in Clients : JoinPlayer(c)
  \/ \E b \in Blocks : EditWrite(b)
  \/ EditStep
  \/ UpdaterStep
  \/ \E c \in Clients : HandleTransfer(c) \/ HandleUpdate(c)

\* Every thread runs and ENet delivers; nobody has to join or edit.
Fairness ==
  /\ WF_vars(EmergerStep)
  /\ WF_vars(EditStep)
  /\ WF_vars(UpdaterStep)
  /\ \A c \in Clients : WF_vars(HandleTransfer(c) \/ HandleUpdate(c))

Safety == Init /\ [][Next]_vars

Spec == Safety /\ Fairness

----------------------------------------------------------------------------
(* Properties *)

\* The change list is only ever non-empty inside the handler of an edit, which empties
\* it before it returns: the flush in chunkUpdater finds something only when it races
\* with that handler.
ChangesOnlyInHandler == changes # <<>> => main.pc \in {"check", "flush", "clear"}

One(condition) == IF condition THEN 1 ELSE 0

\* What a player was promised on joining is in exactly one place: pending, being sent,
\* under way, or received. The updater loses no chunk and sends none twice.
SentOnce ==
  \A c \in Clients :
    One(pending[c]) + One(BeingSent(c)) + Len(transfers[c]) + One(HasChunk(c)) = One(listed[c])

\* No client is shown memory the generator has not filled: a chunk is sent only after
\* it was Ready, and no edit makes it leave earlier.
NothingUngenerated ==
  \A c \in Clients : HasChunk(c) => \A b \in Blocks : view[c][b] # Cleared

\* Has client c nothing more to hear about?
Settled(c) ==
  /\ HasChunk(c)
  /\ updates[c] = <<>>
  /\ main = MainIdle
  /\ upd.pc \notin {"flush", "clear", "broadcast"}

Agrees(c) == \A b \in Blocks : view[c][b] = block[b] \/ b \in missed[c]

\* When nothing is under way, a client sees the server's chunk, but for the blocks it
\* missed an update of between the serialisation of its copy and its arrival; unless
\* the updater has flushed in a race with an edit. There is no third way for a client
\* to go stale, however edits, generation, joins and transfers interleave.
AgreeWhenSettled == raced \/ \A c \in Clients : Settled(c) => Agrees(c)

\* And all comes to rest: once the last edit is made, whoever joined gets its chunk, and
\* agrees from some moment on, with the same two exceptions.
EventuallyAgree ==
  <>[]\A c \in Clients : listed[c] => HasChunk(c) /\ (raced \/ Agrees(c))

\* Messages sent to a client one after the other are handled in that order, whichever
\* channels they use.
DeliveredInSequence == overtaken = {}
=============================================================================
