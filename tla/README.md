# Diggler, in TLA+

Diggler is a networked voxel game: a server owns worlds made of 16x16x16-block
chunks, generates them on worker threads, lets players join over ENet, applies their
edits and tells everybody; a client mirrors the list of players and the chunks it was
sent. This directory models the parts of it in which threads, messages and object
lifetimes meet, checks the models with TLC on small instances, and proves the most
important invariants for instances of any size with TLAPS.

Paths below are relative to the repository's `src/` directory of C++ code.

## 1. Inventory

### The server process

| Component | State | Operations | Talks to |
|---|---|---|---|
| Worker pool (`util/Worker.hpp`, `util/WorkerPool.hpp`) | `taskQueue`, its mutex and condition variable; per worker a thread and `keepRunning` | construction, `addTask`, `Worker::run`, destruction | the emerger derives its workers from it |
| Emerger and generator (`world/Emerger`, `CaveGenerator`) | the pool's queue of weak chunk references | `queue`, `processTask` | called by `World::getChunk` of any thread; writes chunks |
| Sessions (`Server`, `PlayerList`, `Player`) | `G.players` (a vector), session ids | join, quit, disconnect, death, delayed respawn, chat, move | main thread, one detached thread per death; broadcasts |
| Map (`Server`, `Chunk`) | per chunk `state`, `data`, change list `CH`; per player `pendingChunks` | Place and Break, flush, broadcast, `schedSendChunk`, `sendChunks` | main thread and the `chunkUpdater` thread, no lock |
| Network (`network/Network`) | `Host`, its `Peer` objects, the peers to delete | `recv`, `send`, connection and disconnection | ENet, which is external |
| Stores (`World`, `Universe`) | maps of weak references to chunks and worlds | `getChunk`, `getNewEmptyChunk`, `getBlockId`, `refresh`, `getLoadWorld`, `createWorld` | everybody |
| Registry (`content/Registry`) | block definitions, names, ids | registration; `isTransparent`, `isFaceVisible` | start-up; meshing |

### The client process

| Component | State | Operations | Talks to |
|---|---|---|---|
| Window and states (`GameWindow`, `states/`) | the current and the next state, the connection thread's flags | connect, ask to join, wait, play, show a message, stop | network, handlers |
| Input (`states/GameState`, `Chatbox`, `LocalPlayer`) | chat line, menu, movement flags, cursor | keys, characters, buttons, as GLFW reports them | the window, the network |
| Message handlers (`network/client/`) | the client's player list and world | one `handle` per message type | called once a frame |
| Chunks and meshes (`Chunk`, `render/gl/WorldRenderer`) | blocks, compressed or not, dirty flag, vertex and index buffers | `read`, `setBlock`, `notifyChange`, `imcCompress`, `imcUncompress`, `updateClient`, `render` | six neighbours, the registry |
| User interface (`ui/Manager`, `ui/Element`, `EscMenu`) | the element under the cursor, each element's visibility and area | keys, characters, buttons, wheel and motion, before the state gets them | the window; `GameState` shows and hides elements |
| Drawing, physics, audio, widgets | positions, sounds, layouts | drawing, movement | OpenGL, OpenAL |

### Shared code

Message codecs (`network/msgtypes/`: a `writeToMsg` and a `readFromMsg` each) over byte
streams (`io/`: a buffer, a cursor and a length), integer helpers and random
numbers (`platform/Math.hpp`, `platform/FastRand`), texture packing
(`util/TexturePacker`), memory accounting (`util/MemoryTracker`), asset metadata
(`content/`), wrappers of libsodium (`crypto/`), logging and files.

### How the components interact

1. A join (`Server::handlePlayerJoin`) adds a player, tells it who is there, tells the
   others, and schedules the first chunks in its `pendingChunks`.
2. Getting a chunk that does not exist creates it and queues it to the emerger, whose
   worker generates it and sets its state to `Ready`.
3. Once a second `chunkUpdater` flushes the chunks' change lists to everybody, and
   sends each player those of its pending chunks that are `Ready`.
4. An edit writes a block, which notes a change on a `Ready` chunk; its handler flushes
   the change list and broadcasts it.
5. A client that receives a chunk or an update marks the chunk dirty, and those of its
   neighbours whose faces may change; a frame compresses the chunks nobody has looked
   into for two seconds, and meshes again the dirty ones it shows.
6. A disconnect reported by ENet puts the `Peer` in a list in `recv`, and back in the
   main loop removes the player of that peer; meanwhile the other threads may still send
   to it. The `Peer` object itself is deleted by the next `recv`.

### What is hard

- Threads that share data with no lock: the chunk's change list, data and state; the
  player vector; a player's list of pending chunks.
- A condition variable notified outside its mutex, and a stop flag each worker also
  writes itself.
- Messages on several channels, ordered inside one and not between two.
- Clients that crash, are refused, or give up while their request is under way;
  broadcasts that reach a client before the answer it waits for.
- A connection thread that shares plain flags with the window's loop, which may be
  closed at any moment, and a wait computed with unsigned times.
- A keyboard shared by a game, a chat line and a menu, which hear only some of the
  presses and releases.
- Meshes that depend on seven chunks, which arrive and change in any order.
- Messages whose layout only their writer and their reader know, with counts in one, two
  or four bytes, optional fields, and lengths filled in behind what follows them.
- Objects that outlive or die before the pointers to them: `Peer`s, reused ENet slots,
  weak references to chunks and worlds.

### What makes each component correct

| Component | Properties |
|---|---|
| Worker pool | FIFO, each task once; never asleep on work; destruction ends |
| Sessions | one player per name, session, peer and slot; pointers to peers that exist only; every client's list converges to the server's; the silent go; the dead come back |
| Map | every player gets each chunk exactly once, never before it is generated; a client that has nothing left to hear shows what the server has; no pending chunk is skipped, dropped or uncounted |
| Network | a `Peer` is used only while it exists; `recv` keeps its time limit |
| Stores | one live chunk where the map finds one; a lookup that loads gives a chunk |
| Window and states | the thread joined before its state goes; one join; failures that are real; sends to live peers; an end |
| Input | one reader of the keyboard; movement only while a key is down; the cursor free when it is needed |
| Chunks and meshes | a chunk that is not dirty has the mesh of its blocks, drawn whole if its indices can be counted; a mesh fits its buffers |
| Messages | what is read is what was written, field for field, where the two ends agree on the layout; reading does not throw |
| User interface | a hidden element gets no input |
| Helpers | `divrd` and `rmod` recompose every integer, negative ones too |

PROJECT.json lists every hazard met at the line where it bites, with the properties
that cover it or the reason why none does.

## 2. Modules

| Module | Models | Holds |
|---|---|---|
| `TaskPool` | what the pool promises, with no threads | abstract specification |
| `WorkerPool` | `Worker`, `WorkerPool`, `Emerger::Worker` | implements `TaskPool` |
| `Sessions` | joins, quits, time-outs, deaths, peers and clients | invariants, liveness |
| `MapSync` | one chunk, its generation, its edits, its way to the clients | invariants, liveness, one divergence |
| `ChunkService` | many chunks: the map of weak references, the emerger's queue, pending lists, batches | invariants, liveness; a client of `TaskPool`; one bug |
| `GameInput` | keys, characters and buttons of a running game | used by `ClientStates` |
| `ClientStates` | the client's window, its states, the connection thread, `recv`'s time limit | invariants, liveness, one divergence |
| `UiInput` | the user interface's manager in front of `GameInput` | one divergence |
| `Messages` | buffers, codecs, and a message's way from `writeToMsg` to `readFromMsg` | invariants |
| `CoordMath` | `divrd` and `rmod` | used by `ChunkMesh` |
| `ChunkMesh` | the client's chunks, their dirty marks and meshes | invariants |
| `*_proofs` | | theorems about the module they are named for; `SessionsRoster_proofs` continues `Sessions_proofs` |
| `MC*` | instances for TLC | |

Definitions whose name ends in a suffix after an underscore that the code does not have
(`AddTask_NoNotify`, `HandleDisconnect_PeerOnly`, ...) are deliberate mistakes. No
specification uses them: put in place of the definition they are named for, each makes
a property fail, which shows that the property depends on the code it is about.
(`HandlePlayerJoin_Taken` and `HandlePlayerJoin_Accept` are the two outcomes of the
join handler, and no mistakes.)

How they fit together: `WorkerPool` implements `TaskPool`, and `ChunkService` is shown to
use `TaskPool` within its terms (`UsesPool`), so that what `WorkerPool` assumes of its
callers is what `World` and the emerger's workers do. `MapSync` looks at one chunk with
every unlocked access a step; `ChunkService` looks at many, with an operation on a list or
on the map a step. `ClientStates` is one client from start to end, with the server as the
messages it may send; `Sessions` is several clients and the server. `ClientStates` extends
`GameInput`, and so does `UiInput`, which puts the manager before it; `ChunkMesh` extends
`CoordMath`. What all of them take for granted, that a message arrives as the record that
was sent, is the subject of `Messages`.

### WorkerPool

A step is one critical section of `taskQueueMutex`, or one access outside it.

| Variable | Code |
|---|---|
| `queue` | `taskQueue` |
| `wpc`, `run`, `task` | where each thread is in `Worker::run`, its `keepRunning`, its local `task` |
| `cpc` | where each caller is in `addTask` (pushing, or about to notify) |
| `owner`, `marked` | where the constructor or destructor is, and whom it has marked |
| `added`, `missed` | history: tasks ever added; workers the stop request cannot reach |

`keepRunning` is an atomic that no constructor initialises, so `Init` leaves it open.
Nobody adds a task once destruction has begun: every caller of `Emerger::queue` holds a
reference to the world that owns the pool. A task is added once, as `World::getChunk`
queues only chunks it has just created. What `processTask` does is `MapSync`'s subject.

`Abstract == INSTANCE TaskPool WITH backlog <- queue, running <- task, ...` is the
refinement mapping. `ImplementsTaskPool` is the abstract safety part and `ServesTasks`
the abstract fairness.

### Sessions

A step is one event the server's `recv` returns with everything its handler does, one
respawn thread's wake-up, or one message handled by a client. A disconnection is two steps:
`recv` takes it from ENet, whose side of the peer is gone then, and puts the `Peer` in the
list of those to delete (`RecvDisconnect`, the state `"lost"`); back in the main loop the
player is removed (`HandleDisconnect`, then `"closing"`). Between the two the main thread
receives nothing, and the respawn threads may send to the player.

| Variable | Code |
|---|---|
| `peer`, `slot` | the `Peer` object of each connection, and the ENet peer it wraps |
| `players`, `lastSess` | `G.players`; how many session ids were drawn |
| `respawns` | the detached threads asleep |
| `client`, `roster` | the client's state; how often each session is in its list |
| `mourning` | the deaths it was told of with no respawn or departure yet |
| `inbox`, `dying` | to the server, on two channels |
| `base`, `life` | to each client, on two channels |

Choices a reader should know:

- A connection is used for one join, as the shipped client does; ENet's slots are used
  again, and `getByPeer` compares slots (`ByPeer`), not `Peer` objects.
- Session ids are drawn in order. `FastRand` is a generator with short cycles; it does
  not repeat within the few draws of a run. The repetition is a listed hazard.
- `DISCONNECT` may hit a client that is alive (the network fails), and discards what
  it had sent and the server had not received. What is sent to the peer from then on goes
  nowhere (`Reaches`): ENet refuses a peer that is not connected. `PeersLive` says that the
  `Peer` object behind it is there all the same, until its player is gone.
- A client may fail to join at any moment before it has succeeded: `JoinFails` stands
  for a refusal, the five-second limit, and any other first message. The messages with
  chunks, which may overtake `PlayerJoinSuccess`, need no channel of their own here.
- A refused client keeps its connection and services it no more: the window loop reads
  the network only in the states that play or wait.
- `PlayerUpdateDie` is handled by the server, and no code of the client sends it. Die
  and Respawn both end in `setDead(false)`, so a death is only what was announced.
- Each handler is one step although the updater and respawn threads iterate over the
  vector meanwhile: the outcomes of that race are undefined and not enumerable.
- `Player::kick` has no caller. Chat, movement and content requests change none of
  this state.

### MapSync

A step is one access to the chunk, its state or its change list, by the thread that
makes it: the emerger's generator, the main thread in `handlePlayerMapUpdate`, the
`chunkUpdater` thread, or a client.

| Variable | Code |
|---|---|
| `state`, `block`, `changes` | `Chunk::state`, `Chunk::data`, `CH.m_changes` |
| `toGenerate` | what the loops of `CaveGenerator::Generate` have left |
| `main`, `upd` | where the two server threads are, with their locals |
| `visited` | the players of the updater's round |
| `listed`, `pending` | in `G.players`; the chunk in its `pendingChunks` |
| `transfers`, `updates` | channels `MapTransfer` and `MapUpdate` |
| `view` | the client's copy |
| `missed`, `overtaken`, `raced` | history, for the two exceptions and the divergence |

Each edit puts a block of its own, numbered by `edits`, so that an old value is told
from a new one. Some sequences of accesses are one step, each for a reason:

- `flush` copies the whole list in one step: the list never holds two changes
  (`TypeOK`, proved for any size), and each block is read once.
- `Chunk::write` reads all blocks in one step. An edit that falls into it gives a
  copy equal, block by block, to one taken before or after the edit.
- A broadcast reaches every client's channel in one step: only the order inside one
  channel can be observed.
- Players do not leave here (`Sessions` has that), and the chunk is generated once, as
  the emerger is given each new chunk once.

`missed` and `raced` name the two ways in which a client does go stale. The first: an
update of a block is broadcast between the serialisation of the client's copy and its
arrival, and is ignored because the client has no chunk yet. The second: the updater's
flush overlaps an edit's, and one value is told twice, told late, or cleared before it
is told. `AgreeWhenSettled` says that there is no third way.

### ChunkService

A step is one operation on the map, a list, a reference or the queue, by the thread that
makes it: the main thread, one of the emerger's workers, or the updater.

| Variable | Code |
|---|---|
| `created`, `entry` | how many `Chunk`s were made at a position; which of them `m_chunks` has a weak reference to |
| `state` | `Chunk::state` |
| `queue`, `task`, `locked` | the emerger's tasks (weak), each worker's, and who holds a strong reference |
| `main` | between the two steps of `getChunk` (`expired()`, then `lock()`) or not |
| `held` | `holdChunksInMem` |
| `present`, `pending` | `G.players`, `pendingChunks` |
| `upd`, `seen`, `batch`, `visited` | the updater's loop and its locals |
| `wants`, `told` | history: what each player was promised, and could read of what it was sent |

Choices a reader should know:

- A chunk is a position and a number; it is alive while a list, a local or a worker has a
  strong reference to it (`Alive`), and never comes back (`ServiceOneChunk` rests on it).
- `emplace` does nothing where the map has an entry, expired or not, so a second chunk at a
  position is handed out but never found: `GetNewEmptyChunk` keeps that.
- The shipped client sends no chunk request, and the server handles one
  (`handlePlayerChunkRequest`): requests are modelled as the handler takes them.
- Appending to, walking and erasing from a `pendingChunks` list are each atomic here. Two
  threads do them with no lock, and what a torn list does is undefined; likewise the
  removal of the very player the updater is at (`Leave` excludes it).
- An empty reference in a list is dereferenced by the updater, and ends the process.
- Positions the server keeps (`Home`) are loaded at start-up; others live as long as
  somebody waits for them or is being sent them.

### ClientStates and GameInput

A step is one event GLFW reports, one stage of the window's loop, one message, one store
of the connection thread, or one unit of time passing in `recv`.

| Variable | Code |
|---|---|
| `pc`, `current`, `next`, `closing` | `GameWindow::run`, `m_currentState`, `m_nextState`, `glfwWindowShouldClose` |
| `message` | the text of the last `MessageState` |
| `conn`, `finished`, `success`, `NS` | the connection thread and what it shares |
| `peer`, `sentTo` | the server's `Peer`; what it and the next state were whenever something was sent |
| `greeted`, `elapsed`, `left`, `joins` | `recv` during the join, and `recv` of a game when it is late |
| `held`, `going`, `unheard` | keys down; `LocalPlayer`'s flags; keys let go while the chat line listened |
| `chatting`, `line`, `ignoreFirst`, `menu` | `Chatbox`, `m_chatIgnFirstKey`, the menu's visibility |
| `mouseLocked`, `captured` | `m_mouseLocked`, GLFW's cursor mode |

Choices a reader should know:

- The thread's stores to `finished`, `success` and `NS` appear in program order, as an x86
  build keeps them. The flags are plain variables; a compiler or machine that reordered
  them is not modelled, and is a listed hazard.
- Time is counted in units; `Timeout` of them are waited for, and the counter wraps at
  `Wrap` (5000 and 2^32 in the code).
- A game's `recv` is given no time. If a millisecond passes between its two looks at the
  clock (`Network.cpp:331` and `:335`) what it asks ENet for wraps (`RecvLate`), as it does
  in the join after a key exchange dealt with too late. ENet is not in this repository: by
  its documentation it waits that long; if it compares its deadlines modulo the counter's
  width, it finds such a wait over at once. `WaitOver` allows both.
- The key exchange may fail, which throws out of `main` (`KeyExchangeFails`): the process
  has died then, and the liveness properties count that as an end.
- After a disconnection the frame of that turn and `onStop` still send to the `Peer`
  awaiting its deletion: `SendsToPeer` allows that turn, and no other.
- `m_chatIgnFirstKey` is set by no constructor, so it starts as either value.
- A release that the chat line swallows leaves its direction on: `MovesWhileHeld`
  excepts exactly those (`unheard`).
- Drawing, widgets' layout, camera and position are left out.

### ChunkMesh and CoordMath

A step is one message handled, one look at a block, or half of a chunk's turn in a frame;
all of it runs on the main thread.

| Variable | Code |
|---|---|
| `loaded` | the chunks the client's world finds |
| `chunk` | `Chunk::data` and `Chunk::imcData`, of which one is null |
| `dirty`, `mesh` | `Chunk::dirty`; the faces in its buffers, and the count of indices that are drawn |
| `edits` | bound on updates |

- Two kinds of block, air and any other: `isTransparent` tells no more apart in this
  version, so the buffer for transparent blocks stays empty. A mesh is its set of faces;
  vertices, light and texture coordinates follow from it.
- A chunk's turn in a frame is to be compressed if nobody looked into it for two seconds
  (`Rest`; `CHUNK_INMEM_COMPRESS` is on, `Chunk.hpp:12`), and to be meshed if it is in the
  view and dirty (`Draw`); either may be all of it. When somebody last looked is left out,
  so that `Rest` may come at any frame. The player's movement and what points at a block
  look into chunks (`Look`), as meshing a neighbour does (`LookedInto`).
- LZO is external, and gives back what it was given; that `imcCompress` reserves no more
  for its output than the input has is not modelled, as it is a matter of what LZO makes
  of the bytes (`Chunk.cpp:442` has the same, and is a listed hazard).
- The indices are counted in 16 bits (`MeshOf`). A checkerboard of the full size has 73728,
  of which the count keeps 8192: `MeshFresh` promises the whole mesh in the buffers, and the
  whole of it drawn only if the counter holds the number.

### Messages

A step is one field written or read, or a message's begin, way and end. A message is
touched by one thread at a time, so nothing else can be seen of it in between.

| Variable | Code |
|---|---|
| `phase` | where the message is; `refused` and `thrown` are exceptions that nothing catches |
| `type`, `number` | its type, and the elements or flags it was given |
| `out` | the `OutMessage`: what is in `m_data`, `m_cursor`, `m_allocated` |
| `in` | the `InMessage`, the same one for every message |
| `count` | the count or the flags `readFromMsg` has read |
| `wrote`, `got` | history: the fields in the order of the calls |

Choices a reader should know:

- Each `writeToMsg` and each `readFromMsg` is a definition of its own (`ChatWritten`,
  `ChatRead`, ...), translated from that function: the fields before a list, of one
  element, how often, and after it. Neither knows the other.
- A byte is its value, the width it belongs to and its place in it, so that a read gives
  a value only where a field of that width begins. Counts are reduced modulo what their
  field holds.
- `BlockUpdateNotify::readFromMsg` counts with a `uint8`: with a count that does not fit its
  loop does not end, and goes on until the data does, which throws.
- A chunk's bytes are not read but pointed at, with no check; `ChunkData` is what those
  bytes are, written and read with the same streams. Its compressed size always fits its
  16 bits (a chunk has 24 KiB), whatever the compressor makes of it.
- `ModListRequest` and `ModListResponse` do not set their message's type. They arrive with
  none and are not handled: `Send` drops them.
- Three messages are read other than by their class: `PlayerJoinSuccess` by
  `ConnectingState.cpp:92`, as a 32- and a 16-bit number, of the two 32-bit ones its class
  writes, so that the world's id is cut in half; `PlayerJoinFailure` by nobody, as
  `ConnectingState` looks at the subtype only; `PlayerQuit` by `PlayerQuitHandler.cpp:17`, a
  session id, written by hand at `Server.cpp:118`, and with a text by `Server::kick`, which
  has no caller. The client's own `PlayerQuit` has no fields. `ReadsBack` names what is so
  lost (`ReadInPart`, `HalfRead`).
- Some layouts are in the code and have no user: both halves of `ServerInfoRequest`, the
  reader of `ModListRequest` and `ModListResponse`, `readFromMsg` of the join's answers. The
  first three are modelled as they stand.
- Which message a handler reads is the other modules' subject; here every type is sent.

### UiInput

A step is one call of GLFW: the manager's callback, then `GameState`'s.

| Variable | Code |
|---|---|
| `debug` | `debugInfo.show` |
| `hovered`, `over` | `m_hoveredElement`, `m_isCursorOver` |
| `given` | history: the callbacks of the last input |

Of the elements, the frame counter, the debug text and the menu get input from the
manager; the rest are `setManual`. Their areas do not overlap. `setFocused` compares its
argument with the hovered element and does nothing when they are one, and it is always
called with that one: no element ever gets the focus, and there is no variable for it.

## 3. Runs

| Run | Instance | Checks |
|---|---|---|
| `worker_pool` | 2 workers, 2 callers, 3 tasks | `TypeOK`, `WorkConserving`, `HangOnlyInWindow`, `DestructorReturns`, `ImplementsTaskPool`, `ServesTasks` |
| `sessions` | 3 connections, 2 slots, 2 names, 1 death | `TypeOK`, `PlayersDistinct`, `PeersLive`, `RosterConverges` |
| `sessions_live` | 2 connections, 2 slots, 2 names, 1 death | `SilentIsRemoved`, `DeadComeBack` |
| `map_sync` | 2 clients, 2 blocks, 2 edits | `TypeOK`, `ChangesOnlyInHandler`, `SentOnce`, `NothingUngenerated`, `AgreeWhenSettled`, `EventuallyAgree` |
| `map_sync_sequence` | 1 client, 1 block, 1 edit | `DeliveredInSequence`, which fails |
| `chunk_service` | 2 positions, 1 of them home, 2 players, 1 worker, batches of 1, 2 chunks a position | `TypeOK`, `OneWhileFound`, `PendingIsEmerging`, `AllAccountedFor`, `UsesPool`, `Served` |
| `chunk_service_load` | the same, 1 player | `LoadGivesChunk`, which fails |
| `client_states` | 2 directions, chat lines of 1, timeout 2, counter modulo 5 | `TypeOK`, `OneHasKeyboard`, `MovesWhileHeld`, `SendsToPeer`, `ThreadHasState`, `FailureIsReal`, `OneJoin`, `CursorFree`, `Decides`, `Closes` |
| `client_states_wait` | the same, 1 direction | `WaitsAtMost`, which fails |
| `chunk_mesh` | 3 chunks of 2x2x2 blocks around the origin, 2 contents, 1 edit, indices modulo 128 | `TypeOK`, `MeshFresh`, `FitsBuffers` |
| `messages` | bytes of 3 values, shorts of 4, lists of up to 4, 3 lengths, 2 messages | `TypeOK`, `ReadsBack`, `ThrowsOnlyOnLongList` |
| `ui_hidden` | 1 direction, chat lines of 1 | `HiddenGetsNoInput`, which fails |

Deadlock is not checked where the system may stop: a pool is destroyed, everybody leaves,
the window ends, the last edit is made, the process ends, and nothing more happens. What
must happen is stated by the liveness properties. `chunk_mesh` does check it.

Why the bounds are enough to be interesting:

- Two workers race for a task and two callers' notifications are in flight together;
  with three tasks one is queued while both workers are busy. The safety results are
  proved for any number.
- Three connections over two slots force a slot to be used again while its earlier
  player may still be around, and let a third client watch a join race a quit. Two
  names make both refusals and coexistence possible. One death is enough, as a death
  concerns one player; every client may be the one. Symmetry is used on this run only:
  it checks invariants and its constants' elements are never told apart.
- Two edits give an old and a new value, of one block or of two; two clients may join on
  either side of anything. The agreement of a block never depends on a third block.

- One position is kept by the server and one is not, so that the second is dropped and
  asked for again, found by one player while the other waits, and created twice; a batch
  of one makes every list of two a walk of two rounds.
- A timeout of two lets the deadline pass before, at and after the key exchange, and five
  is the least modulus at which the wrapped time is longer than the timeout. Two
  directions tell the one whose release was unheard from another.
- Every block of a 2x2x2 chunk is at three of its sides. The three chunks lie on both
  sides of zero along two axes; two touch by a face, two only along an edge. Full and
  checkerboard contents and edits make faces appear, disappear and reach their maximum,
  whose 144 indices 128 do not hold while those of any smaller mesh they do. For larger
  chunks, with inner blocks, the theorems hold.

- With three values to a byte and four to a short, lists of up to four fit both, fit
  only the short, or fit neither; a string of length four is refused. Lengths of 0, 1 and
  4 put the growth of the buffer, by steps of 8, at every place of a field. The second
  message meets an `InMessage` that has read every first one to its end or was dropped.

### What the failing runs show

`map_sync_sequence` records a divergence. `doc/spec.md:312` calls all communication
"sequential messages, delivered by the ENet library on multiple ENet channels", and line
315 says the channels merely help traffic analysis and avoid blocking. A chunk and the
updates of it travel on different channels, and the run shows an update sent after the
chunk handled before it, and lost for lack of the chunk.

`chunk_service_load`: `World::getChunk` tests `expired()` (`World.cpp:42`) and locks one
line later. The updater may drop the last reference to a chunk in between, and the lookup,
which `World.hpp:79` and `:85` document to give a chunk when it loads, gives an empty
reference. It goes into a pending list, and the updater dereferences it.

`client_states_wait`: `recv` computes the time left as `timeout - elapsed`, both unsigned
(`Network.cpp:338`), after every event it does not return. When the server's key exchange
was dealt with after the deadline, the difference wraps: for a wait meant for 5 seconds
(`ConnectingState.cpp:82`) ENet is asked to wait 49 days, on the thread that also runs the
window. The run shows what is asked for. Whether ENet, which is external, waits so long or
takes the wrapped deadline for one that has passed is left open.

`ui_hidden`: `ui/README.md:6` says that hiding an element "also disables any input to it".
The manager looks for the element under the cursor when the cursor moves
(`Manager.cpp:65`), and gives buttons and wheel to the one it found then (`:103`, `:131`).
A key that hides the menu or the debug text does not move the cursor.

### Fairness

- `WorkerPool`: weak fairness of each thread's next step, of a notification to be sent,
  and of a destructor once begun. Nobody has to call `addTask` or destroy the pool, and
  nothing depends on a spurious wake-up.
- `Sessions`: the server keeps calling `recv` (`Server::run` loops), respawn threads
  wake, a playing client handles its messages (once a frame), and ENet gives up on a
  peer that is silent, on either side. Connecting, dying, quitting and failing are never
  required.
- `MapSync`: the generator, an edit's handler, the updater's loop and each client's
  handlers go on; which channel a client hears next is left open. Nobody has to join or
  to edit.
- `ChunkService`: the main thread, each worker and the updater go on; no client has to
  join, ask or leave. `Served` holds for a process that lives (`Running`).
- `ClientStates`: the connection thread and the window's loop go on, time passes, and
  ENet's own attempt to connect ends (it has a limit of 5 seconds). No user presses a key
  and no server answers, ever. `RecvNothing` is strongly fair: of the game's `recv`s, one
  every turn or more, not all from some moment on lose a millisecond to the scheduler and
  are then ended by a message, which would call the next.
- `ChunkMesh`, `Messages` and `UiInput` have no fairness: their properties are invariants
  and one action property.

## 4. Proofs

All for constants of any size, under the modules' named assumptions and no other:
`PoolAssumption`, `SessionsAssumption`, `MapSyncAssumption`, `ServiceAssumption`,
`InputAssumption`, `WindowAssumption`, `MeshAssumption`, `MessagesAssumption`. They say that sets are finite where
the code counts them, that "no task" and "no slot" are not a task or a slot, that a batch
is smaller than what its message can count, that a timeout is smaller than the counter's
modulus, and that bytes and shorts have more than two values, shorts more than bytes.
`MeshAssumption` says that a chunk has finitely many axes and an even, positive number of
blocks along each (the code has three axes of 16 blocks): a checkerboard in a chunk of odd
size has more than half of all faces, and `FitsBuffers` is false there.

Every invariant and every action property that a passing run checks is proved; what is
left to TLC alone is liveness.

| Theorem | States | Argument |
|---|---|---|
| `TypeCorrect` | `TypeOK` of `WorkerPool` | inductive as it stands |
| `PoolConservesWork` | `WorkConserving` | `ConservingInv` |
| `PoolHangsOnlyInWindow` | `HangOnlyInWindow` | `StopInv` |
| `PoolImplementsTaskPool` | `ImplementsTaskPool` | step simulation under `TypeOK` |
| `MapSyncTypes` | `TypeOK` of `MapSync`, with the bound of one change | `TypeOK` and `ChangesOnlyInHandler` together |
| `OnlyHandlerHasChanges` | `ChangesOnlyInHandler` | the same |
| `ChunkSentOnce` | `SentOnce` | inductive under `TypeOK` |
| `NoClientSeesUngenerated` | `NothingUngenerated` | `FilledInv` |
| `ClientsAgree` | `AgreeWhenSettled` | `AgreeInv`, unless `raced`, under the three above |
| `SessionsDistinct` | `PlayersDistinct` | `SessionsInv` |
| `SessionsPeersLive` | `PeersLive` | `SessionsInv` |
| `SessionsRosterConverges` | `RosterConverges` | `SessionsInv`, `JoinsCounted`, `RosterInv` |
| `SessionsTyped` | `TypeOK` of `Sessions` | the same, and `LifeTypes` |
| `ServiceTypes`, `ServiceOneChunk`, `ServicePending`, `ServiceAccounts` | `TypeOK` of `ChunkService`, `OneWhileFound`, `PendingIsEmerging`, `AllAccountedFor` | `ServiceInv` |
| `ServiceUsesPool` | `UsesPool` | step simulation under `ServiceInv` |
| `ClientTypes`, `ClientSendsToPeer`, `ClientThreadHasState`, `ClientFailureIsReal`, `ClientJoinsOnce`, `ClientOneHasKeyboard`, `ClientCursorFree`, `ClientMovesWhileHeld` | the invariants of `client_states` | `WindowInv` |
| `DivRdRMod` | `divrd` and `rmod` give the quotient and the remainder of every integer | from the library's division of naturals |
| `MeshTypes`, `MeshIsFresh` | `TypeOK` of `ChunkMesh`, `MeshFresh` | together inductive, with the count as computed (`MeshCurrent`) |
| `MeshFitsBuffers` | `FitsBuffers` | `HalfDrawn`, and a count of pairs of faces |
| `MessagesTyped`, `MessagesReadBack`, `MessagesThrowOnlyOnLongList` | `TypeOK` of `Messages`, `ReadsBack`, `ThrowsOnlyOnLongList` | `MessagesInv` |

The inductive invariants, and why the properties need them:

- `ConservingInv` adds to `WorkConserving` that no worker of an open pool has left its
  loop (`Open`). Then each step keeps the count: a push is paid by its notification, a
  notification by the worker it wakes or by the absence of sleepers, a worker that
  stops being awake by the task it takes, and a worker sleeps only on an empty queue.
- `StopInv` says that a mark is undone only by the thread's own first store, which
  counts as missed (`MarksStand`), and that after the broadcast a marked worker is not
  on its way to a wait unless it is counted as missed (`OnItsWayOut`).
- `TypeOK` of `MapSync` bounds the change list by one, which only holds because the
  list is empty whenever a handler may add to it. The two are proved together.
- `FilledInv` follows cleared memory: only blocks still to be generated show it, a
  change is noted only on a `Ready` chunk, and so nothing that is flushed, copied or
  under way shows it.
- `SessionsInv` joins five facts that do not hold alone. A quit finds its player by the
  ENet slot, which names one player only if no two connected peers share a slot
  (`SlotsDistinct`) and no player's peer is gone (`PeersUp`); the latter holds because a
  disconnect removes the right player before the next `recv`, hence the former; in between
  its slot cannot be used again, as the main thread receives nothing. That a connection has at most
  one player needs `JoinsOnce`: its join is the first message it sends, and only quits
  come after it. `SessionsDrawn` makes the next session id new.
- `RosterInv`: what a client lists of a session, plus the joins and minus the quits under
  way to it, is what `RosterConverges` counts; a step keeps that sum only if the channel and
  the list fit together. So it says that of each session there is at most one join and one
  quit under way, that the join is not of one who is listed, and that the quit is of one
  who is listed or comes after its join (`ListsConsistent`); that only sessions that
  were drawn occur (`SessionsKnown`), so that a new player's join is news to everybody; that
  who does not read, or has not been answered, has heard of nobody (`QuietUntilAnswered`);
  and that who plays lists, or will list, the others on the server (`ListsOthers`).
  `JoinsCounted` bounds the sessions: each connection's one request draws at most one.
- `AgreeInv` says for each block who still has the news of it. A value that a client has,
  or that is on its way to it in a copy, is the server's; or the main thread will announce
  the newer one (`Announced`); or an update with it is under way; or the client has missed
  it (`ShownFresh`). Behind each update under way there is one to the present value, or it will
  be announced (`UpdatesEndNewest`). What the edit's handler has found is the present
  value (`FoundCurrent`), before generation ends nothing is told (`QuietUntilReady`), who is
  not in the players' list is told nothing (`UnlistedUntold`), and edits are numbered, so
  that no copy is newer than the chunk (`BlocksDated`, `CopiesOld`). With no race the updater
  flushes nothing, which is the first conjunct.
- `ServiceInv`: that a second chunk at a position is no live rival needs that dead chunks
  stay dead: every way to a reference is a live reference, the map's entry if it is alive,
  or a creation (`StepKinds`); that the created one is new needs `OnlyCreated` and
  `EntryCreated`; and that a join finds the home chunks needs `HomeHeld`. The emerger's
  promise is proved for everything alive (`AliveEmerging`), as what is in no list now may be
  put into one later. `AllAccountedFor` needs that those who left are forgotten, and that
  the player being walked is there (`WalksSomebody`).
- `WindowInv`: where the loop is decides which state is current (`Control`); what the
  thread has stored decides what its flags and `NS` mean (`Connection`), and both decide
  what the `Peer` may be wherever something is sent (`Peers`): after a disconnect the next
  state is set, so that no further `recv` deletes the peer before the last sends. The
  arithmetic of the waits (`Clock`) bounds the counters. `Inputs` relates chat line, menu,
  cursor and the movement flags.
- `MeshCurrent` and `TypeOK`: compressing and uncompressing change no block
  (`BlocksKept`), so looks and frames leave what a mesh was built from (`AllSame`). A block outside a chunk lies in the neighbour on that side, at
  a place that touches back (`StepOut`, by `DivRdRMod`). So whatever changes a block that a
  mesh was built from marks that mesh's chunk, and what is not marked reads the same
  blocks (`SameFaces`, `ElsewhereSame`).
- `FitsBuffers`: along each axis the blocks of a chunk are paired, the first with the second,
  the third with the fourth, which needs the size to be even. Of a pair's two faces on one
  side, one looks at the other block of the pair, and is drawn only if that is transparent,
  so never are both drawn (`HalfDrawn`). `Across` takes a face to the other one of its pair:
  a mesh and its image are disjoint and equally large, so twice the size of a mesh is at most
  the number of all faces.
- `MessagesInv`: there are offsets, one per field and one for the end, at which the data
  holds each field's length and value as `wrote` says (`Placed`), and the reader stands at
  the offset of the next field with the count that the writer's first field holds
  (`ReadInv`). One lemma per class of messages compares `readFromMsg` with `writeToMsg`
  (`WrittenLayouts`, `ReadLayouts`; `PartLayout` for those that are read in part); from them `ReaderLayout` concludes that after k fields the
  reader asks for the field k + 1 that was written, and ends where the writer did, unless
  its count is too small for the list. The offsets are quantified, and so need no recursive sum
  over the fields: writing a field extends them by one (`PlacedGrows`), and what was written
  before stays where it is, also while a length is filled in behind (`PackAppends`). At the
  end of the data nothing can be read (`NoFieldAtEnd`), and only the list of block
  updates, counted past its one-byte index, asks for more.

`AgreeInv`, `RosterInv`, `JoinsCounted` and `MessagesInv` (with the offsets computed) were
checked by TLC on the instances of the runs before they were proved.

Checked by TLC only:

- everything under fairness: `DestructorReturns`, `ServesTasks`, `SilentIsRemoved`,
  `DeadComeBack`, `EventuallyAgree`, `Served`, `Decides`, `Closes`; liveness is out of the
  prover's reach.

## 5. Plan

Done, in this order: `TaskPool` and `WorkerPool`, `Sessions`, `MapSync`, `ChunkService`,
`ClientStates` with `GameInput`, `ChunkMesh` with `CoordMath`, `Messages`, `UiInput`, their
runs and the theorems above. Left:

1. The safety half of the liveness arguments: which step is enabled whenever a promise is
   open, and what each step of a fair thread brings closer, as invariants and action
   properties that can be proved.
2. `Universe`'s map of worlds, once the program uses more than one world.

## 6. Not modelled

- Most lines of this repository are third-party: the `stb` libraries, `minilzo` and the
  simplex noise under `ext/`. The program uses each through a call or two (decode,
  compress, a number), and the models take them as that.
- What LZO does to a chunk in memory and on its way: an external library. The client's
  `try_lock` around it never fails, with one thread.
- Drawing, physics, audio, layout of widgets: floating-point or calls into OpenGL and
  OpenAL, with no state that interleavings endanger.
- libsodium's and ENet's insides: external; ENet appears as its promises to this code.
  The wrappers of libsodium are thin, and the traffic is not encrypted yet.
- `FileStream`, 32-bit strings and `skip`: I/O, or without a caller. What a packed object
  looks like inside is a library's business.
- Registration in the registry, texture packing, the memory tracker and asset metadata:
  run once and sequentially, off by default, or without a caller.
- `FastRand`: how long its cycles are is a fact to compute about one function; `Sessions`
  takes ids as distinct.
- The data races on the player vector and on `pendingChunks`: undefined behaviour whose
  outcomes cannot be enumerated. They are listed as hazards.
- Logging, configuration, files and start-up: I/O.
