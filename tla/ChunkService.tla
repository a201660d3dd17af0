---------------------------- MODULE ChunkService ----------------------------
(***************************************************************************)
(* How the server comes by the chunks it sends: the world's map of weak    *)
(* references (World.cpp getChunk, getNewEmptyChunk), the emerger that is  *)
(* handed each new chunk (world/Emerger.cpp), the pending list of every    *)
(* player, and the updater thread's rounds over those lists (Server.cpp    *)
(* chunkUpdater, sendChunks), with the life of every chunk.                *)
(*                                                                         *)
(* A chunk lives while somebody holds a reference to it. The map's entry   *)
(* is weak, and `emplace` leaves an entry alone that is already there,     *)
(* expired or not. The map and the reference counts are shared by the main *)
(* thread, the updater and the emerger's workers; a step is one operation  *)
(* on them.                                                                *)
(***************************************************************************)
EXTENDS Naturals, Sequences, FiniteSets

CONSTANTS
  Positions,     \* chunk coordinates, as numbers: the map is ordered
  Home,          \* those the server keeps in memory and sends to every player
  Players,
  Workers,       \* the emerger's threads
  Batch,         \* chunks sent to a player in one round (32)
  CountModulus,  \* a message counts its chunks modulo this (256)
  MaxCopies,     \* bound: chunks created at one position
  MaxPending     \* bound: the length of a pending list when a request comes

ASSUME ServiceAssumption ==
  /\ Positions \subseteq Nat /\ IsFiniteSet(Positions)
  /\ Home \subseteq Positions
  /\ Batch \in Nat \ {0} /\ CountModulus \in Nat /\ Batch < CountModulus
  /\ MaxCopies \in Nat \ {0} /\ MaxPending \in Nat

\* A Chunk object: the n-th that was created at its position.
Chunks == [at : Positions, nth : 1 .. MaxCopies]
Nothing == [at |-> 0, nth |-> 0]  \* an empty ChunkRef, an idle worker's task

VARIABLES
  \* the world
  created,  \* how many chunks have been created at each position
  entry,    \* which of them the map's weak reference is to (0: no entry)
  state,    \* Chunk::state
  \* the emerger
  queue,    \* its tasks, weak references
  task,     \* the one each worker is on
  locked,   \* the workers that hold a reference to the chunk of their task
  \* the main thread
  main,     \* where it is
  held,     \* Server::holdChunksInMem
  present,  \* G.players
  pending,  \* pendingChunks of each player
  \* the updater thread
  upd,      \* where it is
  seen,     \* its local c
  batch,    \* its local chunksToSend
  visited,  \* the players dealt with in this round
  \* what was asked for, and what the clients could read
  wants, told

world == <<created, entry, state>>
emerger == <<queue, task, locked>>
lists == <<held, present, pending>>
updater == <<upd, seen, batch, visited>>
clients == <<wants, told>>
vars == <<world, emerger, main, lists, updater, clients>>

----------------------------------------------------------------------------
Elements(s) == {s[i] : i \in DOMAIN s}

At(pc) == [pc |-> pc, by |-> Nothing.at, for |-> Nothing.at]
Looking == [pc : {"lock"}, by : Players, for : Positions]
Picking == [pc : {"pick"}, to : Players, it : Nat \ {0}]
Scanning == [pc : {"scan"}, from : Nat]

\* Type invariant.
TypeOK ==
  /\ created \in [Positions -> 0 .. MaxCopies]
  /\ entry \in [Positions -> 0 .. MaxCopies]
  /\ state \in [Chunks -> {"Unavailable", "Generating", "Ready"}]
  /\ queue \in Seq(Chunks)
  /\ task \in [Workers -> Chunks \cup {Nothing}]
  /\ locked \subseteq Workers
  /\ main \in {At("start"), At("idle")} \cup Looking
  /\ held \subseteq Chunks
  /\ present \subseteq Players
  /\ pending \in [Players -> Seq(Chunks \cup {Nothing})]
  /\ upd \in {At("off"), At("round"), At("sleep"), At("crashed")} \cup Scanning \cup Picking
  /\ seen \in Chunks \cup {Nothing}
  /\ batch \in Seq(Chunks) /\ Len(batch) <= Batch
  /\ visited \subseteq Players
  /\ wants \in [Players -> SUBSET Positions]
  /\ told \in [Players -> SUBSET Positions]

\* Somebody holds a reference: the server for good, a player's pending list, one of the
\* updater's two locals, or a worker.
Alive(k) ==
  \/ k \in held
  \/ \E p \in present : k \in Elements(pending[p])
  \/ k \in Elements(batch)
  \/ k = seen
  \/ \E w \in locked : task[w] = k

Entry(pos) == [at |-> pos, nth |-> entry[pos]]
Found(pos) == entry[pos] # 0 /\ Alive(Entry(pos))
Running == upd.pc # "crashed"

Init ==
  /\ created = [pos \in Positions |-> 0]
  /\ entry = [pos \in Positions |-> 0]
  /\ state = [k \in Chunks |-> "Unavailable"]
  /\ queue = <<>>
  /\ task = [w \in Workers |-> Nothing]
  /\ locked = {}
  /\ main = At("start")
  /\ held = {}
  /\ present = {}
  /\ pending = [p \in Players |-> <<>>]
  /\ upd = At("off")
  /\ seen = Nothing
  /\ batch = <<>>
  /\ visited = {}
  /\ wants = [p \in Players |-> {}]
  /\ told = [p \in Players |-> {}]

----------------------------------------------------------------------------
(* The world's map. *)

NewChunk(pos) == [at |-> pos, nth |-> created[pos] + 1]

\* getNewEmptyChunk: emplace does nothing where the map has an entry.
GetNewEmptyChunk(pos) ==
  /\ created[pos] < MaxCopies
  /\ created' = [created EXCEPT ![pos] = @ + 1]
  /\ entry' = [entry EXCEPT ![pos] = IF @ = 0 THEN created'[pos] ELSE @]
  /\ UNCHANGED state

LoadNew_NotQueued(pos) ==
  /\ GetNewEmptyChunk(pos)
  /\ UNCHANGED <<queue, task, locked>>

\* getChunk with load, where the map has no live chunk: create one and have it emerged.
LoadNew(pos) ==
  /\ GetNewEmptyChunk(pos)
  /\ queue' = Append(queue, NewChunk(pos))
  /\ UNCHANGED <<task, locked>>

----------------------------------------------------------------------------
(* The main thread. *)

\* Server::start: the home chunks are loaded and held for good.
Start(pos) ==
  /\ main.pc = "start"
  /\ created[pos] = 0
  /\ LoadNew(pos)
  /\ held' = held \cup {NewChunk(pos)}
  /\ UNCHANGED <<main, present, pending, updater, clients>>

\* Server::run: the updater thread is started, and the main thread receives.
Run ==
  /\ main.pc = "start"
  /\ \A pos \in Home : created[pos] # 0
  /\ main' = At("idle")
  /\ upd' = [pc |-> "scan", from |-> 0]
  /\ UNCHANGED <<world, emerger, lists, seen, batch, visited, clients>>

\* schedSendChunk
Schedule(p, pos, k) ==
  /\ pending' = [pending EXCEPT ![p] = Append(@, k)]
  /\ wants' = [wants EXCEPT ![p] = @ \cup {pos}]
  /\ UNCHANGED <<held, present, told>>

\* handlePlayerJoin, its end: the home chunks are scheduled, in any order.
Join(p) ==
  /\ main.pc = "idle"
  /\ p \notin present
  /\ present' = present \cup {p}
  /\ \E order \in [1 .. Cardinality(Home) -> Home] :
       /\ Elements(order) = Home
       /\ pending' = [pending EXCEPT ![p] = [i \in DOMAIN order |-> Entry(order[i])]]
  /\ wants' = [wants EXCEPT ![p] = Home]
  /\ UNCHANGED <<world, emerger, main, held, updater, told>>

CanRequest(p) == main.pc = "idle" /\ p \in present /\ Len(pending[p]) < MaxPending

RequestFound_QueuedAgain(p, pos) ==
  /\ CanRequest(p)
  /\ Found(pos)
  /\ main' = [pc |-> "lock", by |-> p, for |-> pos]
  /\ queue' = Append(queue, Entry(pos))
  /\ UNCHANGED <<world, task, locked, lists, updater, clients>>

\* handlePlayerChunkRequest: getChunk finds an entry that has not expired ...
RequestFound(p, pos) ==
  /\ CanRequest(p)
  /\ Found(pos)
  /\ main' = [pc |-> "lock", by |-> p, for |-> pos]
  /\ UNCHANGED <<world, emerger, lists, updater, clients>>

\* ... and locks it, whether or not it still has not expired ...
RequestLock ==
  /\ main.pc = "lock"
  /\ Schedule(main.by, main.for, IF Found(main.for) THEN Entry(main.for) ELSE Nothing)
  /\ main' = At("idle")
  /\ UNCHANGED <<world, emerger, updater>>

RequestNew_Again(p, pos) ==
  /\ CanRequest(p)
  /\ LoadNew(pos)
  /\ Schedule(p, pos, NewChunk(pos))
  /\ UNCHANGED <<main, updater>>

\* ... or creates another.
RequestNew(p, pos) ==
  /\ CanRequest(p)
  /\ ~Found(pos)
  /\ LoadNew(pos)
  /\ Schedule(p, pos, NewChunk(pos))
  /\ UNCHANGED <<main, updater>>

\* PlayerList::remove: the player's list goes with it. (Removing the very player the
\* updater is at is undefined, and not modelled.)
Leave(p) ==
  /\ main.pc = "idle"
  /\ p \in present
  /\ ~(upd.pc = "pick" /\ upd.to = p)
  /\ present' = present \ {p}
  /\ pending' = [pending EXCEPT ![p] = <<>>]
  /\ wants' = [wants EXCEPT ![p] = {}]
  /\ told' = [told EXCEPT ![p] = {}]
  /\ UNCHANGED <<world, emerger, main, held, updater>>

----------------------------------------------------------------------------
(* The emerger's workers. *)

TakeTask(w) ==
  /\ task[w] = Nothing
  /\ queue # <<>>
  /\ task' = [task EXCEPT ![w] = Head(queue)]
  /\ queue' = Tail(queue)
  /\ UNCHANGED <<world, locked, main, lists, updater, clients>>

\* processTask: a chunk nobody refers to any more is dropped ...
DropTask(w) ==
  /\ task[w] # Nothing
  /\ w \notin locked
  /\ ~Alive(task[w])
  /\ task' = [task EXCEPT ![w] = Nothing]
  /\ UNCHANGED <<world, queue, locked, main, lists, updater, clients>>

\* ... and any other is held, and generated.
LockTask(w) ==
  /\ task[w] # Nothing
  /\ w \notin locked
  /\ Alive(task[w])
  /\ locked' = locked \cup {w}
  /\ state' = [state EXCEPT ![task[w]] = "Generating"]
  /\ UNCHANGED <<created, entry, queue, task, main, lists, updater, clients>>

Generated(w) ==
  /\ w \in locked
  /\ state' = [state EXCEPT ![task[w]] = "Ready"]
  /\ task' = [task EXCEPT ![w] = Nothing]
  /\ locked' = locked \ {w}
  /\ UNCHANGED <<created, entry, queue, main, lists, updater, clients>>

----------------------------------------------------------------------------
(* The updater thread. *)

\* The positions with an entry that come after, in the order of the map.
After(pos) == {q \in Positions : entry[q] # 0 /\ q >= pos}

\* The loops over the world lock one chunk after the other into c; what they do with it
\* is MapSync's subject. The second loop locks the same chunks again.
Scan ==
  /\ upd.pc = "scan"
  /\ \E q \in After(upd.from) :
       /\ \A r \in After(upd.from) : q <= r
       /\ seen' = IF Alive(Entry(q)) THEN Entry(q) ELSE Nothing
       /\ upd' = [upd EXCEPT !.from = q + 1]
  /\ UNCHANGED <<world, emerger, main, lists, batch, visited, clients>>

ScanEnd ==
  /\ upd.pc = "scan"
  /\ After(upd.from) = {}
  /\ upd' = At("round")
  /\ UNCHANGED <<world, emerger, main, lists, seen, batch, visited, clients>>

\* The next player: chunksToSend is cleared, and the walk begins.
Visit(p) ==
  /\ upd.pc = "round"
  /\ p \in present \ visited
  /\ visited' = visited \cup {p}
  /\ batch' = <<>>
  /\ upd' = [pc |-> "pick", to |-> p, it |-> 1]
  /\ UNCHANGED <<world, emerger, main, lists, seen, clients>>

PendingHere == pending[upd.to]

CanPick_Unlimited == upd.pc = "pick" /\ upd.it <= Len(PendingHere)

\* The walk goes on: not at the end, and the batch not full.
CanPick == upd.pc = "pick" /\ upd.it <= Len(PendingHere) /\ Len(batch) < Batch

\* An empty reference is dereferenced.
PickNull ==
  /\ CanPick
  /\ PendingHere[upd.it] = Nothing
  /\ upd' = At("crashed")
  /\ UNCHANGED <<world, emerger, main, lists, seen, batch, visited, clients>>

Without(s, i) == SubSeq(s, 1, i - 1) \o SubSeq(s, i + 1, Len(s))

PickReady_Erased ==
  /\ CanPick
  /\ PendingHere[upd.it] # Nothing
  /\ state[PendingHere[upd.it]] = "Ready"
  /\ batch' = Append(batch, PendingHere[upd.it])
  /\ pending' = [pending EXCEPT ![upd.to] = Without(Without(@, upd.it), upd.it)]
  /\ UNCHANGED <<world, emerger, main, held, present, upd, seen, visited, clients>>

\* A Ready chunk moves to the batch; `it` is then at the one that followed it.
PickReady ==
  /\ CanPick
  /\ PendingHere[upd.it] # Nothing
  /\ state[PendingHere[upd.it]] = "Ready"
  /\ batch' = Append(batch, PendingHere[upd.it])
  /\ pending' = [pending EXCEPT ![upd.to] = Without(@, upd.it)]
  /\ UNCHANGED <<world, emerger, main, held, present, upd, seen, visited, clients>>

PickSkip ==
  /\ CanPick
  /\ PendingHere[upd.it] # Nothing
  /\ state[PendingHere[upd.it]] # "Ready"
  /\ upd' = [upd EXCEPT !.it = @ + 1]
  /\ UNCHANGED <<world, emerger, main, lists, seen, batch, visited, clients>>

\* The message counts its chunks in one byte; its reader reads as many as it counts.
Readable(s) == {s[i].at : i \in 1 .. (Len(s) % CountModulus)}

\* sendChunks, whatever there is to send. The chunks stay referenced by chunksToSend.
SendChunks ==
  /\ upd.pc = "pick"
  /\ ~CanPick
  /\ told' = [told EXCEPT ![upd.to] = @ \cup Readable(batch)]
  /\ upd' = At("round")
  /\ UNCHANGED <<world, emerger, main, lists, seen, batch, visited, wants>>

Sleep ==
  /\ upd.pc = "round"
  /\ present \subseteq visited
  /\ upd' = At("sleep")
  /\ UNCHANGED <<world, emerger, main, lists, seen, batch, visited, clients>>

\* A second later the locals of the round are destroyed and the next round begins.
Wake ==
  /\ upd.pc = "sleep"
  /\ seen' = Nothing
  /\ batch' = <<>>
  /\ visited' = {}
  /\ upd' = [pc |-> "scan", from |-> 0]
  /\ UNCHANGED <<world, emerger, main, lists, clients>>

----------------------------------------------------------------------------
MainStep == (\E pos \in Home : Start(pos)) \/ Run \/ RequestLock
ClientStep(p) ==
  \/ Join(p)
  \/ \E pos \in Positions : RequestFound(p, pos) \/ RequestNew(p, pos)
  \/ Leave(p)
WorkerStep(w) == TakeTask(w) \/ DropTask(w) \/ LockTask(w) \/ Generated(w)
UpdaterStep ==
  \/ Scan
  \/ ScanEnd
  \/ \E p \in Players : Visit(p)
  \/ PickNull
  \/ PickReady
  \/ PickSkip
  \/ SendChunks
  \/ Sleep
  \/ Wake

\* A null dereference ends the process.
Next ==
  /\ Running
  /\ \/ MainStep
     \/ \E p \in Players : ClientStep(p)
     \/ \E w \in Workers : WorkerStep(w)
     \/ UpdaterStep

Safety == Init /\ [][Next]_vars

\* Every thread runs; no client has to join, ask or leave.
Fairness ==
  /\ WF_vars(Running /\ MainStep)
  /\ \A w \in Workers : WF_vars(Running /\ WorkerStep(w))
  /\ WF_vars(Running /\ UpdaterStep)

Spec == Safety /\ Fairness

----------------------------------------------------------------------------
(* Properties *)

\* While the map finds a chunk at a position there is no other live one there: every
\* player is given the same, and it is the one edits reach. A second is only ever
\* created after the first was dropped (and then the map finds neither).
OneWhileFound ==
  \A pos \in Positions : Found(pos) =>
    \A n \in (1 .. MaxCopies) \ {entry[pos]} : ~Alive([at |-> pos, nth |-> n])

Emerging(k) == k \in Elements(queue) \/ \E w \in Workers : task[w] = k

\* A chunk that somebody waits for is Ready, queued, or with a worker: the emerger never
\* drops, for lack of a reference, a chunk that a pending list keeps alive.
PendingIsEmerging ==
  \A p \in present : \A k \in Elements(pending[p]) \ {Nothing} :
    state[k] = "Ready" \/ Emerging(k)

PositionsOf(s) == {k.at : k \in Elements(s) \ {Nothing}}
InBatch(p) == IF upd.pc = "pick" /\ upd.to = p THEN PositionsOf(batch) ELSE {}

\* Whatever a player was promised is in its list, in the batch being gathered for it, or
\* was readable to it: moving chunks out of a list while walking it skips no chunk, and
\* no message has more of them than it can count. (A lookup that came back empty leaves
\* an empty reference in the list, see LoadGivesChunk.)
AllAccountedFor ==
  \A p \in present : Nothing \notin Elements(pending[p]) =>
    wants[p] = PositionsOf(pending[p]) \cup InBatch(p) \cup told[p]

Pool == INSTANCE TaskPool
  WITH Tasks <- Chunks, NoTask <- Nothing, backlog <- queue, running <- task,
       submitted <- {k \in Chunks : k.nth <= created[k.at]}, closed <- FALSE

\* The world and its workers use the pool as it is meant to be used (and as WorkerPool
\* assumes): no chunk is queued twice, and workers take chunks in the order of creation.
UsesPool == Pool!Safety

\* Every chunk a player asks for reaches it, unless it leaves, however many others ask
\* and although a round sends only a batch, and skips what is not Ready; or the process
\* ends by the empty reference below.
Served ==
  \A p \in Players, pos \in Positions :
    (pos \in wants[p]) ~> (pos \in told[p] \/ p \notin present \/ ~Running)

\* getChunk(load = true) gives a chunk.
LoadGivesChunk == \A p \in present : Nothing \notin Elements(pending[p])
=============================================================================
