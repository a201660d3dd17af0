------------------------------ MODULE Sessions ------------------------------
(***************************************************************************)
(* Who is playing: Server.cpp (join, quit, disconnect, death and respawn), *)
(* PlayerList.cpp, the life of the net::Peer objects in Network.cpp, and   *)
(* what the clients do with the answers (ConnectingState, GameState and    *)
(* the handlers in network/client).                                        *)
(*                                                                         *)
(* ENet (external): a connection occupies a slot of the host's peer table, *)
(* messages of one channel arrive in order, messages of two channels in    *)
(* any order; a peer that stops answering is reported as disconnected.     *)
(*                                                                         *)
(* One action is one message received and handled by the server's main     *)
(* thread, one respawn thread, or one message handled by a client; but a   *)
(* disconnection is received in one step and handled in another, between   *)
(* which the other threads may run.                                        *)
(***************************************************************************)
EXTENDS Naturals, Sequences, FiniteSets

CONSTANTS
  Conns,   \* connections, that is Peer objects of the server's host; one join each
  Slots,   \* ENet's peer table, whose entries are used again
  Names,   \* player names
  MaxDeaths, \* bound: how many players die
  NoSlot

ASSUME SessionsAssumption ==
  /\ IsFiniteSet(Conns)
  /\ NoSlot \notin Slots
  /\ MaxDeaths \in Nat

Sess == 1 .. Cardinality(Conns)

VARIABLES
  peer,      \* the server's Peer object of each connection: "lost" when its ENet side is
             \* gone and its player not removed yet, "closing" when the next recv deletes it
  slot,      \* the ENet peer that object wraps
  players,   \* the server's G.players
  lastSess,  \* session ids drawn so far: FastRand does not repeat within so few draws
  respawns,  \* sessions a respawn thread is sleeping for
  client,    \* what each client is doing
  inbox,     \* to the server: PlayerJoin and PlayerQuit (channel Base)
  dying,     \* to the server: PlayerUpdateDie (another channel)
  base,      \* to each client, channel Base
  life,      \* to each client, channel Life
  roster,    \* each client's G.players: how often a session is listed
  mourning   \* sessions each client was told are dead and not yet respawned

serverVars == <<peer, slot, players, lastSess, respawns>>
clientVars == <<client, roster, mourning>>
toClient == <<base, life>>
vars == <<serverVars, clientVars, toClient, inbox, dying>>

----------------------------------------------------------------------------
(* Messages *)

Join(n) == [kind |-> "join", name |-> n]
Quit == [kind |-> "quit"]
Success == [kind |-> "success"]
Failure == [kind |-> "failure"]
Joined(s) == [kind |-> "joined", sess |-> s]
Left(s) == [kind |-> "left", sess |-> s]
Die(s) == [kind |-> "die", sess |-> s]
Respawned(s) == [kind |-> "respawned", sess |-> s]

ToServer == {Join(n) : n \in Names} \cup {Quit}
BaseMsg == {Success, Failure} \cup {Joined(s) : s \in Sess} \cup {Left(s) : s \in Sess}
LifeMsg == {Die(s) : s \in Sess} \cup {Respawned(s) : s \in Sess}
Player == [peer : Conns, name : Names, sessId : Sess]

\* Every player of the vector.
Players == {players[i] : i \in DOMAIN players}

\* A client whose process is there to read what the server sends it. What is sent to
\* any other is never read, and not kept.
Reads(c) == client[c] \in {"joining", "playing"}

\* enet_peer_send refuses to send to a peer that is disconnected.
Reaches(c) == peer[c] = "up" /\ Reads(c)

SendTo_Twice(D, ch, m) ==
  [c \in Conns |-> IF c \in D /\ Reaches(c) THEN ch[c] \o <<m, m>> ELSE ch[c]]

\* Add message m to the channel ch of everybody in D whom it can reach.
SendTo(D, ch, m) ==
  [c \in Conns |-> IF c \in D /\ Reaches(c) THEN Append(ch[c], m) ELSE ch[c]]

\* H.send to each player of the list but the one with session s.
OtherPeers(s) == {p.peer : p \in {q \in Players : q.sessId # s}}

----------------------------------------------------------------------------
\* Type invariant. A client never lists a session twice.
TypeOK ==
  /\ peer \in [Conns -> {"unborn", "up", "lost", "closing", "freed"}]
  /\ slot \in [Conns -> Slots \cup {NoSlot}]
  /\ players \in Seq(Player)
  /\ lastSess \in 0 .. Cardinality(Conns)
  /\ respawns \subseteq Sess
  /\ client \in [Conns -> {"off", "joining", "playing", "refused", "gone"}]
  /\ inbox \in [Conns -> Seq(ToServer)]
  /\ dying \in [Conns -> {"no", "sent", "handled"}]
  /\ base \in [Conns -> Seq(BaseMsg)]
  /\ life \in [Conns -> Seq(LifeMsg)]
  /\ roster \in [Conns -> [Sess -> {0, 1}]]
  /\ mourning \in [Conns -> SUBSET Sess]

Init ==
  /\ peer = [c \in Conns |-> "unborn"]
  /\ slot = [c \in Conns |-> NoSlot]
  /\ players = <<>>
  /\ lastSess = 0
  /\ respawns = {}
  /\ client = [c \in Conns |-> "off"]
  /\ inbox = [c \in Conns |-> <<>>]
  /\ dying = [c \in Conns |-> "no"]
  /\ base = [c \in Conns |-> <<>>]
  /\ life = [c \in Conns |-> <<>>]
  /\ roster = [c \in Conns |-> [s \in Sess |-> 0]]
  /\ mourning = [c \in Conns |-> {}]

----------------------------------------------------------------------------
(* The server's host. Every recv first deletes the Peers whose disconnection the *)
(* previous one reported and the main thread has handled.                        *)

\* The main thread is not busy handling a disconnection.
Receiving == \A c \in Conns : peer[c] # "lost"

PeersDeleted == [c \in Conns |-> IF peer[c] = "closing" THEN "freed" ELSE peer[c]]

ProcessPeersToDelete == peer' = PeersDeleted

\* CONNECT: a new Peer for an ENet slot that no connection occupies.
RecvConnect(c, s) ==
  /\ Receiving
  /\ peer[c] = "unborn"
  /\ client[c] = "off"
  /\ \A d \in Conns : peer[d] = "up" => slot[d] # s
  /\ peer' = [PeersDeleted EXCEPT ![c] = "up"]
  /\ slot' = [slot EXCEPT ![c] = s]
  /\ UNCHANGED <<players, lastSess, respawns, clientVars, toClient, inbox, dying>>

\* recv times out with nothing to report.
RecvNothing ==
  /\ Receiving
  /\ \E c \in Conns : peer[c] = "closing"
  /\ ProcessPeersToDelete
  /\ UNCHANGED <<slot, players, lastSess, respawns, clientVars, toClient, inbox, dying>>

\* PlayerList::getByPeer compares the ENet peers, so it finds the players of this slot.
ByPeer(c) == {i \in DOMAIN players : slot[players[i].peer] = slot[c]}

\* The first of them; lookups and removals act on that one.
First(I) == CHOOSE i \in I : \A j \in I : i <= j

\* PlayerList::remove: the rest of the vector moves down by one.
RemovedAt(q, i) == [j \in 1 .. Len(q) - 1 |-> IF j < i THEN q[j] ELSE q[j + 1]]

NewPlayer(c, n) == [peer |-> c, name |-> n, sessId |-> lastSess + 1]

----------------------------------------------------------------------------
(* The server's handlers, on its main thread. *)

TakeInbox(c) == inbox' = [inbox EXCEPT ![c] = Tail(@)]

NameTaken_SkipFirst(n) == \E i \in DOMAIN players : i > 1 /\ players[i].name = n

\* PlayerList::getByName finds somebody.
NameTaken(n) == \E p \in Players : p.name = n

AlreadyPlaying_Nobody == <<>>

\* What a newcomer is told of those who were there before it.
AlreadyPlaying == [i \in DOMAIN players |-> Joined(players[i].sessId)]

\* A PlayerJoinRequest for a name that somebody has.
HandlePlayerJoin_Taken(c, n) ==
  /\ NameTaken(n)
  /\ base' = SendTo({c}, base, Failure)
  /\ UNCHANGED <<players, lastSess>>

\* A PlayerJoinRequest for a free name: the player is added, the client is told that
\* it joined and then who was there before, and everybody else is told of it.
HandlePlayerJoin_Accept(c, n) ==
  LET plr == NewPlayer(c, n)
      broadcast == SendTo(OtherPeers(plr.sessId), base, Joined(plr.sessId))
  IN /\ ~NameTaken(n)
     /\ players' = Append(players, plr)
     /\ lastSess' = lastSess + 1
     /\ base' = IF Reaches(c)
                  THEN [broadcast EXCEPT ![c] = (@ \o <<Success>>) \o AlreadyPlaying]
                  ELSE broadcast

HandlePlayerJoin(c, n) ==
  /\ Receiving
  /\ peer[c] = "up"
  /\ inbox[c] # <<>>
  /\ Head(inbox[c]) = Join(n)
  /\ TakeInbox(c)
  /\ HandlePlayerJoin_Taken(c, n) \/ HandlePlayerJoin_Accept(c, n)
  /\ ProcessPeersToDelete
  /\ UNCHANGED <<slot, respawns, clientVars, life, dying>>

\* handlePlayerQuit(peer): the others are told, and the player goes.
RemovePlayer(c) ==
  IF ByPeer(c) = {}
    THEN UNCHANGED <<players, base>>
    ELSE LET i == First(ByPeer(c))
             s == players[i].sessId
         IN /\ base' = SendTo(OtherPeers(s), base, Left(s))
            /\ players' = RemovedAt(players, i)

\* A PlayerQuit message.
HandlePlayerQuit(c) ==
  /\ Receiving
  /\ peer[c] = "up"
  /\ inbox[c] # <<>>
  /\ Head(inbox[c]) = Quit
  /\ TakeInbox(c)
  /\ RemovePlayer(c)
  /\ ProcessPeersToDelete
  /\ UNCHANGED <<slot, lastSess, respawns, clientVars, life, dying>>

\* DISCONNECT: ENet has given up on a peer (it may do so to one that is there, when the
\* network fails). What it had sent and nobody received is lost; its Peer is in the list
\* of those the next recv deletes.
RecvDisconnect(c) ==
  /\ Receiving
  /\ peer[c] = "up"
  /\ peer' = [PeersDeleted EXCEPT ![c] = "lost"]
  /\ inbox' = [inbox EXCEPT ![c] = <<>>]
  /\ dying' = [dying EXCEPT ![c] = IF @ = "sent" THEN "handled" ELSE @]
  /\ UNCHANGED <<slot, players, lastSess, respawns, clientVars, toClient>>

HandleDisconnect_PeerOnly(c) ==
  /\ peer[c] = "lost"
  /\ peer' = [peer EXCEPT ![c] = "closing"]
  /\ UNCHANGED <<slot, players, lastSess, respawns, clientVars, toClient, inbox, dying>>

\* NetDisconnect, back in the main loop: the player of that Peer is removed.
HandleDisconnect(c) ==
  /\ peer[c] = "lost"
  /\ peer' = [peer EXCEPT ![c] = "closing"]
  /\ RemovePlayer(c)
  /\ UNCHANGED <<slot, lastSess, respawns, clientVars, life, inbox, dying>>

\* PlayerUpdateDie from a connection that has a player: the others are told, and a
\* thread is started that will sleep for two seconds.
HandlePlayerDeath(c) ==
  /\ Receiving
  /\ peer[c] = "up"
  /\ dying[c] = "sent"
  /\ dying' = [dying EXCEPT ![c] = "handled"]
  /\ \/ /\ ByPeer(c) = {}
        /\ UNCHANGED <<life, respawns>>
     \/ /\ ByPeer(c) # {}
        /\ LET s == players[First(ByPeer(c))].sessId
           IN /\ life' = SendTo(OtherPeers(s), life, Die(s))
              /\ respawns' = respawns \cup {s}
  /\ ProcessPeersToDelete
  /\ UNCHANGED <<slot, players, lastSess, clientVars, base, inbox>>

----------------------------------------------------------------------------
(* The server's other threads. *)

Respawn_ToPlayerOnly(s) ==
  /\ s \in respawns
  /\ respawns' = respawns \ {s}
  /\ life' = SendTo({p.peer : p \in {q \in Players : q.sessId = s}}, life, Respawned(s))
  /\ UNCHANGED <<peer, slot, players, lastSess, clientVars, base, inbox, dying>>

\* The respawn thread wakes up: if the player is still there, everybody is told.
Respawn(s) ==
  /\ s \in respawns
  /\ respawns' = respawns \ {s}
  /\ life' = IF \E p \in Players : p.sessId = s
               THEN SendTo(OtherPeers(0), life, Respawned(s))
               ELSE life
  /\ UNCHANGED <<peer, slot, players, lastSess, clientVars, base, inbox, dying>>

----------------------------------------------------------------------------
(* The clients. *)

\* The client stops reading for good, and what is under way to it is lost.
StopReading(c, how) ==
  /\ client' = [client EXCEPT ![c] = how]
  /\ base' = [base EXCEPT ![c] = <<>>]
  /\ life' = [life EXCEPT ![c] = <<>>]
  /\ mourning' = [mourning EXCEPT ![c] = {}]
  /\ roster' = [roster EXCEPT ![c] = [s \in Sess |-> 0]]

\* ConnectingState: once connected, ask to join under some name and wait.
SendJoin(c, n) ==
  /\ client[c] = "off"
  /\ peer[c] = "up"
  /\ client' = [client EXCEPT ![c] = "joining"]
  /\ inbox' = [inbox EXCEPT ![c] = Append(@, Join(n))]
  /\ UNCHANGED <<serverVars, roster, mourning, toClient, dying>>

\* The first message to arrive is PlayerJoinSuccess: the game starts.
JoinSucceeds(c) ==
  /\ client[c] = "joining"
  /\ base[c] # <<>>
  /\ Head(base[c]) = Success
  /\ base' = [base EXCEPT ![c] = Tail(@)]
  /\ client' = [client EXCEPT ![c] = "playing"]
  /\ UNCHANGED <<serverVars, roster, mourning, life, inbox, dying>>

\* The first message is anything else, on any channel, or does not come in 5 seconds:
\* a message is shown, and the client neither reads nor quits.
JoinFails(c) ==
  /\ client[c] = "joining"
  /\ StopReading(c, "refused")
  /\ UNCHANGED <<serverVars, inbox, dying>>

\* PlayerJoinHandler: one more entry in the list.
HearJoined(c, s) ==
  /\ roster' = [roster EXCEPT ![c][s] = @ + 1]
  /\ UNCHANGED mourning

\* PlayerQuitHandler: an entry with this session, if there is one, goes.
HearLeft(c, s) ==
  /\ roster' = [roster EXCEPT ![c][s] = IF @ = 0 THEN 0 ELSE @ - 1]
  /\ mourning' = [mourning EXCEPT ![c] = @ \ {s}]

\* processNetwork, channel Base; anything but a join or a quit is ignored.
HandleBase(c) ==
  /\ client[c] = "playing"
  /\ base[c] # <<>>
  /\ base' = [base EXCEPT ![c] = Tail(@)]
  /\ LET m == Head(base[c])
     IN CASE m.kind = "joined" -> HearJoined(c, m.sess)
          [] m.kind = "left" -> HearLeft(c, m.sess)
          [] OTHER -> UNCHANGED <<roster, mourning>>
  /\ UNCHANGED <<serverVars, client, life, inbox, dying>>

\* processNetwork, channel Life: PlayerUpdateHandler; a session not listed is ignored.
HandleLife(c) ==
  /\ client[c] = "playing"
  /\ life[c] # <<>>
  /\ life' = [life EXCEPT ![c] = Tail(@)]
  /\ LET m == Head(life[c])
     IN mourning' =
          [mourning EXCEPT ![c] =
             IF m.kind = "die" /\ roster[c][m.sess] > 0 THEN @ \cup {m.sess}
             ELSE IF m.kind = "respawned" THEN @ \ {m.sess} ELSE @]
  /\ UNCHANGED <<serverVars, client, roster, base, inbox, dying>>

\* The player dies, once: the server handles this message, though the client as shipped
\* never sends it.
SendDie(c) ==
  /\ client[c] = "playing"
  /\ peer[c] = "up"
  /\ dying[c] = "no"
  /\ Cardinality({d \in Conns : dying[d] # "no"}) < MaxDeaths
  /\ dying' = [dying EXCEPT ![c] = "sent"]
  /\ UNCHANGED <<serverVars, clientVars, toClient, inbox>>

\* GameState::onStop: the window is closed, and the quit message leaves.
ClientQuit(c) ==
  /\ client[c] = "playing"
  /\ StopReading(c, "gone")
  /\ inbox' = IF peer[c] = "up" THEN [inbox EXCEPT ![c] = Append(@, Quit)] ELSE inbox
  /\ UNCHANGED <<serverVars, dying>>

\* The process dies, its quit message is lost, or its own ENet gives up on the server.
ClientVanishes(c) ==
  /\ client[c] \in {"joining", "playing"} \/ (client[c] = "off" /\ peer[c] = "up")
  /\ StopReading(c, "gone")
  /\ UNCHANGED <<serverVars, inbox, dying>>

----------------------------------------------------------------------------
ServerRecv(c) ==
  \/ \E n \in Names : HandlePlayerJoin(c, n)
  \/ HandlePlayerQuit(c)
  \/ HandlePlayerDeath(c)

ClientStep(c) ==
  \/ \E n \in Names : SendJoin(c, n)
  \/ JoinSucceeds(c)
  \/ JoinFails(c)
  \/ HandleBase(c)
  \/ HandleLife(c)
  \/ SendDie(c)
  \/ ClientQuit(c)
  \/ ClientVanishes(c)

Next ==
  \/ \E c \in Conns : \E s \in Slots : RecvConnect(c, s)
  \/ \E c \in Conns : ServerRecv(c) \/ RecvDisconnect(c) \/ HandleDisconnect(c) \/ ClientStep(c)
  \/ RecvNothing
  \/ \E s \in Sess : Respawn(s)

\* A client that has stopped answering.
Silent(c) == client[c] \in {"refused", "gone"}

\* The server's threads and the clients' window loops run; ENet, on either
\* side, gives up on a peer that does not answer. Nothing makes a client connect, die, quit or fail.
Fairness ==
  /\ WF_vars(RecvNothing)
  /\ \A s \in Sess : WF_vars(Respawn(s))
  /\ \A c \in Conns :
       /\ WF_vars(ServerRecv(c))
       /\ WF_vars(Silent(c) /\ RecvDisconnect(c))
       /\ WF_vars(HandleDisconnect(c))
       /\ WF_vars(peer[c] # "up" /\ ClientVanishes(c))
       /\ WF_vars(HandleBase(c))
       /\ WF_vars(HandleLife(c))

Safety == Init /\ [][Next]_vars

Spec == Safety /\ Fairness

----------------------------------------------------------------------------
(* Properties *)

\* No two players share a name, a session id, a Peer or an ENet slot, whatever order
\* joins, quits, time-outs and reused slots come in: so the lookups by name, by session
\* and by peer all mean one player.
PlayersDistinct ==
  \A i, j \in DOMAIN players : i # j =>
    /\ players[i].name # players[j].name
    /\ players[i].sessId # players[j].sessId
    /\ players[i].peer # players[j].peer
    /\ slot[players[i].peer] # slot[players[j].peer]

\* A player goes before its Peer does: no player of the list, at any step of any of the
\* server's threads, has a Peer that was deleted or that the next recv would delete before
\* the main thread removes the player. Its ENet peer may be disconnected already (the other
\* threads' messages are then dropped), its slot cannot have been used again. A thread
\* caught by the removal in the middle of its loop over the list is another matter.
PeersLive ==
  \A p \in Players :
    /\ peer[p.peer] \in {"up", "lost"}
    /\ \A c \in Conns : slot[c] = slot[p.peer] /\ peer[c] \in {"up", "lost"} => c = p.peer

\* What the client's list becomes when it has read everything that is under way.
Count(c, m) == Cardinality({i \in DOMAIN base[c] : base[c][i] = m})

\* Whoever plays ends up with exactly the other players in its list: for each session,
\* what it lists now plus the joins minus the quits still under way is one for those
\* on the server and zero for everyone else. A join racing another's quit loses nobody
\* and leaves no ghost.
RosterConverges ==
  \A p \in Players : client[p.peer] = "playing" =>
    \A s \in Sess :
      roster[p.peer][s] + Count(p.peer, Joined(s)) - Count(p.peer, Left(s)) =
        IF \E q \in Players : q.sessId = s /\ q # p THEN 1 ELSE 0

\* A client that failed to join, crashed or left does not stay on the server for ever:
\* its player, even one its late join request still creates, is removed for good, and
\* its name is free again.
SilentIsRemoved ==
  \A c \in Conns : Silent(c) ~> [](\A p \in Players : p.peer # c)

\* Whoever a playing client was told is dead, it is later told has respawned or left.
DeadComeBack ==
  \A c \in Conns : \A s \in Sess : s \in mourning[c] ~> s \notin mourning[c]
=============================================================================
