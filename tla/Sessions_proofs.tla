-------------------------- MODULE Sessions_proofs --------------------------
(***************************************************************************)
(* Proofs about Sessions for any number of connections, slots and names:   *)
(* players are distinct, and the peer of each outlives it. Neither holds   *)
(* without the other: quits and time-outs find the player through its      *)
(* ENet slot, which identifies it only because no dead peer's player is    *)
(* left to share the slot with a newcomer's.                               *)
(***************************************************************************)
EXTENDS Sessions, SequenceTheorems, TLAPS

\* The types of what the argument is about (TypeOK bounds the sessions, too).
PlayerRec == [peer : Conns, name : Names, sessId : Nat]
ServerTypes ==
  /\ peer \in [Conns -> {"unborn", "up", "lost", "closing", "freed"}]
  /\ slot \in [Conns -> Slots \cup {NoSlot}]
  /\ players \in Seq(PlayerRec)
  /\ lastSess \in Nat
  /\ client \in [Conns -> {"off", "joining", "playing", "refused", "gone"}]
  /\ inbox \in [Conns -> Seq(ToServer)]

\* Its ENet slot is its own: it is connected, or its disconnection is being handled.
Held(c) == peer[c] \in {"up", "lost"}

SlotsDistinct ==
  \A c, d \in Conns : Held(c) /\ Held(d) /\ c # d => slot[c] # slot[d]

\* One disconnection is handled at a time.
OneLost == \A c, d \in Conns : peer[c] = "lost" /\ peer[d] = "lost" => c = d

\* The peer of each player is held.
PeersHeld == \A i \in DOMAIN players : Held(players[i].peer)

\* Session ids are drawn in order.
SessionsDrawn == \A i \in DOMAIN players : players[i].sessId \in 1 .. lastSess

KeysDistinct ==
  \A i, j \in DOMAIN players : i # j =>
    /\ players[i].name # players[j].name
    /\ players[i].sessId # players[j].sessId
    /\ players[i].peer # players[j].peer

Playing(c) == \E i \in DOMAIN players : players[i].peer = c

\* Nobody joins twice: a request to join is the first message of its connection.
JoinsOnce ==
  \A c \in Conns :
    /\ client[c] = "off" => inbox[c] = <<>> /\ ~Playing(c)
    /\ \A k \in 1 .. Len(inbox[c]) : k > 1 => inbox[c][k] = Quit
    /\ inbox[c] # <<>> /\ Head(inbox[c]) # Quit => ~Playing(c)

SessionsInv ==
  /\ ServerTypes /\ SlotsDistinct /\ OneLost /\ PeersHeld
  /\ SessionsDrawn /\ KeysDistinct /\ JoinsOnce

(* What one step may do, named once for the case split below. *)
LEMMA SessionSteps ==
  ASSUME [Next]_vars, NEW P,
         \A c \in Conns : \A s \in Slots : RecvConnect(c, s) => P,
         RecvNothing => P,
         \A c \in Conns : \A n \in Names : HandlePlayerJoin(c, n) => P,
         \A c \in Conns : HandlePlayerQuit(c) => P,
         \A c \in Conns : HandlePlayerDeath(c) => P,
         \A c \in Conns : RecvDisconnect(c) => P,
         \A c \in Conns : HandleDisconnect(c) => P,
         \A s \in Sess : Respawn(s) => P,
         \A c \in Conns : \A n \in Names : SendJoin(c, n) => P,
         \A c \in Conns : JoinSucceeds(c) => P,
         \A c \in Conns : JoinFails(c) => P,
         \A c \in Conns : HandleBase(c) => P,
         \A c \in Conns : HandleLife(c) => P,
         \A c \in Conns : SendDie(c) => P,
         \A c \in Conns : ClientQuit(c) => P,
         \A c \in Conns : ClientVanishes(c) => P,
         UNCHANGED vars => P
  PROVE  P
  BY DEF Next, ServerRecv, ClientStep

----------------------------------------------------------------------------
(* Lemmas about the host and the player list. *)

(* The deletions of a recv leave the peers that hold a slot as they are. *)
LEMMA DeletedPeers ==
  ASSUME ServerTypes
  PROVE  /\ PeersDeleted \in [Conns -> {"unborn", "up", "lost", "closing", "freed"}]
         /\ \A c \in Conns : PeersDeleted[c] = "up" <=> peer[c] = "up"
         /\ \A c \in Conns : PeersDeleted[c] = "lost" <=> peer[c] = "lost"
  BY DEF ServerTypes, PeersDeleted

(* DOMAIN of the player list. *)
LEMMA PlayersDomain ==
  ASSUME ServerTypes
  PROVE  /\ Len(players) \in Nat
         /\ DOMAIN players = 1 .. Len(players)
         /\ \A i \in DOMAIN players : players[i] \in PlayerRec
  BY LenProperties, ElementOfSeq DEF ServerTypes

(* The slot of a peer that holds it finds its own player, and no other. *)
LEMMA ByPeerFinds ==
  ASSUME SessionsInv, NEW c \in Conns, Held(c)
  PROVE  ByPeer(c) = {i \in DOMAIN players : players[i].peer = c}
  <1>1. \A i \in DOMAIN players : players[i].peer \in Conns /\ Held(players[i].peer)
    BY PlayersDomain DEF SessionsInv, PlayerRec, PeersHeld
  <1> QED
    BY <1>1 DEF SessionsInv, SlotsDistinct, ByPeer

(* So it is the first, and the only one, that handlePlayerQuit removes. *)
LEMMA FirstByPeer ==
  ASSUME SessionsInv, NEW c \in Conns, Held(c), ByPeer(c) # {}
  PROVE  /\ First(ByPeer(c)) \in DOMAIN players
         /\ players[First(ByPeer(c))].peer = c
         /\ ByPeer(c) = {First(ByPeer(c))}
  <1>1. PICK k \in ByPeer(c) : TRUE
    OBVIOUS
  <1>2. k \in DOMAIN players /\ players[k].peer = c
    BY <1>1, ByPeerFinds
  <1>3. ByPeer(c) = {k}
    BY <1>2, ByPeerFinds DEF SessionsInv, KeysDistinct
  <1>4. k \in Nat
    BY <1>2, PlayersDomain DEF SessionsInv
  <1>5. First({k}) = k
    BY <1>4 DEF First
  <1> QED
    BY <1>2, <1>3, <1>5

(* Removing an element leaves the others, in order. *)
LEMMA RemovedElements ==
  ASSUME NEW S, NEW q \in Seq(S), NEW i \in DOMAIN q
  PROVE  /\ RemovedAt(q, i) \in Seq(S)
         /\ DOMAIN RemovedAt(q, i) = 1 .. Len(q) - 1
         /\ \A j \in 1 .. Len(q) - 1 :
              RemovedAt(q, i)[j] = IF j < i THEN q[j] ELSE q[j + 1]
  <1>1. Len(q) \in Nat /\ DOMAIN q = 1 .. Len(q)
    BY LenProperties
  <1>2. Len(q) - 1 \in Nat
    BY <1>1
  <1>3. RemovedAt(q, i) \in [1 .. Len(q) - 1 -> S]
    <2> SUFFICES ASSUME NEW j \in 1 .. Len(q) - 1
                 PROVE  (IF j < i THEN q[j] ELSE q[j + 1]) \in S
      BY DEF RemovedAt
    <2>1. j \in 1 .. Len(q) /\ j + 1 \in 1 .. Len(q)
      BY <1>1
    <2> QED
      BY <2>1, ElementOfSeq
  <1>4. RemovedAt(q, i) \in Seq(S)
    BY <1>2, <1>3, SeqDef
  <1> QED
    BY <1>3, <1>4 DEF RemovedAt

(* handlePlayerQuit leaves the other players' entries, each once, and none of this *)
(* connection.                                                                     *)
LEMMA OthersRemain ==
  ASSUME SessionsInv, NEW c \in Conns, Held(c), RemovePlayer(c)
  PROVE  /\ players' \in Seq(PlayerRec)
         /\ \E f \in [DOMAIN players' -> DOMAIN players] :
              /\ \A i, j \in DOMAIN players' : i # j => f[i] # f[j]
              /\ \A i \in DOMAIN players' : players'[i] = players[f[i]]
         /\ \A i \in DOMAIN players' : players'[i].peer # c
  <1>1. CASE ByPeer(c) = {}
    <2>1. players' = players
      BY <1>1 DEF RemovePlayer
    <2>2. \A i \in DOMAIN players' : players'[i].peer # c
      BY <1>1, <2>1, ByPeerFinds
    <2>3. [i \in DOMAIN players |-> i] \in [DOMAIN players' -> DOMAIN players]
      BY <2>1
    <2> QED
      BY <2>1, <2>2, <2>3 DEF SessionsInv, ServerTypes
  <1>2. CASE ByPeer(c) # {}
    <2> DEFINE k == First(ByPeer(c))
    <2>1. k \in DOMAIN players /\ players[k].peer = c /\ ByPeer(c) = {k}
      BY <1>2, FirstByPeer
    <2>2. players' = RemovedAt(players, k)
      BY <1>2 DEF RemovePlayer
    <2> HIDE DEF k
    <2>3. Len(players) \in Nat /\ DOMAIN players = 1 .. Len(players)
      BY PlayersDomain DEF SessionsInv
    <2>4. /\ players' \in Seq(PlayerRec)
          /\ DOMAIN players' = 1 .. Len(players) - 1
          /\ \A j \in 1 .. Len(players) - 1 :
               players'[j] = IF j < k THEN players[j] ELSE players[j + 1]
      BY <2>1, <2>2, RemovedElements DEF SessionsInv, ServerTypes
    <2> DEFINE f == [j \in DOMAIN players' |-> IF j < k THEN j ELSE j + 1]
    <2>5. f \in [DOMAIN players' -> DOMAIN players]
      BY <2>1, <2>3, <2>4
    <2>6. \A i, j \in DOMAIN players' : i # j => f[i] # f[j]
      BY <2>1, <2>3, <2>4
    <2>7. \A i \in DOMAIN players' : players'[i] = players[f[i]] /\ f[i] # k
      BY <2>1, <2>3, <2>4
    <2>8. \A i \in DOMAIN players' : players'[i].peer # c
      <3> SUFFICES ASSUME NEW i \in DOMAIN players', players'[i].peer = c PROVE FALSE
        OBVIOUS
      <3>1. players[f[i]].peer = c /\ f[i] \in DOMAIN players /\ f[i] # k
        BY <2>5, <2>7
      <3>2. f[i] \in ByPeer(c)
        BY <3>1, ByPeerFinds
      <3> QED
        BY <2>1, <3>1, <3>2
    <2> HIDE DEF f
    <2> QED
      BY <2>4, <2>5, <2>6, <2>7, <2>8
  <1> QED
    BY <1>1, <1>2

----------------------------------------------------------------------------
(* Every step preserves the invariant. *)

(* A step that changes neither the players nor who holds a slot. *)
LEMMA PlayersUnchanged ==
  ASSUME SessionsInv,
         UNCHANGED <<players, slot, lastSess>>,
         peer' = peer \/ peer' = PeersDeleted
  PROVE  SlotsDistinct' /\ OneLost' /\ PeersHeld' /\ SessionsDrawn' /\ KeysDistinct'
  <1>1. \A c \in Conns : (Held(c)' <=> Held(c)) /\ (peer'[c] = "lost" <=> peer[c] = "lost")
    BY DeletedPeers DEF SessionsInv, Held
  <1>2. \A i \in DOMAIN players : players[i].peer \in Conns
    BY PlayersDomain DEF SessionsInv, PlayerRec
  <1>3. SlotsDistinct' /\ OneLost'
    BY <1>1 DEF SessionsInv, SlotsDistinct, OneLost
  <1>4. PeersHeld'
    BY <1>1, <1>2 DEF SessionsInv, PeersHeld
  <1> QED
    BY <1>3, <1>4 DEF SessionsInv, SessionsDrawn, KeysDistinct

(* A step of client c that only moves on, with nothing new to say. *)
LEMMA ClientMovesOn ==
  ASSUME SessionsInv, NEW c \in Conns, UNCHANGED <<serverVars, inbox>>,
         client' = client \/ client' = [client EXCEPT ![c] = "gone"]
           \/ client' = [client EXCEPT ![c] = "refused"]
           \/ client' = [client EXCEPT ![c] = "playing"]
  PROVE  SessionsInv'
  <1> USE DEF serverVars
  <1>1. ServerTypes'
    BY DEF SessionsInv, ServerTypes
  <1>2. SlotsDistinct' /\ OneLost' /\ PeersHeld' /\ SessionsDrawn' /\ KeysDistinct'
    BY PlayersUnchanged
  <1>3. JoinsOnce'
    <2>1. \A d \in Conns : client'[d] = "off" => client[d] = "off"
      BY DEF SessionsInv, ServerTypes
    <2> QED
      BY <2>1 DEF SessionsInv, JoinsOnce, Playing
  <1> QED
    BY <1>1, <1>2, <1>3 DEF SessionsInv

(* Behind the first message of a connection there are only quits. *)
LEMMA RestIsQuit ==
  ASSUME SessionsInv, NEW c \in Conns, inbox[c] # <<>>
  PROVE  LET rest == Tail(inbox[c])
         IN /\ \A k \in 1 .. Len(rest) : rest[k] = Quit
            /\ rest # <<>> => Head(rest) = Quit
  <1> DEFINE rest == Tail(inbox[c])
  <1>1. inbox[c] \in Seq(ToServer)
    BY DEF SessionsInv, ServerTypes
  <1>2. /\ Len(rest) = Len(inbox[c]) - 1
        /\ \A k \in 1 .. Len(inbox[c]) - 1 : rest[k] = inbox[c][k + 1]
        /\ rest \in Seq(ToServer)
    BY <1>1, HeadTailProperties
  <1>3. Len(inbox[c]) \in Nat
    BY <1>1, LenProperties
  <1> HIDE DEF rest
  <1>4. \A k \in 1 .. Len(rest) : rest[k] = Quit
    <2> SUFFICES ASSUME NEW k \in 1 .. Len(rest) PROVE rest[k] = Quit
      OBVIOUS
    <2>1. k + 1 \in 1 .. Len(inbox[c]) /\ k + 1 > 1 /\ rest[k] = inbox[c][k + 1]
      BY <1>2, <1>3
    <2> QED
      BY <2>1 DEF SessionsInv, JoinsOnce
  <1>5. ASSUME rest # <<>> PROVE Head(rest) = Quit
    <2>1. 1 \in 1 .. Len(rest) /\ Head(rest) = rest[1]
      BY <1>2, <1>5, HeadTailProperties, EmptySeq, LenProperties
    <2> QED
      BY <1>4, <2>1
  <1> QED
    BY <1>4, <1>5 DEF rest

(* A step that takes the first message of a connection that is not asking to join, *)
(* and may take some player out of the list.                                       *)
LEMMA InboxTaken ==
  ASSUME SessionsInv, NEW c \in Conns,
         UNCHANGED client,
         inbox' = inbox \/ TakeInbox(c) \/ inbox' = [inbox EXCEPT ![c] = <<>>],
         inbox' # inbox => inbox[c] # <<>>,
         \A d \in Conns : Playing(d)' => Playing(d)
  PROVE  JoinsOnce'
  <1> SUFFICES ASSUME NEW d \in Conns
               PROVE  /\ client'[d] = "off" => inbox'[d] = <<>> /\ ~Playing(d)'
                      /\ \A k \in 1 .. Len(inbox'[d]) : k > 1 => inbox'[d][k] = Quit
                      /\ inbox'[d] # <<>> /\ Head(inbox'[d]) # Quit => ~Playing(d)'
    BY DEF JoinsOnce
  <1>0. inbox[d] \in Seq(ToServer) /\ inbox \in [Conns -> Seq(ToServer)]
    BY DEF SessionsInv, ServerTypes
  <1>1. CASE inbox'[d] = inbox[d]
    BY <1>1 DEF SessionsInv, JoinsOnce
  <1>2. CASE inbox'[d] = <<>>
    <2>1. Len(inbox'[d]) = 0
      BY <1>2, EmptySeq
    <2> QED
      BY <1>2, <2>1 DEF SessionsInv, JoinsOnce
  <1>3. CASE d = c /\ inbox[c] # <<>> /\ inbox'[d] = Tail(inbox[d])
    BY <1>3, RestIsQuit DEF SessionsInv, JoinsOnce
  <1>4. inbox'[d] = inbox[d] \/ inbox'[d] = <<>>
          \/ (d = c /\ inbox[c] # <<>> /\ inbox'[d] = Tail(inbox[d]))
    BY <1>0 DEF TakeInbox
  <1> QED
    BY <1>1, <1>2, <1>3, <1>4

(* A player leaves, or was not there: the connection's Peer lives on or is closing. *)
LEMMA PlayerLeaves ==
  ASSUME SessionsInv, NEW c \in Conns, Held(c), RemovePlayer(c),
         UNCHANGED <<slot, lastSess>>,
         peer' = PeersDeleted \/ peer' = [peer EXCEPT ![c] = "closing"]
  PROVE  /\ players' \in Seq(PlayerRec)
         /\ SlotsDistinct' /\ OneLost' /\ PeersHeld' /\ SessionsDrawn' /\ KeysDistinct'
         /\ \A d \in Conns : Playing(d)' => Playing(d)
  <1>0. /\ players' \in Seq(PlayerRec)
        /\ \A i \in DOMAIN players' : players'[i].peer # c
    BY OthersRemain
  <1>1. PICK f \in [DOMAIN players' -> DOMAIN players] :
          /\ \A i, j \in DOMAIN players' : i # j => f[i] # f[j]
          /\ \A i \in DOMAIN players' : players'[i] = players[f[i]]
    BY OthersRemain
  <1>2. \A d \in Conns : d # c => (Held(d)' <=> Held(d))
    BY DeletedPeers DEF SessionsInv, Held, ServerTypes
  <1>3. \A d \in Conns : (Held(d)' => Held(d)) /\ (peer'[d] = "lost" => peer[d] = "lost")
    BY DeletedPeers DEF SessionsInv, Held, ServerTypes
  <1>4. \A i \in DOMAIN players : players[i].peer \in Conns
    BY PlayersDomain DEF SessionsInv, PlayerRec
  <1>5. SlotsDistinct' /\ OneLost'
    BY <1>3 DEF SessionsInv, SlotsDistinct, OneLost
  <1>6. PeersHeld'
    BY <1>0, <1>1, <1>2, <1>4 DEF SessionsInv, PeersHeld
  <1>7. SessionsDrawn'
    BY <1>1 DEF SessionsInv, SessionsDrawn
  <1>8. KeysDistinct'
    BY <1>1 DEF SessionsInv, KeysDistinct
  <1>9. \A d \in Conns : Playing(d)' => Playing(d)
    BY <1>1 DEF Playing
  <1> QED
    BY <1>0, <1>5, <1>6, <1>7, <1>8, <1>9

(* A player is added: the slot, the name, the session and the connection are new. *)
LEMMA PlayerAdded ==
  ASSUME SessionsInv, NEW c \in Conns, NEW n \in Names,
         peer[c] = "up", inbox[c] # <<>>, Head(inbox[c]) = Join(n),
         TakeInbox(c), HandlePlayerJoin_Accept(c, n), ProcessPeersToDelete,
         UNCHANGED <<slot, client>>
  PROVE  SessionsInv'
  <1> DEFINE plr == NewPlayer(c, n)
  <1>1. ~Playing(c)
    BY DEF SessionsInv, JoinsOnce, Join, Quit
  <1>2. /\ plr \in PlayerRec /\ plr.peer = c /\ plr.name = n /\ plr.sessId = lastSess + 1
    BY DEF NewPlayer, PlayerRec, SessionsInv, ServerTypes
  <1>3. players' = Append(players, plr) /\ lastSess' = lastSess + 1 /\ ~NameTaken(n)
    BY DEF HandlePlayerJoin_Accept
  <1> HIDE DEF plr
  <1>4. /\ Len(players) \in Nat /\ DOMAIN players = 1 .. Len(players)
        /\ \A i \in DOMAIN players : players[i] \in PlayerRec
    BY PlayersDomain DEF SessionsInv
  <1>5. /\ players' \in Seq(PlayerRec)
        /\ DOMAIN players' = 1 .. Len(players) + 1
        /\ \A i \in DOMAIN players : players'[i] = players[i]
        /\ players'[Len(players) + 1] = plr
    BY <1>2, <1>3, <1>4, AppendProperties DEF SessionsInv, ServerTypes
  <1>6. \A i \in DOMAIN players' : i \in DOMAIN players \/ i = Len(players) + 1
    BY <1>4, <1>5
  <1>7. \A d \in Conns : (Held(d)' <=> Held(d)) /\ (peer'[d] = "lost" <=> peer[d] = "lost")
    BY DeletedPeers DEF SessionsInv, ProcessPeersToDelete, Held
  <1>8. ServerTypes'
    <2>1. peer' \in [Conns -> {"unborn", "up", "lost", "closing", "freed"}]
      BY DeletedPeers DEF SessionsInv, ProcessPeersToDelete
    <2>2. Tail(inbox[c]) \in Seq(ToServer)
      BY HeadTailProperties DEF SessionsInv, ServerTypes
    <2>3. inbox' \in [Conns -> Seq(ToServer)]
      BY <2>2 DEF TakeInbox, SessionsInv, ServerTypes
    <2> QED
      BY <1>3, <1>5, <2>1, <2>3 DEF SessionsInv, ServerTypes
  <1>9. SlotsDistinct' /\ OneLost'
    BY <1>7 DEF SessionsInv, SlotsDistinct, OneLost
  <1>10. PeersHeld'
    <2>1. \A i \in DOMAIN players : players[i].peer \in Conns
      BY <1>4 DEF PlayerRec
    <2> QED
      BY <1>2, <1>5, <1>6, <1>7, <2>1 DEF SessionsInv, PeersHeld, Held
  <1>11. SessionsDrawn'
    <2>1. \A i \in DOMAIN players : players[i].sessId \in 1 .. lastSess
      BY DEF SessionsInv, SessionsDrawn
    <2> QED
      BY <1>2, <1>3, <1>5, <1>6, <2>1 DEF SessionsInv, ServerTypes, SessionsDrawn
  <1>12. KeysDistinct'
    <2>1. \A i \in DOMAIN players : /\ players[i].name # n
                                   /\ players[i].peer # c
                                   /\ players[i].sessId # lastSess + 1
      <3>1. \A i \in DOMAIN players : players[i].name # n
        BY <1>3 DEF NameTaken, Players
      <3>2. \A i \in DOMAIN players : players[i].peer # c
        BY <1>1 DEF Playing
      <3>3. \A i \in DOMAIN players : players[i].sessId \in Nat /\ players[i].sessId <= lastSess
        BY <1>4 DEF SessionsInv, SessionsDrawn, PlayerRec, ServerTypes
      <3> QED
        BY <3>1, <3>2, <3>3 DEF SessionsInv, ServerTypes
    <2> QED
      BY <1>2, <1>5, <1>6, <2>1 DEF SessionsInv, KeysDistinct
  <1>13. JoinsOnce'
    <2> SUFFICES ASSUME NEW d \in Conns
                 PROVE  /\ client'[d] = "off" => inbox'[d] = <<>> /\ ~Playing(d)'
                        /\ \A k \in 1 .. Len(inbox'[d]) : k > 1 => inbox'[d][k] = Quit
                        /\ inbox'[d] # <<>> /\ Head(inbox'[d]) # Quit => ~Playing(d)'
      BY DEF JoinsOnce
    <2>1. CASE d = c
      <3>1. inbox'[d] = Tail(inbox[c])
        BY <2>1 DEF TakeInbox, SessionsInv, ServerTypes
      <3>2. client'[d] # "off"
        BY <2>1 DEF SessionsInv, JoinsOnce
      <3> QED
        BY <3>1, <3>2, RestIsQuit
    <2>2. CASE d # c
      <3>1. inbox'[d] = inbox[d]
        BY <2>2 DEF TakeInbox, SessionsInv, ServerTypes
      <3>2. Playing(d)' => Playing(d)
        BY <1>2, <1>5, <1>6, <2>2 DEF Playing
      <3> QED
        BY <3>1, <3>2 DEF SessionsInv, JoinsOnce
    <2> QED
      BY <2>1, <2>2
  <1> QED
    BY <1>8, <1>9, <1>10, <1>11, <1>12, <1>13 DEF SessionsInv

(* Types of a step that takes nothing from or adds nothing to the player list. *)
LEMMA InboxTypes ==
  ASSUME SessionsInv, NEW c \in Conns,
         inbox' = inbox \/ (TakeInbox(c) /\ inbox[c] # <<>>)
           \/ inbox' = [inbox EXCEPT ![c] = <<>>]
  PROVE  inbox' \in [Conns -> Seq(ToServer)]
  <1>1. inbox[c] # <<>> => Tail(inbox[c]) \in Seq(ToServer)
    BY HeadTailProperties DEF SessionsInv, ServerTypes
  <1>2. <<>> \in Seq(ToServer)
    BY EmptySeq
  <1> QED
    BY <1>1, <1>2 DEF SessionsInv, ServerTypes, TakeInbox

(* The invariant is inductive. *)
LEMMA SessionsStep == SessionsInv /\ [Next]_vars => SessionsInv'
  <1> SUFFICES ASSUME SessionsInv, [Next]_vars PROVE SessionsInv'
    OBVIOUS
  <1>1. ASSUME NEW c \in Conns, NEW s \in Slots, RecvConnect(c, s)
        PROVE  SessionsInv'
    <2>1. peer[c] = "unborn" /\ client[c] = "off" /\ ~Playing(c)
      BY <1>1 DEF RecvConnect, SessionsInv, JoinsOnce
    <2>2. /\ peer' = [PeersDeleted EXCEPT ![c] = "up"]
          /\ slot' = [slot EXCEPT ![c] = s]
          /\ \A d \in Conns : Held(d) => slot[d] # s
          /\ UNCHANGED <<players, lastSess, client, inbox>>
      BY <1>1 DEF RecvConnect, clientVars, Receiving, Held
    <2>3. /\ PeersDeleted \in [Conns -> {"unborn", "up", "lost", "closing", "freed"}]
          /\ \A d \in Conns : PeersDeleted[d] = "up" <=> peer[d] = "up"
          /\ \A d \in Conns : PeersDeleted[d] = "lost" <=> peer[d] = "lost"
      BY DeletedPeers DEF SessionsInv
    <2>4. ServerTypes'
      BY <2>2, <2>3 DEF SessionsInv, ServerTypes
    <2>5. \A d \in Conns : /\ Held(d)' <=> d = c \/ Held(d)
                           /\ peer'[d] = "lost" => peer[d] = "lost"
                           /\ slot'[d] = IF d = c THEN s ELSE slot[d]
      BY <2>2, <2>3 DEF SessionsInv, ServerTypes, Held
    <2>6. SlotsDistinct' /\ OneLost'
      BY <2>2, <2>5 DEF SessionsInv, SlotsDistinct, OneLost
    <2>7. PeersHeld'
      <3>1. \A i \in DOMAIN players : players[i].peer \in Conns
        BY PlayersDomain DEF SessionsInv, PlayerRec
      <3> QED
        BY <2>2, <2>5, <3>1 DEF SessionsInv, PeersHeld
    <2>8. SessionsDrawn' /\ KeysDistinct' /\ JoinsOnce'
      BY <2>2 DEF SessionsInv, SessionsDrawn, KeysDistinct, JoinsOnce, Playing
    <2> QED
      BY <2>4, <2>6, <2>7, <2>8 DEF SessionsInv
  <1>2. ASSUME RecvNothing PROVE SessionsInv'
    <2>1. UNCHANGED <<slot, players, lastSess, client, inbox>> /\ peer' = PeersDeleted
      BY <1>2 DEF RecvNothing, ProcessPeersToDelete, clientVars
    <2>2. ServerTypes'
      BY <2>1, DeletedPeers DEF SessionsInv, ServerTypes
    <2>3. JoinsOnce'
      BY <2>1 DEF SessionsInv, JoinsOnce, Playing
    <2> QED
      BY <2>1, <2>2, <2>3, PlayersUnchanged DEF SessionsInv
  <1>3. ASSUME NEW c \in Conns, NEW n \in Names, HandlePlayerJoin(c, n)
        PROVE  SessionsInv'
    <2>1. /\ peer[c] = "up" /\ inbox[c] # <<>> /\ Head(inbox[c]) = Join(n)
          /\ TakeInbox(c) /\ ProcessPeersToDelete
          /\ UNCHANGED <<slot, client>>
      BY <1>3 DEF HandlePlayerJoin, clientVars
    <2>2. CASE HandlePlayerJoin_Taken(c, n)
      <3>1. UNCHANGED <<slot, players, lastSess, client>> /\ peer' = PeersDeleted
        BY <2>1, <2>2 DEF HandlePlayerJoin_Taken, ProcessPeersToDelete
      <3>2. ServerTypes'
        BY <2>1, <3>1, DeletedPeers, InboxTypes DEF SessionsInv, ServerTypes
      <3>3. \A d \in Conns : Playing(d)' => Playing(d)
        BY <3>1 DEF Playing
      <3>4. JoinsOnce'
        BY <2>1, <3>1, <3>3, InboxTaken
      <3> QED
        BY <3>1, <3>2, <3>4, PlayersUnchanged DEF SessionsInv
    <2>3. CASE HandlePlayerJoin_Accept(c, n)
      BY <2>1, <2>3, PlayerAdded
    <2> QED
      BY <1>3, <2>2, <2>3 DEF HandlePlayerJoin
  <1>4. ASSUME NEW c \in Conns, HandlePlayerQuit(c) PROVE SessionsInv'
    <2>1. /\ Held(c) /\ inbox[c] # <<>> /\ TakeInbox(c) /\ RemovePlayer(c)
          /\ peer' = PeersDeleted
          /\ UNCHANGED <<slot, lastSess, client>>
      BY <1>4 DEF HandlePlayerQuit, ProcessPeersToDelete, clientVars, Held
    <2>2. /\ players' \in Seq(PlayerRec)
          /\ SlotsDistinct' /\ OneLost' /\ PeersHeld' /\ SessionsDrawn' /\ KeysDistinct'
          /\ \A d \in Conns : Playing(d)' => Playing(d)
      BY <2>1, PlayerLeaves
    <2>3. ServerTypes'
      BY <2>1, <2>2, DeletedPeers, InboxTypes DEF SessionsInv, ServerTypes
    <2>4. JoinsOnce'
      BY <2>1, <2>2, InboxTaken
    <2> QED
      BY <2>2, <2>3, <2>4 DEF SessionsInv
  <1>5. ASSUME NEW c \in Conns, HandlePlayerDeath(c) PROVE SessionsInv'
    <2>1. UNCHANGED <<slot, players, lastSess, client, inbox>> /\ peer' = PeersDeleted
      BY <1>5 DEF HandlePlayerDeath, ProcessPeersToDelete, clientVars
    <2>2. ServerTypes'
      BY <2>1, DeletedPeers DEF SessionsInv, ServerTypes
    <2>3. JoinsOnce'
      BY <2>1 DEF SessionsInv, JoinsOnce, Playing
    <2> QED
      BY <2>1, <2>2, <2>3, PlayersUnchanged DEF SessionsInv
  <1>6. ASSUME NEW c \in Conns, HandleDisconnect(c) PROVE SessionsInv'
    <2>1. /\ Held(c) /\ RemovePlayer(c)
          /\ peer' = [peer EXCEPT ![c] = "closing"]
          /\ UNCHANGED <<slot, lastSess, client, inbox>>
      BY <1>6 DEF HandleDisconnect, clientVars, Held
    <2>2. /\ players' \in Seq(PlayerRec)
          /\ SlotsDistinct' /\ OneLost' /\ PeersHeld' /\ SessionsDrawn' /\ KeysDistinct'
          /\ \A d \in Conns : Playing(d)' => Playing(d)
      BY <2>1, PlayerLeaves
    <2>3. ServerTypes'
      BY <2>1, <2>2 DEF SessionsInv, ServerTypes
    <2>4. JoinsOnce'
      BY <2>1, <2>2 DEF SessionsInv, JoinsOnce
    <2> QED
      BY <2>2, <2>3, <2>4 DEF SessionsInv
  <1>12. ASSUME NEW c \in Conns, RecvDisconnect(c) PROVE SessionsInv'
    <2>1. /\ Receiving /\ peer[c] = "up"
          /\ inbox' = [inbox EXCEPT ![c] = <<>>]
          /\ peer' = [PeersDeleted EXCEPT ![c] = "lost"]
          /\ UNCHANGED <<slot, players, lastSess, client>>
      BY <1>12 DEF RecvDisconnect, clientVars
    <2>2. ServerTypes'
      <3>1. inbox' \in [Conns -> Seq(ToServer)]
        BY <2>1, InboxTypes
      <3>2. peer' \in [Conns -> {"unborn", "up", "lost", "closing", "freed"}]
        BY <2>1, DeletedPeers DEF SessionsInv
      <3> QED
        BY <2>1, <3>1, <3>2 DEF SessionsInv, ServerTypes
    <2>3. \A d \in Conns : (Held(d)' <=> Held(d)) /\ (peer'[d] = "lost" => d = c)
      BY <2>1, DeletedPeers DEF SessionsInv, Held, Receiving
    <2>4. SlotsDistinct' /\ OneLost'
      BY <2>1, <2>3 DEF SessionsInv, SlotsDistinct, OneLost
    <2>5. PeersHeld'
      <3>1. \A i \in DOMAIN players : players[i].peer \in Conns
        BY PlayersDomain DEF SessionsInv, PlayerRec
      <3> QED
        BY <2>1, <2>3, <3>1 DEF SessionsInv, PeersHeld
    <2>6. inbox' # inbox => inbox[c] # <<>>
      BY <2>1 DEF SessionsInv, ServerTypes
    <2>7. JoinsOnce'
      BY <2>1, <2>6, InboxTaken DEF Playing
    <2> QED
      BY <2>1, <2>2, <2>4, <2>5, <2>7 DEF SessionsInv, SessionsDrawn, KeysDistinct
  <1>7. ASSUME NEW s \in Sess, Respawn(s) PROVE SessionsInv'
    <2>1. UNCHANGED <<peer, slot, players, lastSess, client, inbox>>
      BY <1>7 DEF Respawn, clientVars
    <2>2. ServerTypes'
      BY <2>1 DEF SessionsInv, ServerTypes
    <2>3. JoinsOnce'
      BY <2>1 DEF SessionsInv, JoinsOnce, Playing
    <2> QED
      BY <2>1, <2>2, <2>3, PlayersUnchanged DEF SessionsInv
  <1>8. ASSUME NEW c \in Conns, NEW n \in Names, SendJoin(c, n) PROVE SessionsInv'
    <2>1. /\ client[c] = "off"
          /\ client' = [client EXCEPT ![c] = "joining"]
          /\ inbox' = [inbox EXCEPT ![c] = Append(inbox[c], Join(n))]
          /\ UNCHANGED <<peer, slot, players, lastSess>>
      BY <1>8 DEF SendJoin, serverVars
    <2>2. inbox[c] = <<>> /\ ~Playing(c)
      BY <2>1 DEF SessionsInv, JoinsOnce
    <2>3. Join(n) \in ToServer
      BY DEF ToServer
    <2>4. /\ <<Join(n)>> \in Seq(ToServer) /\ Len(<<Join(n)>>) = 1
          /\ Append(inbox[c], Join(n)) = <<Join(n)>>
      BY <2>2, <2>3
    <2>5. ServerTypes'
      BY <2>1, <2>4 DEF SessionsInv, ServerTypes
    <2>6. JoinsOnce'
      <3> SUFFICES ASSUME NEW d \in Conns
                   PROVE  /\ client'[d] = "off" => inbox'[d] = <<>> /\ ~Playing(d)'
                          /\ \A k \in 1 .. Len(inbox'[d]) : k > 1 => inbox'[d][k] = Quit
                          /\ inbox'[d] # <<>> /\ Head(inbox'[d]) # Quit => ~Playing(d)'
        BY DEF JoinsOnce
      <3>1. Playing(d)' <=> Playing(d)
        BY <2>1 DEF Playing
      <3>2. CASE d = c
        <4>1. client'[d] = "joining" /\ inbox'[d] = <<Join(n)>>
          BY <2>1, <2>4, <3>2 DEF SessionsInv, ServerTypes
        <4> QED
          BY <2>2, <2>4, <3>1, <3>2, <4>1
      <3>3. CASE d # c
        <4>1. client'[d] = client[d] /\ inbox'[d] = inbox[d]
          BY <2>1, <3>3 DEF SessionsInv, ServerTypes
        <4> QED
          BY <3>1, <4>1 DEF SessionsInv, JoinsOnce
      <3> QED
        BY <3>2, <3>3
    <2> QED
      BY <2>1, <2>5, <2>6, PlayersUnchanged DEF SessionsInv
  <1>9. ASSUME NEW c \in Conns,
               JoinSucceeds(c) \/ JoinFails(c) \/ HandleBase(c) \/ HandleLife(c)
                 \/ SendDie(c) \/ ClientVanishes(c)
        PROVE  SessionsInv'
    <2>1. /\ UNCHANGED <<serverVars, inbox>>
          /\ \/ client' = client
             \/ client' = [client EXCEPT ![c] = "gone"]
             \/ client' = [client EXCEPT ![c] = "refused"]
             \/ client' = [client EXCEPT ![c] = "playing"]
      BY <1>9 DEF JoinSucceeds, JoinFails, HandleBase, HandleLife, SendDie, ClientVanishes,
                  StopReading, clientVars
    <2> QED
      BY <2>1, ClientMovesOn
  <1>10. ASSUME NEW c \in Conns, ClientQuit(c) PROVE SessionsInv'
    <2>1. /\ client[c] = "playing"
          /\ client' = [client EXCEPT ![c] = "gone"]
          /\ inbox' = inbox \/ inbox' = [inbox EXCEPT ![c] = Append(inbox[c], Quit)]
          /\ UNCHANGED <<peer, slot, players, lastSess>>
      BY <1>10 DEF ClientQuit, StopReading, serverVars
    <2>2. Quit \in ToServer /\ inbox[c] \in Seq(ToServer)
      BY DEF ToServer, SessionsInv, ServerTypes
    <2>3. /\ Append(inbox[c], Quit) \in Seq(ToServer)
          /\ Append(inbox[c], Quit) # <<>>
          /\ Len(Append(inbox[c], Quit)) = Len(inbox[c]) + 1
          /\ \A k \in 1 .. Len(inbox[c]) : Append(inbox[c], Quit)[k] = inbox[c][k]
          /\ Append(inbox[c], Quit)[Len(inbox[c]) + 1] = Quit
      BY <2>2, AppendProperties
    <2>4. ServerTypes'
      BY <2>1, <2>3 DEF SessionsInv, ServerTypes
    <2>5. JoinsOnce'
      <3> SUFFICES ASSUME NEW d \in Conns
                   PROVE  /\ client'[d] = "off" => inbox'[d] = <<>> /\ ~Playing(d)'
                          /\ \A k \in 1 .. Len(inbox'[d]) : k > 1 => inbox'[d][k] = Quit
                          /\ inbox'[d] # <<>> /\ Head(inbox'[d]) # Quit => ~Playing(d)'
        BY DEF JoinsOnce
      <3>1. /\ Playing(d)' <=> Playing(d)
            /\ client'[d] = "off" => client[d] = "off" /\ d # c
        BY <2>1 DEF Playing, SessionsInv, ServerTypes
      <3>2. CASE inbox'[d] = inbox[d]
        BY <3>1, <3>2 DEF SessionsInv, JoinsOnce
      <3>3. CASE d = c /\ inbox'[d] = Append(inbox[c], Quit)
        <4>1. Len(inbox[c]) \in Nat
          BY <2>2, LenProperties
        <4>2. \A k \in 1 .. Len(inbox'[d]) : k > 1 => inbox'[d][k] = Quit
          <5>1. \A k \in 1 .. Len(inbox'[d]) : k \in 1 .. Len(inbox[c]) \/ k = Len(inbox[c]) + 1
            BY <2>3, <3>3, <4>1
          <5> QED
            BY <2>3, <3>3, <5>1 DEF SessionsInv, JoinsOnce
        <4>3. Head(inbox'[d]) = inbox'[d][1]
          BY <2>3, <3>3, HeadTailProperties
        <4>4. CASE inbox[c] = <<>>
          <5>1. Len(inbox[c]) = 0
            BY <4>4, EmptySeq
          <5> QED
            BY <2>3, <3>1, <3>3, <4>2, <4>3, <5>1
        <4>5. CASE inbox[c] # <<>>
          <5>1. 1 \in 1 .. Len(inbox[c]) /\ Head(inbox[c]) = inbox[c][1]
            BY <2>2, <4>1, <4>5, EmptySeq, HeadTailProperties
          <5>2. Head(inbox'[d]) = Head(inbox[c])
            BY <2>3, <3>3, <4>3, <5>1
          <5> QED
            BY <3>1, <3>3, <4>2, <4>5, <5>2 DEF SessionsInv, JoinsOnce
        <4> QED
          BY <4>4, <4>5
      <3>4. inbox'[d] = inbox[d] \/ (d = c /\ inbox'[d] = Append(inbox[c], Quit))
        BY <2>1 DEF SessionsInv, ServerTypes
      <3> QED
        BY <3>2, <3>3, <3>4
    <2> QED
      BY <2>1, <2>4, <2>5, PlayersUnchanged DEF SessionsInv
  <1>11. ASSUME UNCHANGED vars PROVE SessionsInv'
    <2>1. UNCHANGED <<serverVars, inbox, client>>
      BY <1>11 DEF vars, serverVars, clientVars
    <2>2. ServerTypes'
      BY <2>1 DEF SessionsInv, ServerTypes, serverVars
    <2>3. JoinsOnce'
      BY <2>1 DEF SessionsInv, JoinsOnce, Playing, serverVars
    <2> QED
      BY <2>1, <2>2, <2>3, PlayersUnchanged DEF SessionsInv, serverVars
  <1> QED
    BY <1>1, <1>2, <1>3, <1>4, <1>5, <1>6, <1>7, <1>8, <1>9, <1>10, <1>11, <1>12, SessionSteps

----------------------------------------------------------------------------
(* The server starts with nobody connected and no player. *)
LEMMA SessionsInitially == Init => SessionsInv
  <1> SUFFICES ASSUME Init PROVE SessionsInv
    OBVIOUS
  <1>1. <<>> \in Seq(PlayerRec) /\ <<>> \in Seq(ToServer) /\ Len(<<>>) = 0 /\ DOMAIN <<>> = {}
    BY EmptySeq
  <1>2. ServerTypes
    BY <1>1 DEF Init, ServerTypes
  <1>3. SlotsDistinct /\ OneLost /\ PeersHeld /\ SessionsDrawn /\ KeysDistinct
    BY <1>1 DEF Init, SlotsDistinct, OneLost, PeersHeld, SessionsDrawn, KeysDistinct, Held
  <1>4. JoinsOnce
    BY <1>1 DEF Init, JoinsOnce, Playing
  <1> QED
    BY <1>2, <1>3, <1>4 DEF SessionsInv

(* The invariant holds of every behaviour. *)
LEMMA SessionsInvariant == Safety => []SessionsInv
  BY SessionsInitially, SessionsStep, PTL DEF Safety

(* No join, quit, time-out or reuse of a slot ever gives two players of the list one *)
(* name, session, Peer or ENet slot.                                                 *)
THEOREM SessionsDistinct == Safety => []PlayersDistinct
  <1>1. SessionsInv => PlayersDistinct
    <2> SUFFICES ASSUME SessionsInv, NEW i \in DOMAIN players, NEW j \in DOMAIN players, i # j
                 PROVE  /\ players[i].name # players[j].name
                        /\ players[i].sessId # players[j].sessId
                        /\ players[i].peer # players[j].peer
                        /\ slot[players[i].peer] # slot[players[j].peer]
      BY DEF PlayersDistinct
    <2>1. players[i].peer \in Conns /\ players[j].peer \in Conns
      BY PlayersDomain DEF SessionsInv, PlayerRec
    <2>2. Held(players[i].peer) /\ Held(players[j].peer)
      BY DEF SessionsInv, PeersHeld
    <2> QED
      BY <2>1, <2>2 DEF SessionsInv, KeysDistinct, SlotsDistinct
  <1> QED
    BY <1>1, SessionsInvariant, PTL

(* A player goes before its Peer: the Peer of each is neither deleted nor about to be by *)
(* a recv that could still find the player, and no other connection has its slot, so     *)
(* what the broadcasts of every thread and getByPeer follow is there and is the player's.*)
THEOREM SessionsPeersLive == Safety => []PeersLive
  <1>1. SessionsInv => PeersLive
    <2> SUFFICES ASSUME SessionsInv, NEW i \in DOMAIN players
                 PROVE  /\ Held(players[i].peer)
                        /\ \A c \in Conns :
                             slot[c] = slot[players[i].peer] /\ Held(c) => c = players[i].peer
      BY DEF PeersLive, Players, Held
    <2>1. players[i].peer \in Conns
      BY PlayersDomain DEF SessionsInv, PlayerRec
    <2> QED
      BY <2>1 DEF SessionsInv, PeersHeld, SlotsDistinct
  <1> QED
    BY <1>1, SessionsInvariant, PTL
=============================================================================
