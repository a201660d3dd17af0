--------------------------- MODULE ClientStates ---------------------------
(***************************************************************************)
(* The client's window from start to end: GameWindow::run and the states   *)
(* it runs (ConnectingState, GameState, MessageState), the thread that     *)
(* opens the connection, the wait for the answer to the join request       *)
(* (network/Network.cpp recv, with its arithmetic on the time left), the   *)
(* Peer of the server, and the input of GameInput while a game is on.      *)
(*                                                                         *)
(* The connection thread and the main thread share plain variables. Their  *)
(* stores are taken to appear in program order, as an x86 build keeps them *)
(* (the compiler may also write the last two at once, which is one of the  *)
(* interleavings here).                                                    *)
(***************************************************************************)
EXTENDS GameInput, Integers

CONSTANTS
  Timeout,  \* what recv is given for the answer (5000 ms)
  Wrap      \* the time left is computed modulo this (2^32 ms)

ASSUME WindowAssumption ==
  Timeout \in Nat /\ Wrap \in Nat /\ Timeout + 1 < Wrap

VARIABLES
  pc,        \* where GameWindow::run, and main around it, is
  current,   \* m_currentState
  next,      \* m_nextState
  closing,   \* glfwWindowShouldClose
  message,   \* what the last MessageState says ("none": there was none)
  conn,      \* where the connection thread is
  finished, success,  \* ConnectingState's
  NS,        \* Game::NS is set
  peer,      \* the Peer: "none", "live", "doomed" (in m_peersToDelete) or "deleted"
  greeted,   \* the server's key exchange has been received
  elapsed,   \* time since recv began
  left,      \* what enet_host_service is still asked to wait
  joins,     \* join requests sent
  sentTo     \* what the Peer was, and the next state, when something was sent to it

loop == <<pc, current, next, closing, message>>
thread == <<conn, finished, success, NS>>
wait == <<greeted, elapsed, left, joins>>
net == <<peer, sentTo>>
vars == <<loop, thread, wait, net, inputs>>

----------------------------------------------------------------------------
States == {"none", "Connecting", "Game", "Message"}
PeerStates == {"none", "live", "doomed", "deleted"}
Reasons == {"none", "no network", "not connected", "no answer", "refused", "unexpected",
            "disconnected"}

\* Type invariant.
TypeOK ==
  /\ pc \in {"outer", "poll", "logic", "join", "recv", "frame", "stop", "finalized", "ended",
            "died"}
  /\ current \in States /\ next \in States
  /\ closing \in BOOLEAN /\ message \in Reasons
  /\ conn \in {"none", "create", "connect", "connected", "failed", "finishing", "done"}
  /\ finished \in BOOLEAN /\ success \in BOOLEAN /\ NS \in BOOLEAN
  /\ peer \in PeerStates
  /\ greeted \in BOOLEAN /\ joins \in Nat
  /\ elapsed \in 0 .. Timeout + Wrap /\ left \in 0 .. Wrap - 1
  /\ sentTo \subseteq PeerStates \X States
  /\ InputTypeOK

\* main: the network is initialised or not, and the first state set.
Init ==
  /\ pc = "outer" /\ current = "none" /\ closing = FALSE
  /\ \/ next = "Connecting" /\ message = "none"
     \/ next = "Message" /\ message = "no network"
  /\ conn = "none" /\ finished = FALSE /\ success = FALSE /\ NS = FALSE
  /\ peer = "none" /\ sentTo = {}
  /\ greeted = FALSE /\ elapsed = 0 /\ left = 0 /\ joins = 0
  /\ InputInit

----------------------------------------------------------------------------
(* The connection thread. *)

HostCreate ==
  /\ conn = "create"
  /\ conn' \in {"connect", "failed"}
  /\ UNCHANGED <<finished, success, NS, peer>>

\* Host::connect: an answer within its 5 s, or an exception.
Connect ==
  /\ conn = "connect"
  /\ \/ conn' = "connected" /\ peer' = "live" /\ NS' = TRUE
     \/ conn' = "failed" /\ UNCHANGED <<peer, NS>>
  /\ UNCHANGED <<finished, success>>

SetSuccess_FinishedFirst ==
  /\ conn \in {"connected", "failed"}
  /\ finished' = TRUE
  /\ conn' = "finishing"
  /\ UNCHANGED <<success, NS, peer>>

SetSuccess ==
  /\ conn \in {"connected", "failed"}
  /\ success' = (conn = "connected")
  /\ conn' = "finishing"
  /\ UNCHANGED <<finished, NS, peer>>

SetFinished_OnSuccess ==
  /\ conn = "finishing"
  /\ finished' = success
  /\ conn' = "done"
  /\ UNCHANGED <<success, NS, peer>>

SetFinished ==
  /\ conn = "finishing"
  /\ finished' = TRUE
  /\ conn' = "done"
  /\ UNCHANGED <<success, NS, peer>>

ThreadStep ==
  /\ HostCreate \/ Connect \/ SetSuccess \/ SetFinished
  /\ UNCHANGED <<loop, wait, sentTo, inputs>>

----------------------------------------------------------------------------
(* The main thread: GameWindow::run. *)

Send == sentTo' = sentTo \cup {<<peer, next>>}

\* onCreate and onStart of the next state. A GameState hides its menu and makes its chat
\* box; a ConnectingState starts its thread.
StartState ==
  /\ pc = "outer"
  /\ next # "none" /\ ~closing
  /\ current' = next /\ next' = "none" /\ pc' = "poll"
  /\ IF next = "Connecting"
     THEN conn' = "create" /\ finished' = FALSE /\ success' = FALSE
     ELSE UNCHANGED <<conn, finished, success>>
  /\ UNCHANGED <<closing, message, NS, wait, net, inputs>>

\* glfwPollEvents, one event at a time. The window may be closed from outside.
CloseWindow ==
  /\ pc = "poll"
  /\ closing' = TRUE
  /\ UNCHANGED <<pc, current, next, message, thread, wait, net, inputs>>

\* Keys that only ConnectingState or MessageState see, and ignore.
KeyElsewhere(d) ==
  /\ pc = "poll" /\ current # "Game"
  /\ held' = IF d \in held THEN held \ {d} ELSE held \cup {d}
  /\ UNCHANGED <<loop, thread, wait, net, going, unheard, chatline, menu, pointer>>

Playing == pc = "poll" /\ current = "Game"

\* Events that send nothing.
InputQuiet ==
  /\ Playing
  /\ \/ \E d \in Directions : PressDirection(d) \/ ReleaseDirection(d)
     \/ PressChat
     \/ (line = 0 /\ PressEnter)
     \/ PressUnlock
     \/ PressBackspace
     \/ OnChar
     \/ OnMouseButton  \* no block in reach
  /\ UNCHANGED <<loop, thread, wait, net>>

\* With Shift, Escape closes the window too.
InputEscape ==
  /\ Playing
  /\ PressEscape
  /\ \E shift \in BOOLEAN : closing' = (closing \/ shift)
  /\ UNCHANGED <<pc, current, next, message, thread, wait, net>>

\* A line of chat, a block broken or placed.
InputSends ==
  /\ Playing
  /\ (line > 0 /\ PressEnter) \/ OnMouseButton
  /\ Send
  /\ UNCHANGED <<loop, thread, wait, peer>>

PollDone ==
  /\ pc = "poll"
  /\ pc' = "logic"
  /\ UNCHANGED <<current, next, closing, message, thread, wait, net, inputs>>

\* The next state, and for a message what it says. MessageState's constructor frees the
\* cursor; GameState's leaves m_chatIgnFirstKey as the memory is.
ShowMessage_KeepCursor(why) ==
  /\ next' = "Message" /\ message' = why /\ pc' = "frame"
  /\ UNCHANGED <<current, closing, inputs>>

ShowMessage(why) ==
  /\ next' = "Message" /\ message' = why /\ pc' = "frame"
  /\ captured' = FALSE
  /\ UNCHANGED <<current, closing, keyboard, chatline, menu, mouseLocked>>

SetGame ==
  /\ next' = "Game" /\ pc' = "frame"
  /\ mouseLocked' = FALSE /\ ignoreFirst' \in BOOLEAN
  /\ UNCHANGED <<current, closing, message, keyboard, chatting, line, menu, captured>>

NotYet ==
  /\ pc = "logic"
  /\ current = "Message" \/ (current = "Connecting" /\ ~finished)
  /\ pc' = "frame"
  /\ UNCHANGED <<current, next, closing, message, thread, wait, net, inputs>>

NotConnected ==
  /\ pc = "logic" /\ current = "Connecting" /\ finished /\ ~success
  /\ ShowMessage("not connected")
  /\ UNCHANGED <<thread, wait, net>>

\* The join request is sent, and recv begins.
SendJoin ==
  /\ pc = "logic" /\ current = "Connecting" /\ finished /\ success
  /\ Send
  /\ joins' = joins + 1
  /\ elapsed' = 0 /\ left' = Timeout
  /\ pc' = "join"
  /\ UNCHANGED <<current, next, closing, message, thread, greeted, peer, inputs>>

\* Nothing arrives for a while.
Tick ==
  /\ pc \in {"join", "recv"} /\ left > 0
  /\ elapsed' = elapsed + 1 /\ left' = left - 1
  /\ UNCHANGED <<loop, thread, greeted, joins, net, inputs>>

LeftAfter_Signed(timeout, e) == timeout - e

\* timeout - elapsed, in unsigned arithmetic.
LeftAfter(timeout, e) == (timeout - e) % Wrap

\* The wait is over. ENet may take a wait of more than was given, which is one that has
\* wrapped, for one that is over: it compares its deadlines modulo the width, too.
WaitOver == left = 0 \/ left > Timeout

\* The server's key exchange is not returned: it is dealt with, which may take a moment,
\* and recv goes on.
KeyExchange ==
  /\ pc = "join" /\ ~greeted
  /\ greeted' = TRUE
  /\ elapsed' \in {elapsed, elapsed + 1}
  /\ left' = LeftAfter(Timeout, elapsed')
  /\ UNCHANGED <<loop, thread, joins, net, inputs>>

\* Or it fails: nobody catches the exception, and the process ends.
KeyExchangeFails ==
  /\ pc = "join" /\ ~greeted
  /\ pc' = "died"
  /\ UNCHANGED <<current, next, closing, message, thread, wait, net, inputs>>

Expires_TryAgain ==
  /\ pc = "join" /\ WaitOver
  /\ pc' = "frame"
  /\ UNCHANGED <<current, next, closing, message, thread, wait, net, inputs>>

Expires ==
  /\ pc = "join" /\ WaitOver
  /\ ShowMessage("no answer")
  /\ UNCHANGED <<thread, wait, net>>

\* The answer follows the key exchange on the same channel. Messages on other channels
\* may overtake it.
Accepted ==
  /\ pc = "join" /\ greeted
  /\ SetGame
  /\ UNCHANGED <<thread, wait, net>>

Refused ==
  /\ pc = "join" /\ greeted
  /\ ShowMessage("refused")
  /\ UNCHANGED <<thread, wait, net>>

Unexpected ==
  /\ pc = "join"
  /\ ShowMessage("unexpected")
  /\ peer' \in {peer, "doomed"}  \* a disconnection is one
  /\ UNCHANGED <<thread, wait, sentTo>>

\* processPeersToDelete, at the start of every recv.
PeersDeleted == IF peer = "doomed" THEN "deleted" ELSE peer

InGameLoop == pc = "logic" /\ current = "Game"

\* processNetwork's recv finds nothing, or nothing more: what else it receives at once
\* changes nothing here.
RecvNothing ==
  /\ InGameLoop
  /\ peer' = PeersDeleted
  /\ pc' = "frame"
  /\ UNCHANGED <<current, next, closing, message, thread, wait, sentTo, inputs>>

\* A millisecond passes between recv's two looks at the clock: it is given no time, and
\* what it asks ENet for wraps.
RecvLate ==
  /\ InGameLoop
  /\ peer' = PeersDeleted
  /\ elapsed' = 1 /\ left' = LeftAfter(0, 1)
  /\ pc' = "recv"
  /\ UNCHANGED <<current, next, closing, message, thread, greeted, joins, sentTo, inputs>>

\* A message ends such a wait. It is handled, and recv is called again.
RecvMessage ==
  /\ pc = "recv"
  /\ pc' = "logic"
  /\ UNCHANGED <<current, next, closing, message, thread, wait, net, inputs>>

RecvExpires ==
  /\ pc = "recv" /\ WaitOver
  /\ pc' = "frame"
  /\ UNCHANGED <<current, next, closing, message, thread, wait, net, inputs>>

RecvDisconnect_GoesOn ==
  /\ InGameLoop \/ pc = "recv"
  /\ PeersDeleted = "live"
  /\ peer' = "doomed"
  /\ pc' = "frame"
  /\ UNCHANGED <<current, next, closing, message, thread, wait, sentTo, inputs>>

\* The end of the connection, which ends the game.
RecvDisconnect ==
  /\ InGameLoop \/ pc = "recv"
  /\ PeersDeleted = "live"
  /\ peer' = "doomed"
  /\ ShowMessage("disconnected")
  /\ UNCHANGED <<thread, wait, sentTo>>

FrameTick_Endless ==
  /\ pc = "frame"
  /\ UNCHANGED sentTo \/ (current = "Game" /\ Send)
  /\ pc' = IF next = "none" THEN "poll" ELSE "stop"
  /\ UNCHANGED <<current, next, closing, message, thread, wait, peer, inputs>>

\* onFrameTick: now and then a GameState sends where the player is. Then the loop goes
\* round, or ends.
FrameTick ==
  /\ pc = "frame"
  /\ UNCHANGED sentTo \/ (current = "Game" /\ Send)
  /\ pc' = IF next = "none" /\ ~closing THEN "poll" ELSE "stop"
  /\ UNCHANGED <<current, next, closing, message, thread, wait, peer, inputs>>

StopState_NoJoin ==
  /\ pc = "stop"
  /\ IF current = "Game" THEN Send ELSE UNCHANGED sentTo
  /\ current' = "none" /\ pc' = "outer"
  /\ UNCHANGED <<next, closing, message, thread, wait, peer, inputs>>

\* onStop: a ConnectingState joins its thread, a GameState says it quits. Then the state
\* is destroyed.
StopState ==
  /\ pc = "stop"
  /\ current = "Connecting" => conn = "done"
  /\ IF current = "Game" THEN Send ELSE UNCHANGED sentTo
  /\ current' = "none" /\ pc' = "outer"
  /\ UNCHANGED <<next, closing, message, thread, wait, peer, inputs>>

\* The window's end: finalizeClient, then ~GameWindow, which destroys a next state that
\* was never started.
FinalizeClient ==
  /\ pc = "outer"
  /\ next = "none" \/ closing
  /\ pc' = "finalized"
  /\ UNCHANGED <<current, next, closing, message, thread, wait, net, inputs>>

DestroyWindow ==
  /\ pc = "finalized"
  /\ next' = "none" /\ pc' = "ended"
  /\ UNCHANGED <<current, closing, message, thread, wait, net, inputs>>

----------------------------------------------------------------------------
UserStep ==
  \/ CloseWindow
  \/ \E d \in Directions : KeyElsewhere(d)
  \/ InputQuiet
  \/ InputEscape
  \/ InputSends
ServerStep ==
  \/ KeyExchange
  \/ KeyExchangeFails
  \/ Accepted
  \/ Refused
  \/ Unexpected
  \/ RecvMessage
  \/ RecvDisconnect
RunStep ==
  \/ StartState
  \/ PollDone
  \/ NotYet
  \/ NotConnected
  \/ SendJoin
  \/ Tick
  \/ Expires
  \/ RecvNothing
  \/ RecvLate
  \/ RecvExpires
  \/ FrameTick
  \/ StopState
  \/ FinalizeClient
  \/ DestroyWindow

Next == ThreadStep \/ UserStep \/ ServerStep \/ RunStep
Safety == Init /\ [][Next]_vars

\* Both threads run and time passes, and not every recv of a game is late; nobody has to
\* press a key or to answer.
Spec == Safety /\ WF_vars(ThreadStep) /\ WF_vars(RunStep) /\ SF_vars(RecvNothing)

----------------------------------------------------------------------------
(* Properties *)

\* Whatever the client sends goes to a Peer that exists, and is connected: only in the
\* turn of the loop that ends the game is it one whose connection ended, which the next
\* recv would delete. The thread sets NS before it says it succeeded, a disconnection ends
\* the loop before another recv, and the last messages of that turn still find the Peer.
SendsToPeer ==
  \A s \in sentTo : s[1] = "live" \/ (s[1] = "doomed" /\ s[2] = "Message")

\* The thread writes to the ConnectingState it was started by: it is never left running
\* when that is destroyed.
ThreadHasState == conn \notin {"none", "done"} => current = "Connecting"

\* "Could not connect" is only said of a connection that failed: whoever reads `finished`
\* reads the final `success`.
FailureIsReal == message = "not connected" => peer = "none"

\* One join request per run, whatever becomes of it: a late answer to a first one can
\* never be taken for the answer to a second.
OneJoin == joins <= 1

\* Only a game that is on, and not in its menu, has captured the cursor: a player who is
\* disconnected in mid-game, or called to the menu, has it back. (When the window closes
\* it goes with the window.)
CursorFree == captured /\ ~closing => current = "Game" /\ mouseLocked /\ ~menu

\* While a game is on, the player moves only in directions whose key is down, or went up
\* unheard.
MovesWhileHeld == current = "Game" => GoesWhileHeld

Over == pc \in {"ended", "died"}

\* The attempt to connect is decided, unless the window or the process ends first.
Decides == (current = "Connecting") ~> (current \in {"Game", "Message"} \/ Over)

\* Once it is to close, the window does (or the process has died): neither the thread's
\* connection attempt, nor the wait for an answer, nor a recv whose time has wrapped holds
\* it for ever.
Closes == closing ~> Over

\* The client gives up "after 5 seconds" (ConnectingState.cpp:82): what has passed of the
\* wait for the answer and what ENet is still asked to wait make up what recv was given.
WaitsAtMost == pc = "join" => elapsed + left <= Timeout + 1
=============================================================================
