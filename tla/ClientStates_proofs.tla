------------------------ MODULE ClientStates_proofs ------------------------
(***************************************************************************)
(* Proofs about ClientStates, for any movement keys, any chat line length  *)
(* and any timeout and width of the counter.                               *)
(***************************************************************************)
EXTENDS ClientStates, TLAPS

(* What one step may do, named once for the case splits below. *)
Thread(A) == A /\ UNCHANGED <<loop, wait, sentTo, inputs>>

LEMMA StepCases ==
  ASSUME [Next]_vars, NEW P,
         Thread(HostCreate) => P,
         Thread(Connect) => P,
         Thread(SetSuccess) => P,
         Thread(SetFinished) => P,
         CloseWindow => P,
         \A d \in Directions : KeyElsewhere(d) => P,
         InputQuiet => P,
         InputEscape => P,
         InputSends => P,
         KeyExchange => P,
         KeyExchangeFails => P,
         Accepted => P,
         Refused => P,
         Unexpected => P,
         StartState => P,
         PollDone => P,
         NotYet => P,
         NotConnected => P,
         SendJoin => P,
         Tick => P,
         Expires => P,
         RecvNothing => P,
         RecvLate => P,
         RecvMessage => P,
         RecvExpires => P,
         RecvDisconnect => P,
         FrameTick => P,
         StopState => P,
         FinalizeClient => P,
         DestroyWindow => P,
         UNCHANGED vars => P
  PROVE  P
  BY DEF Next, ThreadStep, UserStep, ServerStep, RunStep, Thread

----------------------------------------------------------------------------
(* Type correctness. *)

TypeSafe ==
  /\ pc \in {"outer", "poll", "logic", "join", "recv", "frame", "stop", "finalized", "ended",
            "died"}
  /\ current \in States /\ next \in States
  /\ closing \in BOOLEAN /\ message \in Reasons
  /\ conn \in {"none", "create", "connect", "connected", "failed", "finishing", "done"}
  /\ finished \in BOOLEAN /\ success \in BOOLEAN /\ NS \in BOOLEAN
  /\ peer \in PeerStates
  /\ greeted \in BOOLEAN
  /\ sentTo \subseteq PeerStates \X States

(* The waits: until the key exchange, what has passed and what is left of the wait for an *)
(* answer make up the timeout; any other is bounded by the width of the counter. *)
Clock ==
  /\ elapsed \in Nat /\ left \in Nat /\ joins \in Nat
  /\ left < Wrap
  /\ elapsed + left <= Timeout + Wrap
  /\ pc = "join" /\ ~greeted => elapsed + left <= Timeout

LEMMA SentTyped ==
  ASSUME sentTo \subseteq PeerStates \X States, peer \in PeerStates, next \in States, Send
  PROVE  sentTo' \subseteq PeerStates \X States
  <1>1. <<peer, next>> \in PeerStates \X States
    OBVIOUS
  <1> QED
    BY <1>1 DEF Send

(* A message to a live Peer, or to a doomed one in the turn that ends the game. *)
LEMMA SentWell ==
  ASSUME SendsToPeer, peer = "live" \/ (peer = "doomed" /\ next = "Message"), Send
  PROVE  SendsToPeer'
  <1> SUFFICES ASSUME NEW s \in sentTo'
               PROVE  s[1] = "live" \/ (s[1] = "doomed" /\ s[2] = "Message")
    BY DEF SendsToPeer
  <1>1. CASE s \in sentTo
    BY <1>1 DEF SendsToPeer
  <1>2. CASE s = <<peer, next>>
    BY <1>2
  <1> QED
    BY <1>1, <1>2 DEF Send

LEMMA TypeSafeStep == TypeSafe /\ [Next]_vars => TypeSafe'
  <1> SUFFICES ASSUME TypeSafe, [Next]_vars PROVE TypeSafe'
    OBVIOUS
  <1> USE DEF TypeSafe, States, PeerStates, Reasons, loop, thread, wait, net
  <1>1. Thread(HostCreate) => TypeSafe'
    BY DEF Thread, HostCreate
  <1>2. Thread(Connect) => TypeSafe'
    BY DEF Thread, Connect
  <1>3. Thread(SetSuccess) => TypeSafe'
    BY DEF Thread, SetSuccess
  <1>4. Thread(SetFinished) => TypeSafe'
    BY DEF Thread, SetFinished
  <1>5. CloseWindow => TypeSafe'
    BY DEF CloseWindow
  <1>6. \A d \in Directions : KeyElsewhere(d) => TypeSafe'
    BY DEF KeyElsewhere
  <1>7. InputQuiet => TypeSafe'
    BY DEF InputQuiet, Playing
  <1>8. InputEscape => TypeSafe'
    BY DEF InputEscape, Playing
  <1>9. InputSends => TypeSafe'
    <2> SUFFICES ASSUME InputSends PROVE TypeSafe'
      OBVIOUS
    <2>1. Send /\ UNCHANGED <<loop, thread, wait, peer>>
      BY DEF InputSends
    <2>2. sentTo' \subseteq PeerStates \X States
      <3>1. sentTo \subseteq PeerStates \X States /\ peer \in PeerStates /\ next \in States
        OBVIOUS
      <3> HIDE DEF TypeSafe, States, PeerStates
      <3> QED
        BY <2>1, <3>1, SentTyped
    <2>3. UNCHANGED <<pc, current, next, closing, message, conn, finished, success, NS>>
      BY <2>1
    <2>4. UNCHANGED <<greeted, peer>>
      BY <2>1
    <2> HIDE DEF States, PeerStates, Reasons, loop, thread, wait, net
    <2> QED
      BY <2>2, <2>3, <2>4
  <1>10. KeyExchange => TypeSafe'
    BY DEF KeyExchange
  <1>11. Accepted => TypeSafe'
    BY DEF Accepted, SetGame
  <1>12. Refused => TypeSafe'
    BY DEF Refused, ShowMessage
  <1>13. Unexpected => TypeSafe'
    BY DEF Unexpected, ShowMessage
  <1>14. StartState => TypeSafe'
    BY DEF StartState
  <1>15. PollDone => TypeSafe'
    BY DEF PollDone
  <1>16. NotYet => TypeSafe'
    BY DEF NotYet
  <1>17. NotConnected => TypeSafe'
    BY DEF NotConnected, ShowMessage
  <1>18. SendJoin => TypeSafe'
    <2>1. SendJoin => sentTo' \subseteq PeerStates \X States
      BY SentTyped DEF SendJoin
    <2> QED
      BY <2>1 DEF SendJoin
  <1>19. Tick => TypeSafe'
    BY DEF Tick
  <1>20. Expires => TypeSafe'
    BY DEF Expires, ShowMessage
  <1>21. RecvNothing => TypeSafe'
    BY DEF RecvNothing, InGameLoop, PeersDeleted
  <1>22. FrameTick => TypeSafe'
    <2>1. FrameTick => sentTo' \subseteq PeerStates \X States
      BY SentTyped DEF FrameTick
    <2> QED
      BY <2>1 DEF FrameTick
  <1>23. StopState => TypeSafe'
    <2> SUFFICES ASSUME StopState PROVE TypeSafe'
      OBVIOUS
    <2>1. current' = "none" /\ pc' = "outer" /\ UNCHANGED <<next, closing, message, thread, wait, peer>>
      BY DEF StopState
    <2>2. sentTo' = sentTo \/ Send
      BY DEF StopState
    <2>3. sentTo' \subseteq PeerStates \X States
      BY <2>2, SentTyped
    <2>4. current' \in States /\ pc' \in {"outer"} /\ next' \in States
      BY <2>1
    <2>5. closing' \in BOOLEAN /\ message' \in Reasons /\ UNCHANGED thread
      BY <2>1
    <2>6. UNCHANGED <<greeted, peer>>
      BY <2>1
    <2> QED
      BY <2>3, <2>4, <2>5, <2>6
  <1>24. FinalizeClient => TypeSafe'
    BY DEF FinalizeClient
  <1>25. DestroyWindow => TypeSafe'
    BY DEF DestroyWindow
  <1>26. UNCHANGED vars => TypeSafe'
    BY DEF vars
  <1>27. KeyExchangeFails => TypeSafe'
    BY DEF KeyExchangeFails
  <1>28. RecvLate => TypeSafe'
    BY DEF RecvLate, InGameLoop, PeersDeleted
  <1>29. RecvMessage => TypeSafe'
    BY DEF RecvMessage
  <1>30. RecvExpires => TypeSafe'
    BY DEF RecvExpires
  <1>31. RecvDisconnect => TypeSafe'
    BY DEF RecvDisconnect, InGameLoop, ShowMessage, PeersDeleted
  <1> HIDE DEF TypeSafe
  <1> QED
    BY StepCases, <1>1, <1>2, <1>3, <1>4, <1>5, <1>6, <1>7, <1>8, <1>9, <1>10, <1>11, <1>12,
       <1>13, <1>14, <1>15, <1>16, <1>17, <1>18, <1>19, <1>20, <1>21, <1>22, <1>23, <1>24,
       <1>25, <1>26, <1>27, <1>28, <1>29, <1>30, <1>31

(* Only four actions touch what the waits are made of, and only one begins the join's. *)
LEMMA WaitFrame ==
  [Next]_vars => \/ UNCHANGED wait /\ (pc' = "join" => pc = "join")
                 \/ SendJoin \/ Tick \/ KeyExchange \/ RecvLate
  <1> DEFINE Kept == UNCHANGED wait /\ (pc' = "join" => pc = "join")
  <1> SUFFICES ASSUME [Next]_vars
               PROVE  Kept \/ SendJoin \/ Tick \/ KeyExchange \/ RecvLate
    OBVIOUS
  <1>1. ThreadStep => Kept
    BY DEF ThreadStep, loop
  <1>2. UserStep => Kept
    BY DEF UserStep, CloseWindow, KeyElsewhere, InputQuiet, InputEscape, InputSends, loop
  <1>3. ServerStep => Kept \/ KeyExchange
    BY DEF ServerStep, KeyExchangeFails, Accepted, Refused, Unexpected, RecvMessage,
           RecvDisconnect, SetGame, ShowMessage
  <1>4. RunStep => Kept \/ SendJoin \/ Tick \/ RecvLate
    <2>1. NotConnected \/ Expires => Kept
      BY DEF NotConnected, Expires, ShowMessage
    <2>2. StartState \/ PollDone \/ NotYet \/ RecvNothing \/ RecvExpires => Kept
      BY DEF StartState, PollDone, NotYet, RecvNothing, RecvExpires
    <2>3. FrameTick \/ StopState \/ FinalizeClient \/ DestroyWindow => Kept
      BY DEF FrameTick, StopState, FinalizeClient, DestroyWindow
    <2> QED
      BY <2>1, <2>2, <2>3 DEF RunStep
  <1>5. UNCHANGED vars => Kept
    BY DEF vars, loop
  <1> QED
    BY <1>1, <1>2, <1>3, <1>4, <1>5 DEF Next

LEMMA RemainderRange ==
  ASSUME NEW a \in Int, NEW b \in Nat, b > 0
  PROVE  a % b \in Nat /\ a % b < b
  OBVIOUS

LEMMA ClockStep == Clock /\ [Next]_vars => Clock'
  <1> SUFFICES ASSUME Clock, [Next]_vars PROVE Clock'
    OBVIOUS
  <1> USE WindowAssumption DEF Clock, wait
  <1>1. CASE UNCHANGED wait /\ (pc' = "join" => pc = "join")
    BY <1>1
  <1>2. CASE SendJoin
    BY <1>2 DEF SendJoin
  <1>3. CASE Tick
    BY <1>3 DEF Tick, loop
  <1>4. CASE KeyExchange
    <2>1. elapsed' \in Nat /\ elapsed' <= Timeout + 1
      BY <1>4 DEF KeyExchange
    <2>2. Timeout - elapsed' \in Int /\ Wrap \in Nat /\ Wrap > 0
      BY <2>1
    <2>3. (Timeout - elapsed') % Wrap \in Nat /\ (Timeout - elapsed') % Wrap < Wrap
      BY <2>2, RemainderRange
    <2>4. left' = (Timeout - elapsed') % Wrap
      BY <1>4 DEF KeyExchange, LeftAfter
    <2>5. left' \in Nat /\ left' < Wrap
      BY <2>3, <2>4
    <2>6. elapsed' + left' <= Timeout + Wrap
      <3>1. \A e, l, t, w \in Nat : e <= t + 1 /\ l < w => e + l <= t + w
        OBVIOUS
      <3> QED
        BY <2>1, <2>5, <3>1
    <2>7. joins' \in Nat /\ greeted' = TRUE
      BY <1>4 DEF KeyExchange
    <2> QED
      BY <2>1, <2>5, <2>6, <2>7
  <1>5. CASE RecvLate
    <2>1. elapsed' = 1 /\ left' = (0 - 1) % Wrap
      BY <1>5 DEF RecvLate, LeftAfter
    <2>2. 0 - 1 \in Int /\ Wrap \in Nat /\ Wrap > 0
      OBVIOUS
    <2>3. (0 - 1) % Wrap \in Nat /\ (0 - 1) % Wrap < Wrap
      BY <2>2, RemainderRange
    <2>4. left' \in Nat /\ left' < Wrap
      BY <2>1, <2>3
    <2>5. \A l, t, w \in Nat : l < w => 1 + l <= t + w
      OBVIOUS
    <2>6. elapsed' + left' <= Timeout + Wrap
      BY <2>1, <2>4, <2>5
    <2>7. joins' \in Nat /\ pc' = "recv"
      BY <1>5 DEF RecvLate
    <2> QED
      BY <2>1, <2>4, <2>6, <2>7
  <1> QED
    BY <1>1, <1>2, <1>3, <1>4, <1>5, WaitFrame

(* The input's types: only the user's actions and the two changes of state touch it. *)
LEMMA InputFrame ==
  [Next]_vars => \/ UNCHANGED inputs
                 \/ \E d \in Directions : KeyElsewhere(d)
                 \/ InputQuiet \/ InputEscape \/ InputSends
                 \/ SetGame
                 \/ \E why \in Reasons : ShowMessage(why)
  <1> SUFFICES ASSUME [Next]_vars, ~UNCHANGED inputs
               PROVE  \/ \E d \in Directions : KeyElsewhere(d)
                      \/ InputQuiet \/ InputEscape \/ InputSends
                      \/ SetGame
                      \/ \E why \in Reasons : ShowMessage(why)
    OBVIOUS
  <1>1. ~ThreadStep
    BY DEF ThreadStep
  <1>2. UserStep => \/ \E d \in Directions : KeyElsewhere(d)
                    \/ InputQuiet \/ InputEscape \/ InputSends
    BY DEF UserStep, CloseWindow
  <1>3. ServerStep => SetGame \/ \E why \in Reasons : ShowMessage(why)
    <2>1. Accepted => SetGame
      BY DEF Accepted
    <2>2. Refused => ShowMessage("refused")
      BY DEF Refused
    <2>3. Unexpected => ShowMessage("unexpected")
      BY DEF Unexpected
    <2>4. RecvDisconnect => ShowMessage("disconnected")
      BY DEF RecvDisconnect
    <2>5. ~(KeyExchange \/ KeyExchangeFails \/ RecvMessage)
      BY DEF KeyExchange, KeyExchangeFails, RecvMessage
    <2> QED
      BY <2>1, <2>2, <2>3, <2>4, <2>5 DEF ServerStep, Reasons
  <1>4. RunStep => \E why \in Reasons : ShowMessage(why)
    <2>1. NotConnected => ShowMessage("not connected")
      BY DEF NotConnected
    <2>2. Expires => ShowMessage("no answer")
      BY DEF Expires
    <2>3. ~(StartState \/ PollDone \/ NotYet \/ SendJoin \/ Tick)
      BY DEF StartState, PollDone, NotYet, SendJoin, Tick
    <2>4. ~(RecvNothing \/ RecvLate \/ RecvExpires)
      BY DEF RecvNothing, RecvLate, RecvExpires
    <2>5. ~(FrameTick \/ StopState \/ FinalizeClient \/ DestroyWindow)
      BY DEF FrameTick, StopState, FinalizeClient, DestroyWindow
    <2> QED
      BY <2>1, <2>2, <2>3, <2>4, <2>5 DEF RunStep, Reasons
  <1>5. ~UNCHANGED vars
    BY DEF vars
  <1> QED
    BY <1>1, <1>2, <1>3, <1>4, <1>5 DEF Next

LEMMA InputTypeStep == InputTypeOK /\ [Next]_vars => InputTypeOK'
  <1> SUFFICES ASSUME InputTypeOK, [Next]_vars PROVE InputTypeOK'
    OBVIOUS
  <1> USE InputAssumption DEF InputTypeOK, keyboard, chatline, pointer
  <1>1. CASE UNCHANGED inputs
    BY <1>1 DEF inputs
  <1>2. ASSUME NEW d \in Directions, KeyElsewhere(d) PROVE InputTypeOK'
    BY <1>2 DEF KeyElsewhere
  <1>3. CASE InputQuiet
    <2>1. ASSUME NEW d \in Directions, PressDirection(d) PROVE InputTypeOK'
      BY <2>1 DEF PressDirection
    <2>2. ASSUME NEW d \in Directions, ReleaseDirection(d) PROVE InputTypeOK'
      BY <2>2 DEF ReleaseDirection
    <2>3. PressChat => InputTypeOK'
      BY DEF PressChat, SetIsChatting
    <2>4. PressEnter => InputTypeOK'
      <3> SUFFICES ASSUME PressEnter PROVE InputTypeOK'
        OBVIOUS
      <3>1. line' \in 0 .. MaxLine
        BY DEF PressEnter, SetIsChatting
      <3>2. chatting' \in BOOLEAN /\ ignoreFirst' \in BOOLEAN
        BY DEF PressEnter, SetIsChatting
      <3>3. UNCHANGED <<keyboard, menu, pointer>>
        BY DEF PressEnter, SetIsChatting
      <3> QED
        BY <3>1, <3>2, <3>3
    <2>5. PressUnlock => InputTypeOK'
      BY DEF PressUnlock, UnlockMouse
    <2>6. PressBackspace => InputTypeOK'
      BY DEF PressBackspace
    <2>7. OnChar => InputTypeOK'
      <3> SUFFICES ASSUME OnChar PROVE InputTypeOK'
        OBVIOUS
      <3>1. line' \in 0 .. MaxLine
        BY DEF OnChar
      <3>2. chatting' \in BOOLEAN /\ ignoreFirst' \in BOOLEAN
        BY DEF OnChar
      <3>3. UNCHANGED <<keyboard, menu, pointer>>
        BY DEF OnChar
      <3> QED
        BY <3>1, <3>2, <3>3
    <2>8. OnMouseButton => InputTypeOK'
      BY DEF OnMouseButton, LockMouse
    <2> QED
      BY <1>3, <2>1, <2>2, <2>3, <2>4, <2>5, <2>6, <2>7, <2>8 DEF InputQuiet
  <1>4. CASE InputEscape
    <2>1. EscapeChat => InputTypeOK'
      <3> SUFFICES ASSUME EscapeChat PROVE InputTypeOK'
        OBVIOUS
      <3>1. line' \in 0 .. MaxLine
        BY DEF EscapeChat, SetIsChatting
      <3>2. chatting' \in BOOLEAN /\ ignoreFirst' \in BOOLEAN
        BY DEF EscapeChat, SetIsChatting
      <3>3. UNCHANGED <<keyboard, menu, pointer>>
        BY DEF EscapeChat, SetIsChatting
      <3> QED
        BY <3>1, <3>2, <3>3
    <2>2. ToggleMenu => InputTypeOK'
      BY DEF ToggleMenu, LockMouse, UnlockMouse
    <2> QED
      BY <1>4, <2>1, <2>2 DEF InputEscape, PressEscape
  <1>5. CASE InputSends
    <2>1. PressEnter => InputTypeOK'
      <3> SUFFICES ASSUME PressEnter PROVE InputTypeOK'
        OBVIOUS
      <3>1. line' \in 0 .. MaxLine
        BY DEF PressEnter, SetIsChatting
      <3>2. chatting' \in BOOLEAN /\ ignoreFirst' \in BOOLEAN
        BY DEF PressEnter, SetIsChatting
      <3>3. UNCHANGED <<keyboard, menu, pointer>>
        BY DEF PressEnter, SetIsChatting
      <3> QED
        BY <3>1, <3>2, <3>3
    <2>2. OnMouseButton => InputTypeOK'
      BY DEF OnMouseButton, LockMouse
    <2> QED
      BY <1>5, <2>1, <2>2 DEF InputSends
  <1>6. CASE SetGame
    BY <1>6 DEF SetGame
  <1>7. ASSUME NEW why \in Reasons, ShowMessage(why) PROVE InputTypeOK'
    BY <1>7 DEF ShowMessage
  <1> QED
    BY <1>1, <1>2, <1>3, <1>4, <1>5, <1>6, <1>7, InputFrame

LEMMA ClientInputInit == Init => InputTypeOK
  <1> SUFFICES ASSUME Init PROVE InputTypeOK
    OBVIOUS
  <1>1. line = 0 /\ MaxLine \in Nat
    BY InputAssumption DEF Init, InputInit
  <1>2. line \in 0 .. MaxLine
    BY <1>1
  <1>3. InputInit
    BY DEF Init
  <1> QED
    BY <1>2, <1>3 DEF InputInit, InputTypeOK

(* Type correctness, for any keys, chat line, timeout and width of the counter. *)
THEOREM ClientTypes == Spec => []TypeOK
  <1> DEFINE T == TypeSafe /\ Clock /\ InputTypeOK
  <1>1. Init => T
    <2> SUFFICES ASSUME Init PROVE T
      OBVIOUS
    <2>1. TypeSafe
      BY DEF Init, TypeSafe, States, PeerStates, Reasons
    <2>2. Clock
      <3>1. elapsed = 0 /\ left = 0 /\ joins = 0
        BY DEF Init
      <3>2. Timeout \in Nat /\ Wrap \in Nat /\ 0 < Wrap
        BY WindowAssumption
      <3> QED
        BY <3>1, <3>2 DEF Clock
    <2>3. InputTypeOK
      BY ClientInputInit
    <2> QED
      BY <2>1, <2>2, <2>3
  <1>2. T /\ [Next]_vars => T'
    BY TypeSafeStep, ClockStep, InputTypeStep
  <1>3. T => TypeOK
    <2> SUFFICES ASSUME T PROVE TypeOK
      OBVIOUS
    <2>1. elapsed \in 0 .. Timeout + Wrap /\ left \in 0 .. Wrap - 1
      BY WindowAssumption DEF Clock
    <2> QED
      BY <2>1 DEF TypeSafe, Clock, TypeOK
  <1> QED
    BY <1>1, <1>2, <1>3, PTL DEF Spec, Safety

----------------------------------------------------------------------------
(* The window's loop, the connection thread and the Peer. *)

(* Which states follow which: a state that has decided on the next one is stopped before *)
(* anything else happens, and nothing follows a message. *)
Control ==
  /\ pc \in {"outer", "finalized", "ended"} <=> current = "none"
  /\ pc \in {"poll", "logic", "join", "recv"} => next = "none"
  /\ pc = "stop" => next # "none" \/ closing
  /\ pc = "join" => current = "Connecting" /\ conn = "done"
  /\ pc = "recv" => current = "Game"
  /\ pc = "died" => current = "Connecting"
  /\ current = "Game" => next \in {"none", "Message"}
  /\ current = "Connecting" => next # "Connecting"
  /\ current = "Message" => next = "none"

(* What the thread has done, read off where it is. *)
Connection ==
  /\ next = "Connecting" => conn = "none" /\ joins = 0
  /\ current = "Game" \/ next = "Game" => conn = "done"
  /\ ThreadHasState
  /\ conn \in {"none", "create", "connect", "failed"} => peer = "none"
  /\ conn = "connected" => peer = "live"
  /\ conn = "finishing" => peer = IF success THEN "live" ELSE "none"
  /\ conn = "done" => (success <=> peer # "none")
  /\ finished => conn = "done"

(* While a game can send, its Peer is live or waits to be deleted by the next recv, and *)
(* the loop then ends first; a state that has not yet decided has not asked to join. *)
Peers ==
  /\ pc = "join" \/ next = "Game" => peer = "live"
  /\ current = "Connecting" /\ next = "none" => peer \in {"none", "live"}
  /\ current = "Game" => peer = "live" \/ (peer = "doomed" /\ next = "Message")
  /\ SendsToPeer
  /\ FailureIsReal /\ (message = "not connected" => conn = "done")
  /\ current = "Connecting" /\ next = "none" /\ pc \notin {"join", "died"} => joins = 0
  /\ OneJoin

LEMMA ControlStep == TypeSafe /\ Control /\ Connection /\ [Next]_vars => Control'
  <1> SUFFICES ASSUME TypeSafe, Control, Connection, [Next]_vars PROVE Control'
    OBVIOUS
  <1> USE DEF TypeSafe, Control, Connection, States, PeerStates, ThreadHasState, loop, thread, wait, net
  <1>1. Thread(HostCreate) => Control'
    BY DEF Thread, HostCreate
  <1>2. Thread(Connect) => Control'
    BY DEF Thread, Connect
  <1>3. Thread(SetSuccess) => Control'
    BY DEF Thread, SetSuccess
  <1>4. Thread(SetFinished) => Control'
    BY DEF Thread, SetFinished
  <1>5. CloseWindow => Control'
    BY DEF CloseWindow
  <1>6. \A d \in Directions : KeyElsewhere(d) => Control'
    BY DEF KeyElsewhere
  <1>7. InputQuiet => Control'
    BY DEF InputQuiet, Playing
  <1>8. InputEscape => Control'
    BY DEF InputEscape, Playing
  <1>9. InputSends => Control'
    BY DEF InputSends, Playing, Send
  <1>10. KeyExchange => Control'
    BY DEF KeyExchange
  <1>11. Accepted => Control'
    BY DEF Accepted, SetGame
  <1>12. Refused => Control'
    BY DEF Refused, ShowMessage
  <1>13. Unexpected => Control'
    BY DEF Unexpected, ShowMessage
  <1>14. StartState => Control'
    BY DEF StartState
  <1>15. PollDone => Control'
    BY DEF PollDone
  <1>16. NotYet => Control'
    BY DEF NotYet
  <1>17. NotConnected => Control'
    BY DEF NotConnected, ShowMessage
  <1>18. SendJoin => Control'
    BY DEF SendJoin, Send
  <1>19. Tick => Control'
    BY DEF Tick
  <1>20. Expires => Control'
    BY DEF Expires, ShowMessage
  <1>21. RecvNothing => Control'
    BY DEF RecvNothing, InGameLoop, PeersDeleted
  <1>22. FrameTick => Control'
    BY DEF FrameTick, Send
  <1>23. StopState => Control'
    BY DEF StopState, Send
  <1>24. FinalizeClient => Control'
    BY DEF FinalizeClient
  <1>25. DestroyWindow => Control'
    BY DEF DestroyWindow
  <1>26. UNCHANGED vars => Control'
    BY DEF vars
  <1>27. KeyExchangeFails => Control'
    BY DEF KeyExchangeFails
  <1>28. RecvLate => Control'
    BY DEF RecvLate, InGameLoop, PeersDeleted
  <1>29. RecvMessage => Control'
    BY DEF RecvMessage
  <1>30. RecvExpires => Control'
    BY DEF RecvExpires
  <1>31. RecvDisconnect => Control'
    BY DEF RecvDisconnect, InGameLoop, ShowMessage, PeersDeleted
  <1> HIDE DEF Control
  <1> QED
    BY StepCases, <1>1, <1>2, <1>3, <1>4, <1>5, <1>6, <1>7, <1>8, <1>9, <1>10, <1>11, <1>12,
       <1>13, <1>14, <1>15, <1>16, <1>17, <1>18, <1>19, <1>20, <1>21, <1>22, <1>23, <1>24,
       <1>25, <1>26, <1>27, <1>28, <1>29, <1>30, <1>31

LEMMA ConnectionStep == TypeSafe /\ Control /\ Connection /\ Peers /\ [Next]_vars => Connection'
  <1> SUFFICES ASSUME TypeSafe, Control, Connection, Peers, [Next]_vars PROVE Connection'
    OBVIOUS
  <1> USE DEF TypeSafe, Control, Connection, States, PeerStates, ThreadHasState, loop, thread, wait, net
  <1>1. Thread(HostCreate) => Connection'
    BY DEF Thread, HostCreate
  <1>2. Thread(Connect) => Connection'
    BY DEF Thread, Connect
  <1>3. Thread(SetSuccess) => Connection'
    BY DEF Thread, SetSuccess
  <1>4. Thread(SetFinished) => Connection'
    BY DEF Thread, SetFinished
  <1>5. CloseWindow => Connection'
    BY DEF CloseWindow
  <1>6. \A d \in Directions : KeyElsewhere(d) => Connection'
    BY DEF KeyElsewhere
  <1>7. InputQuiet => Connection'
    BY DEF InputQuiet, Playing
  <1>8. InputEscape => Connection'
    BY DEF InputEscape, Playing
  <1>9. InputSends => Connection'
    BY DEF InputSends, Playing, Send
  <1>10. KeyExchange => Connection'
    BY DEF KeyExchange
  <1>11. Accepted => Connection'
    BY DEF Accepted, SetGame
  <1>12. Refused => Connection'
    BY DEF Refused, ShowMessage
  <1>13. Unexpected => Connection'
    <2> SUFFICES ASSUME Unexpected PROVE Connection'
      OBVIOUS
    <2>1. next' = "Message" /\ peer' \in {"live", "doomed"}
      BY DEF Unexpected, ShowMessage, Peers
    <2>2. pc = "join" /\ peer = "live" /\ UNCHANGED <<current, thread, joins>>
      BY DEF Unexpected, ShowMessage, Peers
    <2> QED
      BY <2>1, <2>2
  <1>14. StartState => Connection'
    BY DEF StartState
  <1>15. PollDone => Connection'
    BY DEF PollDone
  <1>16. NotYet => Connection'
    BY DEF NotYet
  <1>17. NotConnected => Connection'
    <2> SUFFICES ASSUME NotConnected PROVE Connection'
      OBVIOUS
    <2>1. next' = "Message" /\ UNCHANGED <<current, thread, joins, peer>>
      BY DEF NotConnected, ShowMessage
    <2> QED
      BY <2>1
  <1>18. SendJoin => Connection'
    BY DEF SendJoin, Send
  <1>19. Tick => Connection'
    BY DEF Tick
  <1>20. Expires => Connection'
    <2> SUFFICES ASSUME Expires PROVE Connection'
      OBVIOUS
    <2>1. next' = "Message" /\ UNCHANGED <<current, thread, joins, peer>>
      BY DEF Expires, ShowMessage
    <2> QED
      BY <2>1
  <1>21. RecvNothing => Connection'
    BY DEF RecvNothing, InGameLoop, PeersDeleted
  <1>22. FrameTick => Connection'
    BY DEF FrameTick, Send
  <1>23. StopState => Connection'
    BY DEF StopState, Send
  <1>24. FinalizeClient => Connection'
    BY DEF FinalizeClient
  <1>25. DestroyWindow => Connection'
    BY DEF DestroyWindow
  <1>26. UNCHANGED vars => Connection'
    BY DEF vars
  <1>27. KeyExchangeFails => Connection'
    BY DEF KeyExchangeFails
  <1>28. RecvLate => Connection'
    BY DEF RecvLate, InGameLoop, PeersDeleted
  <1>29. RecvMessage => Connection'
    BY DEF RecvMessage
  <1>30. RecvExpires => Connection'
    BY DEF RecvExpires
  <1>31. RecvDisconnect => Connection'
    BY DEF RecvDisconnect, InGameLoop, ShowMessage, PeersDeleted
  <1> HIDE DEF Connection
  <1> QED
    BY StepCases, <1>1, <1>2, <1>3, <1>4, <1>5, <1>6, <1>7, <1>8, <1>9, <1>10, <1>11, <1>12,
       <1>13, <1>14, <1>15, <1>16, <1>17, <1>18, <1>19, <1>20, <1>21, <1>22, <1>23, <1>24,
       <1>25, <1>26, <1>27, <1>28, <1>29, <1>30, <1>31

LEMMA InitNoJoin == ASSUME Init PROVE joins <= 1
  <1>1. joins = 0
    BY DEF Init
  <1> QED
    BY <1>1

LEMMA FirstJoin == ASSUME SendJoin, joins = 0 PROVE joins' <= 1
  BY DEF SendJoin

LEMMA PeersStep == TypeSafe /\ Control /\ Connection /\ Peers /\ [Next]_vars => Peers'
  <1> SUFFICES ASSUME TypeSafe, Control, Connection, Peers, [Next]_vars PROVE Peers'
    OBVIOUS
  <1> USE DEF TypeSafe, Control, Connection, Peers, States, PeerStates, ThreadHasState, SendsToPeer, FailureIsReal, OneJoin, loop, thread, wait, net
  <1>0. ASSUME Send, UNCHANGED <<peer, next>>, peer = "live" \/ (peer = "doomed" /\ next = "Message")
        PROVE  SendsToPeer'
    BY <1>0, SentWell
  <1>1. Thread(HostCreate) => Peers'
    BY DEF Thread, HostCreate
  <1>2. Thread(Connect) => Peers'
    BY DEF Thread, Connect
  <1>3. Thread(SetSuccess) => Peers'
    BY DEF Thread, SetSuccess
  <1>4. Thread(SetFinished) => Peers'
    BY DEF Thread, SetFinished
  <1>5. CloseWindow => Peers'
    BY DEF CloseWindow
  <1>6. \A d \in Directions : KeyElsewhere(d) => Peers'
    BY DEF KeyElsewhere
  <1>7. InputQuiet => Peers'
    BY DEF InputQuiet, Playing
  <1>8. InputEscape => Peers'
    BY DEF InputEscape, Playing
  <1>9. InputSends => Peers'
    <2> SUFFICES ASSUME InputSends PROVE Peers'
      OBVIOUS
    <2>1. Send /\ UNCHANGED <<loop, thread, wait, peer>> /\ current = "Game"
      BY DEF InputSends, Playing
    <2>2. SendsToPeer'
      BY <2>1, <1>0
    <2> HIDE DEF SendsToPeer
    <2> QED
      BY <2>1, <2>2
  <1>10. KeyExchange => Peers'
    BY DEF KeyExchange
  <1>11. Accepted => Peers'
    BY DEF Accepted, SetGame
  <1>12. Refused => Peers'
    BY DEF Refused, ShowMessage
  <1>13. Unexpected => Peers'
    BY DEF Unexpected, ShowMessage
  <1>14. StartState => Peers'
    BY DEF StartState
  <1>15. PollDone => Peers'
    BY DEF PollDone
  <1>16. NotYet => Peers'
    BY DEF NotYet
  <1>17. NotConnected => Peers'
    BY DEF NotConnected, ShowMessage
  <1>18. SendJoin => Peers'
    <2> SUFFICES ASSUME SendJoin PROVE Peers'
      OBVIOUS
    <2>1. joins' <= 1
      <3>1. joins = 0
        BY DEF SendJoin
      <3> QED
        BY <3>1, FirstJoin
    <2>2. peer = "live" /\ current = "Connecting" /\ next = "none"
      BY DEF SendJoin
    <2>3. pc' = "join" /\ Send
      BY DEF SendJoin
    <2>4. UNCHANGED <<current, next, message, peer, conn>>
      BY DEF SendJoin
    <2>5. SendsToPeer'
      BY <2>2, <2>3, <2>4, <1>0
    <2> HIDE DEF SendsToPeer
    <2> QED
      BY <2>1, <2>2, <2>3, <2>4, <2>5
  <1>19. Tick => Peers'
    BY DEF Tick
  <1>20. Expires => Peers'
    BY DEF Expires, ShowMessage
  <1>21. RecvNothing => Peers'
    BY DEF RecvNothing, InGameLoop, PeersDeleted
  <1>22. FrameTick => Peers'
    <2> SUFFICES ASSUME FrameTick PROVE Peers'
      OBVIOUS
    <2>1. UNCHANGED <<current, next, message, thread, wait, peer>> /\ pc' \in {"poll", "stop"}
      BY DEF FrameTick
    <2>2. SendsToPeer'
      BY <2>1, <1>0 DEF FrameTick
    <2>3. pc = "frame"
      BY DEF FrameTick
    <2> HIDE DEF SendsToPeer
    <2> QED
      BY <2>1, <2>2, <2>3
  <1>23. StopState => Peers'
    <2> SUFFICES ASSUME StopState PROVE Peers'
      OBVIOUS
    <2>1. UNCHANGED <<next, message, thread, wait, peer>> /\ current' = "none" /\ pc' = "outer"
      BY DEF StopState
    <2>2. SendsToPeer'
      BY <2>1, <1>0 DEF StopState
    <2>3. pc = "stop"
      BY DEF StopState
    <2> HIDE DEF SendsToPeer
    <2> QED
      BY <2>1, <2>2, <2>3
  <1>24. FinalizeClient => Peers'
    BY DEF FinalizeClient
  <1>25. DestroyWindow => Peers'
    BY DEF DestroyWindow
  <1>26. UNCHANGED vars => Peers'
    BY DEF vars
  <1>27. KeyExchangeFails => Peers'
    BY DEF KeyExchangeFails
  <1>28. RecvLate => Peers'
    BY DEF RecvLate, InGameLoop, PeersDeleted
  <1>29. RecvMessage => Peers'
    BY DEF RecvMessage
  <1>30. RecvExpires => Peers'
    BY DEF RecvExpires
  <1>31. RecvDisconnect => Peers'
    BY DEF RecvDisconnect, InGameLoop, ShowMessage, PeersDeleted
  <1> HIDE DEF Peers
  <1> QED
    BY StepCases, <1>1, <1>2, <1>3, <1>4, <1>5, <1>6, <1>7, <1>8, <1>9, <1>10, <1>11, <1>12,
       <1>13, <1>14, <1>15, <1>16, <1>17, <1>18, <1>19, <1>20, <1>21, <1>22, <1>23, <1>24,
       <1>25, <1>26, <1>27, <1>28, <1>29, <1>30, <1>31

(* Keyboard, chat line and pointer. Before the game nothing moves, and a game that is over *)
(* has let go of the cursor. *)
Inputs ==
  /\ OneHasKeyboard
  /\ MovesWhileHeld
  /\ next \in {"Connecting", "Game"} \/ current = "Connecting" => going = {}
  /\ menu => going = {}
  /\ CursorFree
  /\ current = "Game" /\ next # "none" => ~captured

LEMMA InputsStep == TypeSafe /\ InputTypeOK /\ Control /\ Inputs /\ [Next]_vars => Inputs'
  <1> SUFFICES ASSUME TypeSafe, InputTypeOK, Control, Inputs, [Next]_vars PROVE Inputs'
    OBVIOUS
  <1> USE DEF TypeSafe, InputTypeOK, Control, Inputs, States, OneHasKeyboard, MovesWhileHeld, GoesWhileHeld, CursorFree, keyboard, chatline, pointer, inputs, loop, thread, wait, net
  <1>1. Thread(HostCreate) => Inputs'
    BY DEF Thread, HostCreate
  <1>2. Thread(Connect) => Inputs'
    BY DEF Thread, Connect
  <1>3. Thread(SetSuccess) => Inputs'
    BY DEF Thread, SetSuccess
  <1>4. Thread(SetFinished) => Inputs'
    BY DEF Thread, SetFinished
  <1>5. CloseWindow => Inputs'
    BY DEF CloseWindow
  <1>6. \A d \in Directions : KeyElsewhere(d) => Inputs'
    BY DEF KeyElsewhere
  <1>7. InputQuiet => Inputs'
    <2> SUFFICES ASSUME InputQuiet PROVE Inputs'
      OBVIOUS
    <2>1. ASSUME NEW d \in Directions, PressDirection(d) PROVE Inputs'
      BY <2>1 DEF InputQuiet, Playing, PressDirection, InGame
    <2>2. ASSUME NEW d \in Directions, ReleaseDirection(d) PROVE Inputs'
      <3>1. current = "Game" /\ next = "none" /\ GoesWhileHeld /\ (menu => going = {})
        BY <2>2 DEF InputQuiet, Playing
      <3>2. GoesWhileHeld'
        BY <2>2, <3>1 DEF ReleaseDirection, InGame
      <3>3. UNCHANGED <<current, next, closing, chatting, menu, pointer>>
        BY <2>2 DEF InputQuiet, ReleaseDirection
      <3>4. menu' => going' = {}
        BY <2>2, <3>1, <3>3 DEF ReleaseDirection
      <3> QED
        BY <3>1, <3>2, <3>3, <3>4
    <2>3. PressChat => Inputs'
      BY DEF InputQuiet, Playing, PressChat, SetIsChatting, InGame
    <2>4. PressEnter => Inputs'
      BY DEF InputQuiet, Playing, PressEnter, SetIsChatting
    <2>5. PressUnlock => Inputs'
      BY DEF InputQuiet, Playing, PressUnlock, UnlockMouse
    <2>6. PressBackspace => Inputs'
      BY DEF InputQuiet, Playing, PressBackspace
    <2>7. OnChar => Inputs'
      BY DEF InputQuiet, Playing, OnChar
    <2>8. OnMouseButton => Inputs'
      BY DEF InputQuiet, Playing, OnMouseButton, LockMouse
    <2> QED
      BY <2>1, <2>2, <2>3, <2>4, <2>5, <2>6, <2>7, <2>8 DEF InputQuiet
  <1>8. InputEscape => Inputs'
    <2> SUFFICES ASSUME InputEscape PROVE Inputs'
      OBVIOUS
    <2>1. EscapeChat => Inputs'
      BY DEF InputEscape, Playing, EscapeChat, SetIsChatting
    <2>2. ToggleMenu => Inputs'
      BY DEF InputEscape, Playing, ToggleMenu, LockMouse, UnlockMouse
    <2> QED
      BY <2>1, <2>2 DEF InputEscape, PressEscape
  <1>9. InputSends => Inputs'
    <2> SUFFICES ASSUME InputSends PROVE Inputs'
      OBVIOUS
    <2>1. PressEnter => Inputs'
      BY DEF InputSends, Playing, PressEnter, SetIsChatting
    <2>2. OnMouseButton => Inputs'
      BY DEF InputSends, Playing, OnMouseButton, LockMouse
    <2> QED
      BY <2>1, <2>2 DEF InputSends
  <1>10. KeyExchange => Inputs'
    BY DEF KeyExchange
  <1>11. Accepted => Inputs'
    BY DEF Accepted, SetGame
  <1>12. Refused => Inputs'
    BY DEF Refused, ShowMessage
  <1>13. Unexpected => Inputs'
    BY DEF Unexpected, ShowMessage
  <1>14. StartState => Inputs'
    BY DEF StartState
  <1>15. PollDone => Inputs'
    BY DEF PollDone
  <1>16. NotYet => Inputs'
    BY DEF NotYet
  <1>17. NotConnected => Inputs'
    <2> SUFFICES ASSUME NotConnected PROVE Inputs'
      OBVIOUS
    <2>1. next' = "Message" /\ captured' = FALSE /\ current = "Connecting"
      BY DEF NotConnected, ShowMessage
    <2>2. UNCHANGED <<current, closing, going, chatting, menu, mouseLocked, held, unheard>>
      BY DEF NotConnected, ShowMessage
    <2> QED
      BY <2>1, <2>2
  <1>18. SendJoin => Inputs'
    BY DEF SendJoin, Send
  <1>19. Tick => Inputs'
    BY DEF Tick
  <1>20. Expires => Inputs'
    <2> SUFFICES ASSUME Expires PROVE Inputs'
      OBVIOUS
    <2>1. next' = "Message" /\ captured' = FALSE /\ current = "Connecting"
      BY DEF Expires, ShowMessage
    <2>2. UNCHANGED <<current, closing, going, chatting, menu, mouseLocked, held, unheard>>
      BY DEF Expires, ShowMessage
    <2> QED
      BY <2>1, <2>2
  <1>21. RecvNothing => Inputs'
    BY DEF RecvNothing, InGameLoop, PeersDeleted
  <1>22. FrameTick => Inputs'
    BY DEF FrameTick, Send
  <1>23. StopState => Inputs'
    BY DEF StopState, Send
  <1>24. FinalizeClient => Inputs'
    BY DEF FinalizeClient
  <1>25. DestroyWindow => Inputs'
    BY DEF DestroyWindow
  <1>26. UNCHANGED vars => Inputs'
    BY DEF vars
  <1>27. KeyExchangeFails => Inputs'
    BY DEF KeyExchangeFails
  <1>28. RecvLate => Inputs'
    BY DEF RecvLate, InGameLoop, PeersDeleted
  <1>29. RecvMessage => Inputs'
    BY DEF RecvMessage
  <1>30. RecvExpires => Inputs'
    BY DEF RecvExpires
  <1>31. RecvDisconnect => Inputs'
    BY DEF RecvDisconnect, InGameLoop, ShowMessage, PeersDeleted
  <1> HIDE DEF Inputs
  <1> QED
    BY StepCases, <1>1, <1>2, <1>3, <1>4, <1>5, <1>6, <1>7, <1>8, <1>9, <1>10, <1>11, <1>12,
       <1>13, <1>14, <1>15, <1>16, <1>17, <1>18, <1>19, <1>20, <1>21, <1>22, <1>23, <1>24,
       <1>25, <1>26, <1>27, <1>28, <1>29, <1>30, <1>31

----------------------------------------------------------------------------
(* The invariant, and what follows from it. *)

WindowInv == TypeSafe /\ InputTypeOK /\ Control /\ Connection /\ Peers /\ Inputs

LEMMA WindowInvariant == Spec => []WindowInv
  <1>1. Init => WindowInv
    <2> SUFFICES ASSUME Init PROVE WindowInv
      OBVIOUS
    <2>1. TypeSafe
      BY DEF Init, TypeSafe, States, PeerStates, Reasons
    <2>2. InputTypeOK
      BY ClientInputInit
    <2>3. Control
      BY DEF Init, Control
    <2>4. Connection
      BY DEF Init, Connection, ThreadHasState
    <2>5. Peers
      <3>1. OneJoin
        BY InitNoJoin DEF OneJoin
      <3> QED
        BY <3>1 DEF Init, Peers, SendsToPeer, FailureIsReal
    <2>6. Inputs
      BY DEF Init, InputInit, Inputs, OneHasKeyboard, MovesWhileHeld, CursorFree
    <2> QED
      BY <2>1, <2>2, <2>3, <2>4, <2>5, <2>6 DEF WindowInv
  <1>2. WindowInv /\ [Next]_vars => WindowInv'
    BY TypeSafeStep, InputTypeStep, ControlStep, ConnectionStep, PeersStep, InputsStep DEF WindowInv
  <1> QED
    BY <1>1, <1>2, PTL DEF Spec, Safety

(* Nothing is ever sent to a Peer that is gone, or to none, and to one whose connection has *)
(* ended (which still awaits its deletion) only by the turn of the loop that ends the game: *)
(* the tick that learns of it, and the game that is over saying that it quits. *)
THEOREM ClientSendsToPeer == Spec => []SendsToPeer
  <1>1. WindowInv => SendsToPeer
    BY DEF WindowInv, Peers
  <1> QED
    BY <1>1, WindowInvariant, PTL

(* The connection thread never outlives the state it writes to. *)
THEOREM ClientThreadHasState == Spec => []ThreadHasState
  <1>1. WindowInv => ThreadHasState
    BY DEF WindowInv, Connection
  <1> QED
    BY <1>1, WindowInvariant, PTL

(* A connection that is said to have failed has failed: no order of the two threads' reads *)
(* and writes of `finished` and `success` shows the one without the other. *)
THEOREM ClientFailureIsReal == Spec => []FailureIsReal
  <1>1. WindowInv => FailureIsReal
    BY DEF WindowInv, Peers
  <1> QED
    BY <1>1, WindowInvariant, PTL

(* At most one join request is sent, however late its answer is. *)
THEOREM ClientJoinsOnce == Spec => []OneJoin
  <1>1. WindowInv => OneJoin
    BY DEF WindowInv, Peers
  <1> QED
    BY <1>1, WindowInvariant, PTL

(* The chat line and the menu never have the keyboard both. *)
THEOREM ClientOneHasKeyboard == Spec => []OneHasKeyboard
  <1>1. WindowInv => OneHasKeyboard
    BY DEF WindowInv, Inputs
  <1> QED
    BY <1>1, WindowInvariant, PTL

(* The cursor is captured only by a game that is on and not in its menu: every way out of the *)
(* game, and into the menu, gives it back. *)
THEOREM ClientCursorFree == Spec => []CursorFree
  <1>1. WindowInv => CursorFree
    BY DEF WindowInv, Inputs
  <1> QED
    BY <1>1, WindowInvariant, PTL

(* For any set of movement keys, the player moves only in directions whose key is down or *)
(* went up while the chat line was open. *)
THEOREM ClientMovesWhileHeld == Spec => []MovesWhileHeld
  <1>1. WindowInv => MovesWhileHeld
    BY DEF WindowInv, Inputs
  <1> QED
    BY <1>1, WindowInvariant, PTL
=============================================================================
