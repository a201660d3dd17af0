----------------------- MODULE SessionsRoster_proofs -----------------------
(***************************************************************************)
(* Proofs about Sessions, continued: what the clients list. Joins and      *)
(* quits reach a client in the order the server made them, so what it      *)
(* lists and what is under way to it always add up to the other players;   *)
(* and sessions are drawn once per connection, which bounds them.          *)
(***************************************************************************)
EXTENDS Sessions_proofs, FiniteSetTheorems

Unjoined(c) == client[c] = "off" \/ (inbox[c] # <<>> /\ Head(inbox[c]) # Quit)

\* Connections whose one request to join was handled, or will never be made.
Spent == {c \in Conns : ~Unjoined(c)}

\* A session is drawn for no more than one request of each connection.
JoinsCounted == lastSess <= Cardinality(Spent)

----------------------------------------------------------------------------
(* What a channel and a list hold together. *)

Told(q, m) == \E i \in DOMAIN q : q[i] = m

\* Of each session there is at most one join and one quit under way; the join is not
\* of one that is listed, and the quit is of one that is listed or comes after its join.
Consistent(q, r) ==
  \A s \in Sess :
    /\ \A i, j \in DOMAIN q : q[i] = Joined(s) /\ q[j] = Joined(s) => i = j
    /\ \A i, j \in DOMAIN q : q[i] = Left(s) /\ q[j] = Left(s) => i = j
    /\ r[s] = 1 => ~Told(q, Joined(s))
    /\ \A i \in DOMAIN q :
         q[i] = Left(s) => r[s] = 1 \/ \E j \in DOMAIN q : j < i /\ q[j] = Joined(s)

\* The list will have the session, once all is read.
WillList(q, r, s) == (r[s] = 1 \/ Told(q, Joined(s))) /\ ~Told(q, Left(s))

Mentions(q, r, s) == r[s] = 1 \/ Told(q, Joined(s)) \/ Told(q, Left(s))

Nobody == [s \in Sess |-> 0]

OnServer(s, c) == \E i \in DOMAIN players : players[i].sessId = s /\ players[i].peer # c

RosterTypes ==
  /\ base \in [Conns -> Seq(BaseMsg)]
  /\ roster \in [Conns -> [Sess -> {0, 1}]]

\* Who does not read, or has not been answered, has heard of nobody.
QuietUntilAnswered ==
  \A c \in Conns : ~Reads(c) \/ Unjoined(c) => base[c] = <<>> /\ roster[c] = Nobody

SessionsKnown ==
  \A c \in Conns : \A s \in Sess : Mentions(base[c], roster[c], s) => s <= lastSess

ListsConsistent == \A c \in Conns : Consistent(base[c], roster[c])

\* Who plays will list the other players and nobody else.
ListsOthers ==
  \A c \in Conns : Playing(c) /\ Reads(c) =>
    \A s \in Sess : WillList(base[c], roster[c], s) <=> OnServer(s, c)

RosterInv ==
  RosterTypes /\ QuietUntilAnswered /\ SessionsKnown /\ ListsConsistent /\ ListsOthers

----------------------------------------------------------------------------
(* Lemmas about channels. *)

(* Messages are told apart. *)
LEMMA MessagesDiffer ==
  /\ Success \in BaseMsg /\ Failure \in BaseMsg
  /\ \A s \in Sess : Joined(s) \in BaseMsg /\ Left(s) \in BaseMsg
  /\ \A s, t : Joined(s) # Left(t)
  /\ \A s : Joined(s) # Success /\ Joined(s) # Failure /\ Left(s) # Success /\ Left(s) # Failure
  /\ \A s, t : Joined(s) = Joined(t) => s = t
  /\ \A s, t : Left(s) = Left(t) => s = t
  <1>1. Success \in BaseMsg /\ Failure \in BaseMsg
    BY DEF BaseMsg
  <1>2. \A s \in Sess : Joined(s) \in BaseMsg /\ Left(s) \in BaseMsg
    BY DEF BaseMsg
  <1>3. \A s : Joined(s).kind = "joined" /\ Joined(s).sess = s
    BY DEF Joined
  <1>4. \A s : Left(s).kind = "left" /\ Left(s).sess = s
    BY DEF Left
  <1>5. Success.kind = "success" /\ Failure.kind = "failure"
    BY DEF Success, Failure
  <1>6. "joined" # "left" /\ "joined" # "success" /\ "joined" # "failure"
        /\ "left" # "success" /\ "left" # "failure"
    OBVIOUS
  <1>7. \A s, t : Joined(s) # Left(t)
    BY <1>3, <1>4, <1>6
  <1>8. \A s : Joined(s) # Success /\ Joined(s) # Failure /\ Left(s) # Success /\ Left(s) # Failure
    BY <1>3, <1>4, <1>5, <1>6
  <1> QED
    BY <1>1, <1>2, <1>3, <1>4, <1>7, <1>8

(* A message more at the end. *)
LEMMA ToldMore ==
  ASSUME NEW q \in Seq(BaseMsg), NEW m \in BaseMsg
  PROVE  /\ Len(q) \in Nat /\ DOMAIN q = 1 .. Len(q)
         /\ Append(q, m) \in Seq(BaseMsg)
         /\ DOMAIN Append(q, m) = 1 .. Len(q) + 1
         /\ \A i \in 1 .. Len(q) : Append(q, m)[i] = q[i]
         /\ Append(q, m)[Len(q) + 1] = m
         /\ \A x : Told(Append(q, m), x) <=> Told(q, x) \/ x = m
  <1>1. Len(q) \in Nat /\ DOMAIN q = 1 .. Len(q)
    BY LenProperties
  <1>2. /\ Append(q, m) \in Seq(BaseMsg)
        /\ Len(Append(q, m)) = Len(q) + 1
        /\ \A i \in 1 .. Len(q) : Append(q, m)[i] = q[i]
        /\ Append(q, m)[Len(q) + 1] = m
    BY AppendProperties
  <1>3. DOMAIN Append(q, m) = 1 .. Len(q) + 1
    BY <1>2, LenProperties
  <1>4. \A i \in 1 .. Len(q) + 1 : i \in 1 .. Len(q) \/ i = Len(q) + 1
    BY <1>1
  <1>5. \A x : Told(Append(q, m), x) <=> Told(q, x) \/ x = m
    <2> TAKE x
    <2> HIDE <1>2, <1>3
    <2>1. ASSUME Told(Append(q, m), x) PROVE Told(q, x) \/ x = m
      BY <1>1, <1>2, <1>3, <1>4, <2>1 DEF Told
    <2>2. ASSUME Told(q, x) PROVE Told(Append(q, m), x)
      BY <1>1, <1>2, <1>3, <2>2 DEF Told
    <2>3. Told(Append(q, m), m)
      BY <1>1, <1>2, <1>3 DEF Told
    <2> QED
      BY <2>1, <2>2, <2>3
  <1> QED
    BY <1>1, <1>2, <1>3, <1>5

(* A join of a session never heard of. *)
LEMMA JoinTold ==
  ASSUME NEW q \in Seq(BaseMsg), NEW r \in [Sess -> {0, 1}], Consistent(q, r),
         NEW s \in Sess, ~Mentions(q, r, s)
  PROVE  /\ Consistent(Append(q, Joined(s)), r)
         /\ \A t \in Sess : WillList(Append(q, Joined(s)), r, t) <=> WillList(q, r, t) \/ t = s
         /\ \A t \in Sess : Mentions(Append(q, Joined(s)), r, t) <=> Mentions(q, r, t) \/ t = s
  <1> DEFINE m == Joined(s)
             p == Append(q, m)
  <1>1. /\ Len(q) \in Nat /\ DOMAIN q = 1 .. Len(q)
        /\ DOMAIN p = 1 .. Len(q) + 1
        /\ \A i \in 1 .. Len(q) : p[i] = q[i]
        /\ p[Len(q) + 1] = m
        /\ \A x : Told(p, x) <=> Told(q, x) \/ x = m
    BY MessagesDiffer, ToldMore
  <1>2. \A t : Left(t) # m /\ (Joined(t) = m => t = s)
    BY MessagesDiffer
  <1>3. ~Told(q, m) /\ r[s] # 1 /\ ~Told(q, Left(s))
    BY DEF Mentions
  <1> HIDE DEF m, p
  <1>4. \A i \in DOMAIN p : i \in DOMAIN q \/ i = Len(q) + 1
    BY <1>1
  <1>5. Consistent(p, r)
    <2> SUFFICES ASSUME NEW t \in Sess
                 PROVE  /\ \A i, j \in DOMAIN p : p[i] = Joined(t) /\ p[j] = Joined(t) => i = j
                        /\ \A i, j \in DOMAIN p : p[i] = Left(t) /\ p[j] = Left(t) => i = j
                        /\ r[t] = 1 => ~Told(p, Joined(t))
                        /\ \A i \in DOMAIN p :
                             p[i] = Left(t) => r[t] = 1 \/ \E j \in DOMAIN p : j < i /\ p[j] = Joined(t)
      BY DEF Consistent
    <2>1. /\ \A i, j \in DOMAIN q : q[i] = Joined(t) /\ q[j] = Joined(t) => i = j
          /\ \A i, j \in DOMAIN q : q[i] = Left(t) /\ q[j] = Left(t) => i = j
          /\ r[t] = 1 => ~Told(q, Joined(t))
          /\ \A i \in DOMAIN q :
               q[i] = Left(t) => r[t] = 1 \/ \E j \in DOMAIN q : j < i /\ q[j] = Joined(t)
      BY DEF Consistent
    <2>2. \A i, j \in DOMAIN p : p[i] = Joined(t) /\ p[j] = Joined(t) => i = j
      BY <1>1, <1>2, <1>3, <1>4, <2>1 DEF Told
    <2>3. \A i, j \in DOMAIN p : p[i] = Left(t) /\ p[j] = Left(t) => i = j
      BY <1>1, <1>2, <1>4, <2>1
    <2>4. r[t] = 1 => ~Told(p, Joined(t))
      BY <1>1, <1>2, <1>3, <2>1
    <2>5. \A i \in DOMAIN p :
            p[i] = Left(t) => r[t] = 1 \/ \E j \in DOMAIN p : j < i /\ p[j] = Joined(t)
      BY <1>1, <1>2, <1>4, <2>1
    <2> QED
      BY <2>2, <2>3, <2>4, <2>5
  <1>6. \A t \in Sess : WillList(p, r, t) <=> WillList(q, r, t) \/ t = s
    BY <1>1, <1>2, <1>3 DEF WillList, m
  <1>7. \A t \in Sess : Mentions(p, r, t) <=> Mentions(q, r, t) \/ t = s
    BY <1>1, <1>2 DEF Mentions, m
  <1> QED
    BY <1>5, <1>6, <1>7 DEF m, p

(* A quit of a session that would have been listed. *)
LEMMA QuitTold ==
  ASSUME NEW q \in Seq(BaseMsg), NEW r \in [Sess -> {0, 1}], Consistent(q, r),
         NEW s \in Sess, WillList(q, r, s)
  PROVE  /\ Consistent(Append(q, Left(s)), r)
         /\ \A t \in Sess : WillList(Append(q, Left(s)), r, t) <=> WillList(q, r, t) /\ t # s
         /\ \A t \in Sess : Mentions(Append(q, Left(s)), r, t) <=> Mentions(q, r, t)
  <1> DEFINE m == Left(s)
             p == Append(q, m)
  <1>1. /\ Len(q) \in Nat /\ DOMAIN q = 1 .. Len(q)
        /\ DOMAIN p = 1 .. Len(q) + 1
        /\ \A i \in 1 .. Len(q) : p[i] = q[i]
        /\ p[Len(q) + 1] = m
        /\ \A x : Told(p, x) <=> Told(q, x) \/ x = m
    BY MessagesDiffer, ToldMore
  <1>2. \A t : Joined(t) # m /\ (Left(t) = m => t = s)
    BY MessagesDiffer
  <1>3. ~Told(q, m) /\ (r[s] = 1 \/ Told(q, Joined(s)))
    BY DEF WillList
  <1> HIDE DEF m, p
  <1>4. \A i \in DOMAIN p : i \in DOMAIN q \/ i = Len(q) + 1
    BY <1>1
  <1>5. Consistent(p, r)
    <2> SUFFICES ASSUME NEW t \in Sess
                 PROVE  /\ \A i, j \in DOMAIN p : p[i] = Joined(t) /\ p[j] = Joined(t) => i = j
                        /\ \A i, j \in DOMAIN p : p[i] = Left(t) /\ p[j] = Left(t) => i = j
                        /\ r[t] = 1 => ~Told(p, Joined(t))
                        /\ \A i \in DOMAIN p :
                             p[i] = Left(t) => r[t] = 1 \/ \E j \in DOMAIN p : j < i /\ p[j] = Joined(t)
      BY DEF Consistent
    <2>1. /\ \A i, j \in DOMAIN q : q[i] = Joined(t) /\ q[j] = Joined(t) => i = j
          /\ \A i, j \in DOMAIN q : q[i] = Left(t) /\ q[j] = Left(t) => i = j
          /\ r[t] = 1 => ~Told(q, Joined(t))
          /\ \A i \in DOMAIN q :
               q[i] = Left(t) => r[t] = 1 \/ \E j \in DOMAIN q : j < i /\ q[j] = Joined(t)
      BY DEF Consistent
    <2>2. \A i, j \in DOMAIN p : p[i] = Joined(t) /\ p[j] = Joined(t) => i = j
      BY <1>1, <1>2, <1>4, <2>1
    <2>3. \A i, j \in DOMAIN p : p[i] = Left(t) /\ p[j] = Left(t) => i = j
      BY <1>1, <1>2, <1>3, <1>4, <2>1 DEF Told
    <2>4. r[t] = 1 => ~Told(p, Joined(t))
      BY <1>1, <1>2, <2>1
    <2>5. ASSUME NEW i \in DOMAIN p, p[i] = Left(t), r[t] # 1
          PROVE  \E j \in DOMAIN p : j < i /\ p[j] = Joined(t)
      <3>1. CASE i \in DOMAIN q
        BY <1>1, <2>1, <2>5, <3>1
      <3>2. CASE i = Len(q) + 1
        <4>1. t = s
          BY <1>1, <1>2, <2>5, <3>2
        <4>2. PICK j \in DOMAIN q : q[j] = Joined(t)
          BY <1>3, <2>5, <4>1 DEF Told
        <4> QED
          BY <1>1, <3>2, <4>2
      <3> QED
        BY <1>4, <3>1, <3>2
    <2> QED
      BY <2>2, <2>3, <2>4, <2>5
  <1>6. \A t \in Sess : WillList(p, r, t) <=> WillList(q, r, t) /\ t # s
    BY <1>1, <1>2, <1>3 DEF WillList, m
  <1>7. \A t \in Sess : Mentions(p, r, t) <=> Mentions(q, r, t)
    BY <1>1, <1>2, <1>3 DEF Mentions, m
  <1> QED
    BY <1>5, <1>6, <1>7 DEF m, p

(* An answer, which is about no session. *)
LEMMA AnswerTold ==
  ASSUME NEW q \in Seq(BaseMsg), NEW r \in [Sess -> {0, 1}], Consistent(q, r),
         NEW m \in {Success, Failure}
  PROVE  /\ Consistent(Append(q, m), r)
         /\ \A t \in Sess : Mentions(Append(q, m), r, t) <=> Mentions(q, r, t)
  <1> DEFINE p == Append(q, m)
  <1>1. /\ Len(q) \in Nat /\ DOMAIN q = 1 .. Len(q)
        /\ DOMAIN p = 1 .. Len(q) + 1
        /\ \A i \in 1 .. Len(q) : p[i] = q[i]
        /\ p[Len(q) + 1] = m
        /\ \A x : Told(p, x) <=> Told(q, x) \/ x = m
    BY MessagesDiffer, ToldMore
  <1>2. \A t : Joined(t) # m /\ Left(t) # m
    BY MessagesDiffer
  <1> HIDE DEF p
  <1>4. \A i \in DOMAIN p : i \in DOMAIN q \/ i = Len(q) + 1
    BY <1>1
  <1>5. Consistent(p, r)
    <2> SUFFICES ASSUME NEW t \in Sess
                 PROVE  /\ \A i, j \in DOMAIN p : p[i] = Joined(t) /\ p[j] = Joined(t) => i = j
                        /\ \A i, j \in DOMAIN p : p[i] = Left(t) /\ p[j] = Left(t) => i = j
                        /\ r[t] = 1 => ~Told(p, Joined(t))
                        /\ \A i \in DOMAIN p :
                             p[i] = Left(t) => r[t] = 1 \/ \E j \in DOMAIN p : j < i /\ p[j] = Joined(t)
      BY DEF Consistent
    <2> QED
      BY <1>1, <1>2, <1>4 DEF Consistent
  <1>6. \A t \in Sess : Mentions(p, r, t) <=> Mentions(q, r, t)
    BY <1>1, <1>2 DEF Mentions
  <1> QED
    BY <1>5, <1>6 DEF p

(* The message at the head, and the others. *)
LEMMA ToldHead ==
  ASSUME NEW q \in Seq(BaseMsg), q # <<>>
  PROVE  /\ Len(q) \in Nat \ {0} /\ DOMAIN q = 1 .. Len(q)
         /\ Head(q) = q[1] /\ Head(q) \in BaseMsg
         /\ Tail(q) \in Seq(BaseMsg)
         /\ DOMAIN Tail(q) = 1 .. Len(q) - 1
         /\ \A k \in 1 .. Len(q) - 1 : Tail(q)[k] = q[k + 1]
         /\ \A x : Told(q, x) <=> x = Head(q) \/ Told(Tail(q), x)
  <1>1. Len(q) \in Nat \ {0} /\ DOMAIN q = 1 .. Len(q)
    BY LenProperties, EmptySeq
  <1>2. /\ Head(q) = q[1] /\ Head(q) \in BaseMsg
        /\ Tail(q) \in Seq(BaseMsg)
        /\ Len(Tail(q)) = Len(q) - 1
        /\ \A k \in 1 .. Len(q) - 1 : Tail(q)[k] = q[k + 1]
    BY HeadTailProperties
  <1>3. DOMAIN Tail(q) = 1 .. Len(q) - 1
    BY <1>2, LenProperties
  <1> DEFINE rest == Tail(q)
             first == Head(q)
  <1>4. \A x : Told(q, x) <=> x = first \/ Told(rest, x)
    <2> HIDE DEF rest, first
    <2>1. /\ first = q[1] /\ DOMAIN rest = 1 .. Len(q) - 1
          /\ \A k \in 1 .. Len(q) - 1 : rest[k] = q[k + 1]
      BY <1>2, <1>3 DEF rest, first
    <2> TAKE x
    <2>2. ASSUME NEW i \in DOMAIN q, q[i] = x PROVE x = first \/ Told(rest, x)
      <3>1. CASE i = 1
        BY <2>1, <2>2, <3>1
      <3>2. CASE i # 1
        <4>1. i - 1 \in 1 .. Len(q) - 1 /\ i = (i - 1) + 1
          BY <1>1, <3>2
        <4>2. rest[i - 1] = x
          BY <2>1, <2>2, <4>1
        <4> QED
          BY <2>1, <4>1, <4>2 DEF Told
      <3> QED
        BY <3>1, <3>2
    <2>3. ASSUME NEW k \in DOMAIN rest, rest[k] = x PROVE Told(q, x)
      <3>1. k + 1 \in DOMAIN q /\ q[k + 1] = x
        BY <1>1, <2>1, <2>3
      <3> QED
        BY <3>1 DEF Told
    <2>4. Told(q, first)
      BY <1>1, <2>1 DEF Told
    <2> QED
      BY <2>2, <2>3, <2>4 DEF Told
  <1> QED
    BY <1>1, <1>2, <1>3, <1>4

\* What the handler of a message makes of the list.
Heard(r, m) ==
  IF m.kind = "joined" THEN [r EXCEPT ![m.sess] = 1]
  ELSE IF m.kind = "left" THEN [r EXCEPT ![m.sess] = 0] ELSE r

(* Reading a message moves what it says to the list, and the sum stays the same. *)
LEMMA MessageHeard ==
  ASSUME NEW q \in Seq(BaseMsg), q # <<>>, NEW r \in [Sess -> {0, 1}], Consistent(q, r)
  PROVE  LET m == Head(q)
         IN /\ Heard(r, m) \in [Sess -> {0, 1}]
            /\ Consistent(Tail(q), Heard(r, m))
            /\ \A t \in Sess : WillList(Tail(q), Heard(r, m), t) <=> WillList(q, r, t)
            /\ \A t \in Sess : Mentions(Tail(q), Heard(r, m), t) => Mentions(q, r, t)
            /\ m.kind = "joined" => m.sess \in Sess /\ r[m.sess] = 0
            /\ m.kind = "left" => m.sess \in Sess /\ r[m.sess] = 1
  <1> DEFINE m == Head(q)
             p == Tail(q)
             h == Heard(r, m)
  <1>1. /\ Len(q) \in Nat \ {0} /\ DOMAIN q = 1 .. Len(q)
        /\ m = q[1] /\ m \in BaseMsg
        /\ DOMAIN p = 1 .. Len(q) - 1
        /\ \A k \in 1 .. Len(q) - 1 : p[k] = q[k + 1]
        /\ \A x : Told(q, x) <=> x = m \/ Told(p, x)
    BY ToldHead
  <1>2. \/ /\ m \in {Success, Failure} /\ h = r
           /\ m.kind # "joined" /\ m.kind # "left"
        \/ \E s \in Sess : /\ m = Joined(s) /\ h = [r EXCEPT ![s] = 1]
                            /\ m.kind = "joined" /\ m.sess = s
        \/ \E s \in Sess : /\ m = Left(s) /\ h = [r EXCEPT ![s] = 0]
                            /\ m.kind = "left" /\ m.sess = s
    <2>1. CASE m \in {Success, Failure}
      <3>1. m.kind # "joined" /\ m.kind # "left"
        BY <2>1 DEF Success, Failure
      <3> QED
        BY <2>1, <3>1 DEF Heard
    <2>2. ASSUME NEW s \in Sess, m = Joined(s)
          PROVE  m.kind = "joined" /\ m.sess = s /\ h = [r EXCEPT ![s] = 1]
      <3>1. m.kind = "joined" /\ m.sess = s
        BY <2>2 DEF Joined
      <3> QED
        BY <3>1 DEF Heard
    <2>3. ASSUME NEW s \in Sess, m = Left(s)
          PROVE  m.kind = "left" /\ m.sess = s /\ h = [r EXCEPT ![s] = 0]
      <3>1. m.kind = "left" /\ m.sess = s
        BY <2>3 DEF Left
      <3> QED
        BY <3>1 DEF Heard
    <2> QED
      BY <1>1, <2>1, <2>2, <2>3 DEF BaseMsg
  <1> HIDE DEF m, p, h
  <1>3. \A t \in Sess :
          /\ \A i, j \in DOMAIN q : q[i] = Joined(t) /\ q[j] = Joined(t) => i = j
          /\ \A i, j \in DOMAIN q : q[i] = Left(t) /\ q[j] = Left(t) => i = j
          /\ r[t] = 1 => ~Told(q, Joined(t))
          /\ \A i \in DOMAIN q :
               q[i] = Left(t) => r[t] = 1 \/ \E j \in DOMAIN q : j < i /\ q[j] = Joined(t)
    BY DEF Consistent
  \* What was said once is not said again behind it.
  <1>4. \A t \in Sess : (m = Joined(t) => ~Told(p, Joined(t))) /\ (m = Left(t) => ~Told(p, Left(t)))
    <2>1. \A k \in DOMAIN p : 1 \in DOMAIN q /\ k + 1 \in DOMAIN q /\ k + 1 # 1 /\ q[k + 1] = p[k]
      BY <1>1
    <2>2. ASSUME NEW t \in Sess, NEW k \in DOMAIN p, m = Joined(t), p[k] = Joined(t) PROVE FALSE
      <3>1. q[1] = Joined(t) /\ q[k + 1] = Joined(t)
        BY <1>1, <2>1, <2>2
      <3>2. 1 = k + 1
        BY <1>3, <2>1, <3>1, Zenon
      <3> QED
        BY <2>1, <3>2
    <2>3. ASSUME NEW t \in Sess, NEW k \in DOMAIN p, m = Left(t), p[k] = Left(t) PROVE FALSE
      <3>1. q[1] = Left(t) /\ q[k + 1] = Left(t)
        BY <1>1, <2>1, <2>3
      <3>2. 1 = k + 1
        BY <1>3, <2>1, <3>1, Zenon
      <3> QED
        BY <2>1, <3>2
    <2> QED
      BY <2>2, <2>3 DEF Told
  \* A quit at the head is of a session that is listed.
  <1>5. \A t \in Sess : m = Left(t) => r[t] = 1
    <2> SUFFICES ASSUME NEW t \in Sess, m = Left(t), r[t] # 1 PROVE FALSE
      OBVIOUS
    <2>1. 1 \in DOMAIN q /\ q[1] = Left(t)
      BY <1>1
    <2>2. PICK j \in DOMAIN q : j < 1 /\ q[j] = Joined(t)
      BY <1>3, <2>1
    <2> QED
      BY <1>1, <2>2
  <1>6. \A t \in Sess : m = Joined(t) => r[t] = 0
    BY <1>1, <1>3
  \* What holds of the rest of the channel whatever the head.
  <1>7. ASSUME NEW t \in Sess
        PROVE  /\ \A i, j \in DOMAIN p : p[i] = Joined(t) /\ p[j] = Joined(t) => i = j
               /\ \A i, j \in DOMAIN p : p[i] = Left(t) /\ p[j] = Left(t) => i = j
               /\ \A i \in DOMAIN p : p[i] = Left(t) =>
                    r[t] = 1 \/ m = Joined(t) \/ \E j \in DOMAIN p : j < i /\ p[j] = Joined(t)
    <2>1. \A k \in DOMAIN p : k + 1 \in DOMAIN q /\ q[k + 1] = p[k]
      BY <1>1
    <2>2. \A i, j \in DOMAIN p : p[i] = Joined(t) /\ p[j] = Joined(t) => i = j
      <3> SUFFICES ASSUME NEW i \in DOMAIN p, NEW j \in DOMAIN p, p[i] = Joined(t), p[j] = Joined(t)
                   PROVE  i = j
        OBVIOUS
      <3>1. i + 1 = j + 1
        BY <1>3, <2>1
      <3> QED
        BY <1>1, <3>1
    <2>4. \A i, j \in DOMAIN p : p[i] = Left(t) /\ p[j] = Left(t) => i = j
      <3> SUFFICES ASSUME NEW i \in DOMAIN p, NEW j \in DOMAIN p, p[i] = Left(t), p[j] = Left(t)
                   PROVE  i = j
        OBVIOUS
      <3>1. i + 1 = j + 1
        BY <1>3, <2>1
      <3> QED
        BY <1>1, <3>1
    <2>3. ASSUME NEW i \in DOMAIN p, p[i] = Left(t), r[t] # 1, m # Joined(t)
          PROVE  \E j \in DOMAIN p : j < i /\ p[j] = Joined(t)
      <3>1. PICK j \in DOMAIN q : j < i + 1 /\ q[j] = Joined(t)
        BY <1>3, <2>1, <2>3
      <3>2. j # 1
        BY <1>1, <2>3, <3>1
      <3>3. j - 1 \in DOMAIN p /\ j - 1 < i /\ (j - 1) + 1 = j
        BY <1>1, <3>1, <3>2
      <3> QED
        BY <1>1, <3>1, <3>3
    <2> QED
      BY <2>2, <2>3, <2>4
  <1>8. CASE m \in {Success, Failure} /\ h = r /\ m.kind # "joined" /\ m.kind # "left"
    <2>1. \A t : Joined(t) # m /\ Left(t) # m
      BY <1>8, MessagesDiffer
    <2>2. Consistent(p, r)
      BY <1>1, <1>3, <1>7, <2>1 DEF Consistent
    <2> QED
      BY <1>1, <1>8, <2>1, <2>2 DEF WillList, Mentions, m, p, h
  <1>9. ASSUME NEW s \in Sess, m = Joined(s), h = [r EXCEPT ![s] = 1],
               m.kind = "joined", m.sess = s
        PROVE  /\ h \in [Sess -> {0, 1}] /\ Consistent(p, h) /\ r[s] = 0
               /\ \A t \in Sess : WillList(p, h, t) <=> WillList(q, r, t)
               /\ \A t \in Sess : Mentions(p, h, t) => Mentions(q, r, t)
    <2>1. /\ \A t : Left(t) # m /\ (Joined(t) = m => t = s)
          /\ ~Told(p, Joined(s)) /\ Told(q, Joined(s)) /\ r[s] = 0
      BY <1>1, <1>4, <1>6, <1>9, MessagesDiffer
    <2>2. h \in [Sess -> {0, 1}] /\ \A t \in Sess : h[t] = IF t = s THEN 1 ELSE r[t]
      BY <1>9
    <2>3. \A t \in Sess : h[t] = 1 => ~Told(p, Joined(t))
      BY <1>1, <1>3, <2>1, <2>2
    <2>4. Consistent(p, h)
      BY <1>7, <1>9, <2>1, <2>2, <2>3 DEF Consistent
    <2>5. \A t \in Sess : WillList(p, h, t) <=> WillList(q, r, t)
      BY <1>1, <1>9, <2>1, <2>2 DEF WillList
    <2>6. \A t \in Sess : Mentions(p, h, t) => Mentions(q, r, t)
      BY <1>1, <1>9, <2>1, <2>2 DEF Mentions
    <2> QED
      BY <2>1, <2>2, <2>4, <2>5, <2>6
  <1>10. ASSUME NEW s \in Sess, m = Left(s), h = [r EXCEPT ![s] = 0],
                m.kind = "left", m.sess = s
         PROVE  /\ h \in [Sess -> {0, 1}] /\ Consistent(p, h) /\ r[s] = 1
                /\ \A t \in Sess : WillList(p, h, t) <=> WillList(q, r, t)
                /\ \A t \in Sess : Mentions(p, h, t) => Mentions(q, r, t)
    <2>1. /\ \A t : Joined(t) # m /\ (Left(t) = m => t = s)
          /\ ~Told(p, Left(s)) /\ Told(q, Left(s)) /\ r[s] = 1 /\ ~Told(q, Joined(s))
      BY <1>1, <1>3, <1>4, <1>5, <1>10, MessagesDiffer
    <2>2. h \in [Sess -> {0, 1}] /\ \A t \in Sess : h[t] = IF t = s THEN 0 ELSE r[t]
      BY <1>10
    <2>3. \A t \in Sess : h[t] = 1 => ~Told(p, Joined(t))
      BY <1>1, <1>3, <2>1, <2>2
    <2>4. ASSUME NEW t \in Sess, NEW i \in DOMAIN p, p[i] = Left(t)
          PROVE  h[t] = 1 \/ \E j \in DOMAIN p : j < i /\ p[j] = Joined(t)
      <3>1. t # s
        BY <2>1, <2>4 DEF Told
      <3> QED
        BY <1>7, <2>1, <2>2, <2>4, <3>1
    <2>5. Consistent(p, h)
      BY <1>7, <2>3, <2>4 DEF Consistent
    <2>6. \A t \in Sess : WillList(p, h, t) <=> WillList(q, r, t)
      BY <1>1, <1>10, <2>1, <2>2 DEF WillList
    <2>7. \A t \in Sess : Mentions(p, h, t) => Mentions(q, r, t)
      BY <1>1, <1>10, <2>1, <2>2 DEF Mentions
    <2> QED
      BY <2>1, <2>2, <2>5, <2>6, <2>7
  <1> QED
    BY <1>2, <1>8, <1>9, <1>10 DEF m, p, h

----------------------------------------------------------------------------
(* Sessions are drawn once per connection. *)

LEMMA ConnsCounted == Cardinality(Conns) \in Nat /\ Sess = 1 .. Cardinality(Conns)
  BY SessionsAssumption, FS_CardinalityType DEF Sess

(* A client never goes back to the start, and behind its request come only quits. *)
LEMMA RequestsMoveOn ==
  ASSUME SessionsInv, [Next]_vars, NEW d \in Conns
  PROVE  /\ client'[d] = "off" => client[d] = "off"
         /\ \/ inbox'[d] = inbox[d]
            \/ inbox'[d] = <<>>
            \/ inbox[d] # <<>> /\ inbox'[d] = Tail(inbox[d])
            \/ inbox'[d] = Append(inbox[d], Quit)
            \/ client[d] = "off"
  <1> DEFINE P == /\ client'[d] = "off" => client[d] = "off"
                  /\ \/ inbox'[d] = inbox[d]
                     \/ inbox'[d] = <<>>
                     \/ inbox[d] # <<>> /\ inbox'[d] = Tail(inbox[d])
                     \/ inbox'[d] = Append(inbox[d], Quit)
                     \/ client[d] = "off"
  <1>0. /\ client \in [Conns -> {"off", "joining", "playing", "refused", "gone"}]
        /\ inbox \in [Conns -> Seq(ToServer)]
    BY DEF SessionsInv, ServerTypes
  <1>1. ASSUME UNCHANGED <<client, inbox>> PROVE P
    BY <1>1
  <1>2. ASSUME NEW c \in Conns, UNCHANGED client, inbox[c] # <<>>, TakeInbox(c) PROVE P
    BY <1>0, <1>2 DEF TakeInbox
  <1>3. ASSUME NEW c \in Conns, UNCHANGED client, inbox' = [inbox EXCEPT ![c] = <<>>] PROVE P
    BY <1>0, <1>3
  <1>4. ASSUME NEW c \in Conns, NEW n \in Names, SendJoin(c, n) PROVE P
    BY <1>0, <1>4 DEF SendJoin
  <1>5. ASSUME NEW c \in Conns, NEW how \in {"playing", "refused", "gone"},
               client' = [client EXCEPT ![c] = how],
               inbox' = inbox \/ inbox' = [inbox EXCEPT ![c] = Append(inbox[c], Quit)]
        PROVE  P
    BY <1>0, <1>5
  <1>6. ASSUME NEW c \in Conns PROVE (\E s \in Slots : RecvConnect(c, s)) => P
    BY <1>1 DEF RecvConnect, clientVars
  <1>7. RecvNothing \/ (\E s \in Sess : Respawn(s)) \/ UNCHANGED vars => P
    BY <1>1 DEF RecvNothing, Respawn, vars, clientVars
  <1>8. ASSUME NEW c \in Conns
        PROVE  (\E n \in Names : HandlePlayerJoin(c, n)) \/ HandlePlayerQuit(c) => P
    BY <1>2 DEF HandlePlayerJoin, HandlePlayerQuit, clientVars
  <1>9. ASSUME NEW c \in Conns PROVE HandlePlayerDeath(c) => P
    BY <1>1 DEF HandlePlayerDeath, clientVars
  <1>10. ASSUME NEW c \in Conns PROVE RecvDisconnect(c) \/ HandleDisconnect(c) => P
    BY <1>1, <1>3 DEF RecvDisconnect, HandleDisconnect, clientVars
  <1>11. ASSUME NEW c \in Conns PROVE JoinSucceeds(c) \/ JoinFails(c) \/ ClientVanishes(c) => P
    BY <1>5 DEF JoinSucceeds, JoinFails, ClientVanishes, StopReading
  <1>12. ASSUME NEW c \in Conns PROVE HandleBase(c) \/ HandleLife(c) \/ SendDie(c) => P
    BY <1>1 DEF HandleBase, HandleLife, SendDie, clientVars
  <1>13. ASSUME NEW c \in Conns PROVE ClientQuit(c) => P
    BY <1>5 DEF ClientQuit, StopReading
  <1> HIDE DEF P
  <1> QED
    <2>1. P
      BY <1>4, <1>6, <1>7, <1>8, <1>9, <1>10, <1>11, <1>12, <1>13, SessionSteps
    <2> QED
      BY <2>1 DEF P

(* So who has no request to make any more never has one again. *)
LEMMA SpentGrows ==
  ASSUME SessionsInv, [Next]_vars
  PROVE  \A d \in Conns : Unjoined(d)' => Unjoined(d)
  <1> SUFFICES ASSUME NEW d \in Conns, ~Unjoined(d) PROVE ~Unjoined(d)'
    OBVIOUS
  <1>1. client[d] # "off" /\ (inbox[d] = <<>> \/ Head(inbox[d]) = Quit)
    BY DEF Unjoined
  <1>2. client'[d] # "off"
    BY <1>1, RequestsMoveOn
  <1>3. inbox'[d] = <<>> \/ Head(inbox'[d]) = Quit
    <2>1. CASE inbox'[d] = inbox[d] \/ inbox'[d] = <<>>
      BY <1>1, <2>1
    <2>2. CASE inbox[d] # <<>> /\ inbox'[d] = Tail(inbox[d])
      BY <2>2, RestIsQuit
    <2>3. CASE inbox'[d] = Append(inbox[d], Quit)
      <3>1. inbox[d] \in Seq(ToServer)
        BY DEF SessionsInv, ServerTypes
      <3> QED
        BY <1>1, <2>3, <3>1, HeadTailAppend
    <2> QED
      BY <1>1, <2>1, <2>2, <2>3, RequestsMoveOn
  <1> QED
    BY <1>2, <1>3 DEF Unjoined

(* A session is drawn on a join only. *)
LEMMA SessionsDrawnOnJoin ==
  ASSUME [Next]_vars
  PROVE  \/ lastSess' = lastSess
         \/ \E c \in Conns : \E n \in Names :
              HandlePlayerJoin(c, n) /\ HandlePlayerJoin_Accept(c, n)
  <1> DEFINE P == \/ lastSess' = lastSess
                  \/ \E c \in Conns : \E n \in Names :
                       HandlePlayerJoin(c, n) /\ HandlePlayerJoin_Accept(c, n)
  <1>1. ASSUME NEW c \in Conns, NEW n \in Names, HandlePlayerJoin(c, n) PROVE P
    <2>1. HandlePlayerJoin_Taken(c, n) \/ HandlePlayerJoin_Accept(c, n)
      BY <1>1 DEF HandlePlayerJoin
    <2> QED
      BY <1>1, <2>1 DEF HandlePlayerJoin_Taken
  <1>2. ASSUME NEW c \in Conns, NEW s \in Slots, RecvConnect(c, s) PROVE P
    BY <1>2 DEF RecvConnect
  <1>3. RecvNothing \/ (\E s \in Sess : Respawn(s)) \/ UNCHANGED vars => P
    BY DEF RecvNothing, Respawn, vars, serverVars
  <1>4. ASSUME NEW c \in Conns
        PROVE  HandlePlayerQuit(c) \/ HandlePlayerDeath(c) \/ RecvDisconnect(c)
                 \/ HandleDisconnect(c) => P
    BY DEF HandlePlayerQuit, HandlePlayerDeath, RecvDisconnect, HandleDisconnect
  <1>5. ASSUME NEW c \in Conns
        PROVE  (\E n \in Names : SendJoin(c, n)) \/ JoinSucceeds(c) \/ JoinFails(c)
                 \/ HandleBase(c) \/ HandleLife(c) \/ SendDie(c) \/ ClientQuit(c)
                 \/ ClientVanishes(c) => P
    BY DEF SendJoin, JoinSucceeds, JoinFails, HandleBase, HandleLife, SendDie, ClientQuit,
           ClientVanishes, serverVars
  <1> HIDE DEF P
  <1> QED
    <2>1. P
      BY <1>1, <1>2, <1>3, <1>4, <1>5, SessionSteps
    <2> QED
      BY <2>1 DEF P

(* The request that is answered was still to be counted. *)
LEMMA JoinSpends ==
  ASSUME SessionsInv, NEW c \in Conns, NEW n \in Names, HandlePlayerJoin(c, n)
  PROVE  Unjoined(c) /\ ~Unjoined(c)' /\ ~Playing(c) /\ UNCHANGED client
  <1>1. /\ inbox[c] # <<>> /\ Head(inbox[c]) = Join(n)
        /\ inbox' = [inbox EXCEPT ![c] = Tail(inbox[c])]
        /\ client' = client
    BY DEF HandlePlayerJoin, TakeInbox, clientVars
  <1>2. Join(n) # Quit
    BY DEF Join, Quit
  <1>3. client[c] # "off" /\ ~Playing(c)
    BY <1>1, <1>2 DEF SessionsInv, JoinsOnce
  <1>4. inbox'[c] = Tail(inbox[c])
    BY <1>1 DEF SessionsInv, ServerTypes
  <1>5. inbox'[c] = <<>> \/ Head(inbox'[c]) = Quit
    BY <1>1, <1>4, RestIsQuit
  <1> QED
    BY <1>1, <1>2, <1>3, <1>5 DEF Unjoined

LEMMA JoinsCountedStep ==
  ASSUME SessionsInv, JoinsCounted, [Next]_vars
  PROVE  JoinsCounted'
  <1>1. Spent \subseteq Spent'
    BY SpentGrows DEF Spent
  <1>2. IsFiniteSet(Spent) /\ IsFiniteSet(Spent')
    <2>1. Spent \subseteq Conns /\ Spent' \subseteq Conns
      BY DEF Spent
    <2> QED
      BY <2>1, SessionsAssumption, FS_Subset
  <1>3. Cardinality(Spent) \in Nat /\ Cardinality(Spent') \in Nat /\ lastSess \in Nat
    BY <1>2, FS_CardinalityType DEF SessionsInv, ServerTypes
  <1>4. CASE lastSess' = lastSess
    <2>1. Cardinality(Spent) <= Cardinality(Spent')
      BY <1>1, <1>2, FS_Subset
    <2> QED
      BY <1>3, <1>4, <2>1 DEF JoinsCounted
  <1>5. ASSUME NEW c \in Conns, NEW n \in Names,
               HandlePlayerJoin(c, n), HandlePlayerJoin_Accept(c, n)
        PROVE  JoinsCounted'
    <2>1. c \notin Spent /\ c \in Spent'
      BY <1>5, JoinSpends DEF Spent
    <2>2. Cardinality(Spent \cup {c}) = Cardinality(Spent) + 1
      BY <1>2, <2>1, FS_AddElement
    <2>3. Cardinality(Spent \cup {c}) <= Cardinality(Spent')
      <3>1. Spent \cup {c} \subseteq Spent'
        BY <1>1, <2>1
      <3> QED
        BY <1>2, <3>1, FS_Subset
    <2>4. lastSess' = lastSess + 1
      BY <1>5 DEF HandlePlayerJoin_Accept
    <2> QED
      BY <1>3, <2>2, <2>3, <2>4 DEF JoinsCounted
  <1> QED
    BY <1>4, <1>5, SessionsDrawnOnJoin

(* So no more sessions are drawn than there are connections, and one more when one is. *)
LEMMA SessionsBounded ==
  ASSUME SessionsInv, JoinsCounted
  PROVE  /\ lastSess \in 0 .. Cardinality(Conns)
         /\ \A i \in DOMAIN players : players[i].sessId \in Sess
         /\ \A c \in Conns : Unjoined(c) => lastSess + 1 \in Sess
  <1>1. Spent \subseteq Conns /\ IsFiniteSet(Conns)
    BY SessionsAssumption DEF Spent
  <1>2. IsFiniteSet(Spent) /\ Cardinality(Spent) <= Cardinality(Conns)
    BY <1>1, FS_Subset
  <1>3. Cardinality(Spent) \in Nat /\ Cardinality(Conns) \in Nat /\ lastSess \in Nat
    BY <1>1, <1>2, FS_CardinalityType DEF SessionsInv, ServerTypes
  <1>4. lastSess \in 0 .. Cardinality(Conns)
    BY <1>2, <1>3 DEF JoinsCounted
  <1>5. ASSUME NEW i \in DOMAIN players PROVE players[i].sessId \in Sess
    <2>1. players[i].sessId \in 1 .. lastSess
      BY DEF SessionsInv, SessionsDrawn
    <2> QED
      BY <1>3, <1>4, <2>1 DEF Sess
  <1>6. ASSUME NEW c \in Conns, Unjoined(c) PROVE lastSess + 1 \in Sess
    <2>1. c \notin Spent
      BY <1>6 DEF Spent
    <2>2. Cardinality(Spent) # Cardinality(Conns)
      BY <1>1, <2>1, FS_Subset
    <2> QED
      BY <1>2, <1>3, <2>2 DEF JoinsCounted, Sess
  <1> QED
    BY <1>4, <1>5, <1>6

----------------------------------------------------------------------------
(* What each kind of step does to the channels and the lists. *)

LEMMA NobodyListed == Nobody \in [Sess -> {0, 1}] /\ \A s \in Sess : Nobody[s] # 1
  BY DEF Nobody

(* An empty channel and an empty list say nothing. *)
LEMMA NothingTold ==
  /\ <<>> \in Seq(BaseMsg)
  /\ Consistent(<<>>, Nobody)
  /\ \A s \in Sess : ~Mentions(<<>>, Nobody, s)
  <1>1. <<>> \in Seq(BaseMsg) /\ DOMAIN <<>> = {}
    BY EmptySeq
  <1> QED
    BY <1>1, NobodyListed DEF Consistent, Mentions, Told

(* What a newcomer is sent: that it joined, then a join for each player there was. *)
LEMMA NewcomerTold ==
  ASSUME SessionsInv, JoinsCounted
  PROVE  LET q == (<<>> \o <<Success>>) \o AlreadyPlaying
         IN /\ q \in Seq(BaseMsg)
            /\ Consistent(q, Nobody)
            /\ \A s \in Sess : WillList(q, Nobody, s) <=> \E i \in DOMAIN players : players[i].sessId = s
            /\ \A s \in Sess : Mentions(q, Nobody, s) => s <= lastSess
  <1> DEFINE q == (<<>> \o <<Success>>) \o AlreadyPlaying
             n == Len(players)
  <1>1. n \in Nat /\ DOMAIN players = 1 .. n
    BY PlayersDomain DEF SessionsInv
  <1>2. \A i \in 1 .. n : players[i].sessId \in Sess /\ Joined(players[i].sessId) \in BaseMsg
    BY <1>1, SessionsBounded, MessagesDiffer
  <1>3. /\ AlreadyPlaying \in Seq(BaseMsg) /\ Len(AlreadyPlaying) = n
        /\ \A i \in 1 .. n : AlreadyPlaying[i] = Joined(players[i].sessId)
    <2>1. AlreadyPlaying \in [1 .. n -> BaseMsg]
      BY <1>1, <1>2 DEF AlreadyPlaying
    <2>2. AlreadyPlaying \in Seq(BaseMsg)
      BY <1>1, <2>1, SeqDef
    <2>3. Len(AlreadyPlaying) \in Nat /\ 1 .. Len(AlreadyPlaying) = 1 .. n
      BY <2>1, <2>2, LenProperties
    <2>4. Len(AlreadyPlaying) = n
      BY <1>1, <2>3
    <2> QED
      BY <1>1, <2>2, <2>4 DEF AlreadyPlaying
  <1>4. <<Success>> \in Seq(BaseMsg) /\ Len(<<Success>>) = 1 /\ <<Success>>[1] = Success
        /\ <<>> \o <<Success>> = <<Success>>
    BY MessagesDiffer, ConcatEmptySeq
  <1>5. /\ q \in Seq(BaseMsg) /\ Len(q) = 1 + n
        /\ \A k \in 1 .. 1 + n : q[k] = IF k <= 1 THEN Success ELSE AlreadyPlaying[k - 1]
    <2>1. /\ <<Success>> \o AlreadyPlaying \in Seq(BaseMsg)
          /\ Len(<<Success>> \o AlreadyPlaying) = 1 + n
          /\ \A k \in 1 .. 1 + n : (<<Success>> \o AlreadyPlaying)[k] =
               IF k <= 1 THEN <<Success>>[k] ELSE AlreadyPlaying[k - 1]
      BY <1>3, <1>4, ConcatProperties
    <2> QED
      BY <1>1, <1>4, <2>1
  <1>6. DOMAIN q = 1 .. 1 + n
    BY <1>5, LenProperties
  <1> HIDE DEF q, n
  <1>7. \A k \in 1 .. 1 + n :
          (k = 1 /\ q[k] = Success) \/ (k - 1 \in 1 .. n /\ q[k] = Joined(players[k - 1].sessId))
    <2> TAKE k \in 1 .. 1 + n
    <2>1. CASE k = 1
      BY <1>1, <1>5, <2>1
    <2>2. CASE k # 1
      <3>1. k - 1 \in 1 .. n /\ ~(k <= 1)
        BY <1>1, <2>2
      <3>2. q[k] = AlreadyPlaying[k - 1]
        BY <1>5, <3>1
      <3> QED
        BY <1>3, <3>1, <3>2
    <2> QED
      BY <2>1, <2>2
  <1>8. \A s, t : Left(s) # Success /\ Joined(s) # Success /\ Left(s) # Joined(t)
                /\ (Joined(s) = Joined(t) => s = t)
    BY MessagesDiffer
  <1>9. \A s : ~Told(q, Left(s))
    BY <1>6, <1>7, <1>8 DEF Told
  <1>10. \A s : Told(q, Joined(s)) <=> \E i \in DOMAIN players : players[i].sessId = s
    <2> TAKE s
    <2>1. ASSUME NEW k \in DOMAIN q, q[k] = Joined(s)
          PROVE  \E i \in DOMAIN players : players[i].sessId = s
      <3>1. k - 1 \in DOMAIN players /\ players[k - 1].sessId = s
        BY <1>1, <1>6, <1>7, <1>8, <2>1
      <3> QED
        BY <3>1
    <2>2. ASSUME NEW i \in DOMAIN players, players[i].sessId = s PROVE Told(q, Joined(s))
      <3>1. i + 1 \in DOMAIN q /\ i + 1 # 1 /\ (i + 1) - 1 = i
        BY <1>1, <1>6
      <3>2. q[i + 1] = Joined(s)
        BY <1>6, <1>7, <2>2, <3>1
      <3> QED
        BY <3>1, <3>2 DEF Told
    <2> QED
      BY <2>1, <2>2 DEF Told
  <1>11. Consistent(q, Nobody)
    <2>1. ASSUME NEW s \in Sess, NEW j \in DOMAIN q, NEW k \in DOMAIN q,
                 q[j] = Joined(s), q[k] = Joined(s)
          PROVE  j = k
      <3>1. /\ j - 1 \in DOMAIN players /\ players[j - 1].sessId = s
            /\ k - 1 \in DOMAIN players /\ players[k - 1].sessId = s
        BY <1>1, <1>6, <1>7, <1>8, <2>1
      <3>2. j - 1 = k - 1
        BY <3>1 DEF SessionsInv, KeysDistinct
      <3> QED
        BY <1>1, <1>6, <3>2
    <2>2. \A s \in Sess, k \in DOMAIN q : q[k] # Left(s)
      BY <1>9 DEF Told
    <2> QED
      BY <2>1, <2>2, NobodyListed DEF Consistent
  <1>12. \A s \in Sess : WillList(q, Nobody, s) <=> \E i \in DOMAIN players : players[i].sessId = s
    BY <1>9, <1>10, NobodyListed DEF WillList
  <1>13. \A s \in Sess : Mentions(q, Nobody, s) => s <= lastSess
    <2> SUFFICES ASSUME NEW s \in Sess, Mentions(q, Nobody, s) PROVE s <= lastSess
      OBVIOUS
    <2>1. PICK i \in DOMAIN players : players[i].sessId = s
      BY <1>9, <1>10, NobodyListed DEF Mentions
    <2>2. players[i].sessId \in 1 .. lastSess
      BY DEF SessionsInv, SessionsDrawn
    <2> QED
      BY <2>1, <2>2 DEF SessionsInv, ServerTypes
  <1> QED
    BY <1>5, <1>11, <1>12, <1>13 DEF q

(* A step that leaves lists and channels alone. *)
LEMMA ListsUnchanged ==
  ASSUME SessionsInv, RosterInv, [Next]_vars, UNCHANGED <<base, roster, players, lastSess>>,
         \A d \in Conns : Reads(d) => Reads(d)' \/ (base[d] = <<>> /\ roster[d] = Nobody),
         \A d \in Conns : Reads(d)' /\ ~Reads(d) => Unjoined(d)
  PROVE  RosterInv'
  <1>1. RosterTypes' /\ SessionsKnown' /\ ListsConsistent'
    BY DEF RosterInv, RosterTypes, SessionsKnown, ListsConsistent
  <1>2. QuietUntilAnswered'
    BY SpentGrows DEF RosterInv, QuietUntilAnswered
  <1>3. ListsOthers'
    <2> SUFFICES ASSUME NEW d \in Conns, Playing(d)', Reads(d)'
                 PROVE  \A s \in Sess : WillList(base[d], roster[d], s) <=> OnServer(s, d)
      BY DEF ListsOthers, OnServer
    <2>1. Playing(d)
      BY DEF Playing
    <2>2. Reads(d)
      <3>1. ~Unjoined(d)
        BY <2>1, RequestsMoveOn DEF Unjoined, SessionsInv, JoinsOnce
      <3> QED
        BY <3>1
    <2> QED
      BY <2>1, <2>2 DEF RosterInv, ListsOthers
  <1> QED
    BY <1>1, <1>2, <1>3 DEF RosterInv

(* A client that stops reading has heard of nobody. *)
LEMMA StopKeeps ==
  ASSUME SessionsInv, RosterInv, [Next]_vars,
         NEW c \in Conns, NEW how \in {"refused", "gone"}, StopReading(c, how),
         UNCHANGED <<players, lastSess>>
  PROVE  RosterInv'
  <1>1. /\ client' = [client EXCEPT ![c] = how]
        /\ base' = [base EXCEPT ![c] = <<>>]
        /\ roster' = [roster EXCEPT ![c] = Nobody]
        /\ UNCHANGED <<players, lastSess>>
    BY DEF StopReading, Nobody
  <1>2. /\ \A d \in Conns : d # c => base'[d] = base[d] /\ roster'[d] = roster[d]
                               /\ (Reads(d)' <=> Reads(d))
        /\ base'[c] = <<>> /\ roster'[c] = Nobody /\ ~Reads(c)'
    BY <1>1 DEF RosterInv, RosterTypes, SessionsInv, ServerTypes, Reads
  <1>3. RosterTypes'
    BY <1>1, NothingTold, NobodyListed DEF RosterInv, RosterTypes
  <1>4. QuietUntilAnswered'
    BY <1>2, SpentGrows DEF RosterInv, QuietUntilAnswered
  <1>5. SessionsKnown'
    BY <1>1, <1>2, NothingTold DEF RosterInv, SessionsKnown
  <1>6. ListsConsistent'
    BY <1>2, NothingTold DEF RosterInv, ListsConsistent
  <1>7. ListsOthers'
    BY <1>1, <1>2 DEF RosterInv, ListsOthers, OnServer, Playing
  <1> QED
    BY <1>3, <1>4, <1>5, <1>6, <1>7 DEF RosterInv

(* A client that reads a message: Success when it is joining, any when it plays. *)
LEMMA ReadKeeps ==
  ASSUME SessionsInv, RosterInv, [Next]_vars, NEW c \in Conns,
         Reads(c), base[c] # <<>>,
         base' = [base EXCEPT ![c] = Tail(@)],
         roster' = [roster EXCEPT ![c] = Heard(roster[c], Head(base[c]))],
         UNCHANGED <<players, lastSess>>,
         \A d \in Conns : Reads(d)' <=> Reads(d)
  PROVE  RosterInv'
  <1>1. base[c] \in Seq(BaseMsg) /\ roster[c] \in [Sess -> {0, 1}] /\ Consistent(base[c], roster[c])
    BY DEF RosterInv, RosterTypes, ListsConsistent
  <1> DEFINE h == Heard(roster[c], Head(base[c]))
  <1>2. /\ h \in [Sess -> {0, 1}]
        /\ Consistent(Tail(base[c]), h)
        /\ \A t \in Sess : WillList(Tail(base[c]), h, t) <=> WillList(base[c], roster[c], t)
        /\ \A t \in Sess : Mentions(Tail(base[c]), h, t) => Mentions(base[c], roster[c], t)
    BY <1>1, MessageHeard
  <1>3. Tail(base[c]) \in Seq(BaseMsg)
    BY <1>1, ToldHead
  <1> HIDE DEF h
  <1>4. /\ \A d \in Conns : d # c => base'[d] = base[d] /\ roster'[d] = roster[d]
        /\ base'[c] = Tail(base[c]) /\ roster'[c] = h
    BY DEF RosterInv, RosterTypes, h
  <1>5. RosterTypes'
    BY <1>2, <1>3 DEF RosterInv, RosterTypes, h
  <1>6. ~Unjoined(c)
    BY DEF RosterInv, QuietUntilAnswered
  <1>7. QuietUntilAnswered'
    BY <1>4, <1>6, SpentGrows DEF RosterInv, QuietUntilAnswered
  <1>8. SessionsKnown'
    BY <1>2, <1>4 DEF RosterInv, SessionsKnown
  <1>9. ListsConsistent'
    BY <1>2, <1>4 DEF RosterInv, ListsConsistent
  <1>10. ListsOthers'
    <2> SUFFICES ASSUME NEW d \in Conns, Playing(d)', Reads(d)', NEW s \in Sess
                 PROVE  WillList(base'[d], roster'[d], s) <=> OnServer(s, d)
      BY DEF ListsOthers, OnServer
    <2>1. Playing(d) /\ Reads(d)
      BY DEF Playing
    <2>2. WillList(base[d], roster[d], s) <=> OnServer(s, d)
      BY <2>1 DEF RosterInv, ListsOthers
    <2> QED
      BY <1>2, <1>4, <2>2
  <1> QED
    BY <1>5, <1>7, <1>8, <1>9, <1>10 DEF RosterInv

(* The players that the message about one of them goes to. *)
LEMMA OthersAre ==
  ASSUME SessionsInv, NEW s, NEW d \in Conns
  PROVE  d \in OtherPeers(s) <=> \E i \in DOMAIN players : players[i].peer = d /\ players[i].sessId # s
  BY DEF OtherPeers, Players

(* Whoever is told of a join or a quit can be reached, if it reads: only the player whose *)
(* disconnection is being handled cannot, and it is not told of its own.                  *)
LEMMA PlayersReached ==
  ASSUME SessionsInv, NEW d \in Conns, Playing(d), peer[d] # "lost"
  PROVE  Reaches(d) <=> Reads(d)
  <1>1. PICK i \in DOMAIN players : players[i].peer = d
    BY DEF Playing
  <1> QED
    BY <1>1 DEF SessionsInv, PeersHeld, Held, Reaches

(* A join that is refused. *)
LEMMA RefusalKeeps ==
  ASSUME SessionsInv, RosterInv, [Next]_vars, NEW c \in Conns, NEW n \in Names,
         HandlePlayerJoin(c, n), HandlePlayerJoin_Taken(c, n)
  PROVE  RosterInv'
  <1>1. /\ Unjoined(c) /\ ~Unjoined(c)' /\ ~Playing(c)
        /\ client' = client /\ roster' = roster
        /\ players' = players /\ lastSess' = lastSess
        /\ base' = SendTo({c}, base, Failure)
    BY JoinSpends DEF HandlePlayerJoin_Taken, HandlePlayerJoin, clientVars
  <1>2. \A d \in Conns : /\ base[d] \in Seq(BaseMsg) /\ roster[d] \in [Sess -> {0, 1}]
                         /\ Consistent(base[d], roster[d])
                         /\ base'[d] = IF d = c /\ Reaches(c) THEN Append(base[d], Failure) ELSE base[d]
    BY <1>1 DEF RosterInv, RosterTypes, ListsConsistent, SendTo
  <1>3. \A d \in Conns :
          /\ Append(base[d], Failure) \in Seq(BaseMsg)
          /\ Consistent(Append(base[d], Failure), roster[d])
          /\ \A t \in Sess : Mentions(Append(base[d], Failure), roster[d], t) <=>
                              Mentions(base[d], roster[d], t)
    BY <1>2, AnswerTold, ToldMore, MessagesDiffer
  <1>4. \A d \in Conns : Reads(d)' <=> Reads(d)
    BY <1>1 DEF Reads
  <1>5. RosterTypes'
    BY <1>1, <1>2, <1>3 DEF RosterInv, RosterTypes, SendTo
  <1>6. QuietUntilAnswered'
    <2>1. Reaches(c) => Reads(c)
      BY DEF Reaches
    <2> QED
      BY <1>1, <1>2, <1>4, <2>1, SpentGrows DEF RosterInv, QuietUntilAnswered
  <1>7. SessionsKnown'
    BY <1>1, <1>2, <1>3 DEF RosterInv, SessionsKnown
  <1>8. ListsConsistent'
    BY <1>1, <1>2, <1>3 DEF RosterInv, ListsConsistent
  <1>9. ListsOthers'
    <2> SUFFICES ASSUME NEW d \in Conns, Playing(d)', Reads(d)', NEW s \in Sess
                 PROVE  WillList(base'[d], roster'[d], s) <=> OnServer(s, d)
      BY <1>1 DEF ListsOthers, OnServer
    <2>1. Playing(d) /\ d # c
      BY <1>1 DEF Playing
    <2> QED
      BY <1>1, <1>2, <1>4, <2>1 DEF RosterInv, ListsOthers
  <1> QED
    BY <1>5, <1>6, <1>7, <1>8, <1>9 DEF RosterInv

(* A join that is accepted: the newcomer is told who is there, and they of it. *)
LEMMA AcceptKeeps ==
  ASSUME SessionsInv, JoinsCounted, RosterInv, [Next]_vars, NEW c \in Conns, NEW n \in Names,
         HandlePlayerJoin(c, n), HandlePlayerJoin_Accept(c, n)
  PROVE  RosterInv'
  <1> DEFINE s == lastSess + 1
             welcome == (<<>> \o <<Success>>) \o AlreadyPlaying
  <1>1. /\ Unjoined(c) /\ ~Unjoined(c)' /\ ~Playing(c)
        /\ client' = client /\ roster' = roster
        /\ lastSess' = s
        /\ base' = IF Reaches(c)
                     THEN [SendTo(OtherPeers(s), base, Joined(s)) EXCEPT
                             ![c] = (@ \o <<Success>>) \o AlreadyPlaying]
                     ELSE SendTo(OtherPeers(s), base, Joined(s))
    <2>1. Unjoined(c) /\ ~Unjoined(c)' /\ ~Playing(c)
      BY JoinSpends
    <2> QED
      BY <2>1 DEF HandlePlayerJoin_Accept, HandlePlayerJoin, clientVars, NewPlayer
  <1>2. s \in Sess /\ lastSess \in Nat
    BY <1>1, SessionsBounded DEF SessionsInv, ServerTypes
  <1>3. /\ DOMAIN players' = 1 .. Len(players) + 1
        /\ DOMAIN players = 1 .. Len(players) /\ Len(players) \in Nat
        /\ \A i \in DOMAIN players : players'[i] = players[i]
        /\ players'[Len(players) + 1].peer = c /\ players'[Len(players) + 1].sessId = s
    <2>1. NewPlayer(c, n) \in PlayerRec
      BY <1>2 DEF NewPlayer, PlayerRec
    <2>2. players' = Append(players, NewPlayer(c, n)) /\ players \in Seq(PlayerRec)
      BY DEF HandlePlayerJoin_Accept, SessionsInv, ServerTypes
    <2>3. /\ players' \in Seq(PlayerRec)
          /\ Len(players') = Len(players) + 1
          /\ \A i \in 1 .. Len(players) : players'[i] = players[i]
          /\ players'[Len(players) + 1] = NewPlayer(c, n)
      BY <2>1, <2>2, AppendProperties
    <2>4. DOMAIN players' = 1 .. Len(players) + 1
      BY <2>3, LenProperties
    <2> QED
      BY <2>3, <2>4, PlayersDomain DEF NewPlayer, SessionsInv
  <1>4. \A d \in Conns : d \in OtherPeers(s) <=> Playing(d)
    <2>1. \A i \in DOMAIN players : players[i].sessId # s
      BY <1>2 DEF SessionsInv, SessionsDrawn
    <2> QED
      BY <2>1, OthersAre DEF Playing
  <1>5. \A d \in Conns : /\ base[d] \in Seq(BaseMsg) /\ roster[d] \in [Sess -> {0, 1}]
                         /\ Consistent(base[d], roster[d])
                         /\ ~Mentions(base[d], roster[d], s)
    BY <1>2 DEF RosterInv, RosterTypes, ListsConsistent, SessionsKnown
  <1>6. base[c] = <<>> /\ roster[c] = Nobody
    BY <1>1 DEF RosterInv, QuietUntilAnswered
  <1>7. /\ \A d \in Conns : d # c => base'[d] =
             IF Playing(d) /\ Reads(d) THEN Append(base[d], Joined(s)) ELSE base[d]
        /\ base'[c] = IF Reads(c) THEN welcome ELSE <<>>
        /\ DOMAIN base' = Conns
        /\ base' = [d \in Conns |-> base'[d]]
    <2>1. Receiving /\ peer[c] = "up"
      BY DEF HandlePlayerJoin
    <2>2. Reaches(c) <=> Reads(c)
      BY <2>1 DEF Reaches
    <2>3. \A d \in Conns : Playing(d) => (Reaches(d) <=> Reads(d))
      BY <2>1, PlayersReached DEF Receiving
    <2> QED
      BY <1>1, <1>4, <1>6, <2>2, <2>3 DEF SendTo
  <1>8. \A d \in Conns : Reads(d)' <=> Reads(d)
    BY <1>1 DEF Reads
  <1>9. \A d \in Conns :
          /\ Append(base[d], Joined(s)) \in Seq(BaseMsg)
          /\ Consistent(Append(base[d], Joined(s)), roster[d])
          /\ \A t \in Sess : /\ WillList(Append(base[d], Joined(s)), roster[d], t) <=>
                                (WillList(base[d], roster[d], t) \/ t = s)
                             /\ Mentions(Append(base[d], Joined(s)), roster[d], t) <=>
                                (Mentions(base[d], roster[d], t) \/ t = s)
    BY <1>2, <1>5, JoinTold, ToldMore, MessagesDiffer
  <1>10. /\ welcome \in Seq(BaseMsg)
         /\ Consistent(welcome, Nobody)
         /\ \A t \in Sess : WillList(welcome, Nobody, t) <=> \E i \in DOMAIN players : players[i].sessId = t
         /\ \A t \in Sess : Mentions(welcome, Nobody, t) => t <= lastSess
    BY NewcomerTold
  <1> HIDE DEF s, welcome
  <1>11. RosterTypes'
    <2>1. \A d \in Conns : base'[d] \in Seq(BaseMsg)
      BY <1>5, <1>7, <1>9, <1>10, NothingTold
    <2>2. base' \in [Conns -> Seq(BaseMsg)]
      BY <1>7, <2>1
    <2> QED
      BY <1>1, <2>2 DEF RosterInv, RosterTypes
  <1>12. QuietUntilAnswered'
    <2> SUFFICES ASSUME NEW d \in Conns, ~Reads(d)' \/ Unjoined(d)'
                 PROVE  base'[d] = <<>> /\ roster'[d] = Nobody
      BY DEF QuietUntilAnswered
    <2>1. CASE d = c
      BY <1>1, <1>6, <1>7, <1>8, <2>1
    <2>2. CASE d # c
      <3>1. ~Reads(d) \/ Unjoined(d)
        BY <1>8, SpentGrows
      <3>2. ~(Playing(d) /\ Reads(d))
        BY <3>1, RequestsMoveOn DEF Unjoined, SessionsInv, JoinsOnce
      <3> QED
        BY <1>1, <1>7, <2>2, <3>1, <3>2 DEF RosterInv, QuietUntilAnswered
    <2> QED
      BY <2>1, <2>2
  <1>13. SessionsKnown'
    <2> SUFFICES ASSUME NEW d \in Conns, NEW t \in Sess, Mentions(base'[d], roster'[d], t)
                 PROVE  t <= s
      BY <1>1 DEF SessionsKnown
    <2>1. t <= lastSess \/ t = s
      <3>1. CASE d = c
        BY <1>1, <1>6, <1>7, <1>10, <3>1, NothingTold
      <3>2. CASE d # c
        BY <1>1, <1>7, <1>9, <3>2 DEF RosterInv, SessionsKnown
      <3> QED
        BY <3>1, <3>2
    <2> QED
      BY <1>2, <2>1, ConnsCounted DEF s
  <1>14. ListsConsistent'
    <2> SUFFICES ASSUME NEW d \in Conns
                 PROVE  Consistent(base'[d], roster[d])
      BY <1>1 DEF ListsConsistent
    <2>1. CASE d = c
      <3>1. base'[c] = welcome \/ base'[c] = <<>>
        BY <1>7
      <3>2. Consistent(welcome, Nobody) /\ Consistent(<<>>, Nobody)
        BY <1>10, NothingTold
      <3> QED
        BY <1>6, <2>1, <3>1, <3>2, Zenon
    <2>2. CASE d # c
      <3>1. base'[d] = Append(base[d], Joined(s)) \/ base'[d] = base[d]
        BY <1>7, <2>2
      <3>2. Consistent(Append(base[d], Joined(s)), roster[d]) /\ Consistent(base[d], roster[d])
        BY <1>5, <1>9
      <3> QED
        BY <3>1, <3>2, Zenon
    <2> QED
      BY <2>1, <2>2
  <1>15. ListsOthers'
    <2> SUFFICES ASSUME NEW d \in Conns, Playing(d)', Reads(d)', NEW t \in Sess
                 PROVE  WillList(base'[d], roster'[d], t) <=> OnServer(t, d)'
      BY DEF ListsOthers
    <2>1. \A i \in DOMAIN players' : i \in DOMAIN players \/ i = Len(players) + 1
      BY <1>3
    <2>2. Reads(d)
      BY <1>8
    <2>3. CASE d = c
      <3>1. OnServer(t, d)' <=> \E i \in DOMAIN players : players[i].sessId = t
        BY <1>1, <1>3, <2>1, <2>3 DEF OnServer, Playing
      <3> QED
        BY <1>1, <1>6, <1>7, <1>10, <2>2, <2>3, <3>1
    <2>4. CASE d # c
      <3>1. Playing(d)
        BY <1>3, <2>1, <2>4 DEF Playing
      <3>2. OnServer(t, d)' <=> (OnServer(t, d) \/ t = s)
        <4>1. ASSUME OnServer(t, d)' PROVE OnServer(t, d) \/ t = s
          BY <1>3, <2>1, <4>1 DEF OnServer
        <4>2. ASSUME OnServer(t, d) PROVE OnServer(t, d)'
          BY <1>3, <4>2 DEF OnServer
        <4>3. ASSUME t = s PROVE OnServer(t, d)'
          <5>1. Len(players) + 1 \in DOMAIN players'
            BY <1>3
          <5> QED
            BY <1>3, <2>4, <4>3, <5>1 DEF OnServer
        <4> QED
          BY <4>1, <4>2, <4>3
      <3>3. WillList(base[d], roster[d], t) <=> OnServer(t, d)
        BY <2>2, <3>1 DEF RosterInv, ListsOthers
      <3> QED
        BY <1>1, <1>7, <1>9, <2>2, <2>4, <3>1, <3>2, <3>3
    <2> QED
      BY <2>3, <2>4
  <1> QED
    BY <1>11, <1>12, <1>13, <1>14, <1>15 DEF RosterInv

(* A player that leaves, on a quit or a time-out: each of the others is told. *)
LEMMA RemovalKeeps ==
  ASSUME SessionsInv, JoinsCounted, RosterInv, [Next]_vars, NEW c \in Conns,
         Held(c), \A d \in Conns : d # c => peer[d] # "lost",
         RemovePlayer(c), UNCHANGED <<client, roster, lastSess>>
  PROVE  RosterInv'
  <1>0. \A d \in Conns : Reads(d)' <=> Reads(d)
    BY DEF Reads
  <1>1. CASE ByPeer(c) = {}
    BY <1>0, <1>1, ListsUnchanged DEF RemovePlayer
  <1>2. CASE ByPeer(c) # {}
    <2> DEFINE k == First(ByPeer(c))
               s == players[k].sessId
    <2>1. k \in DOMAIN players /\ players[k].peer = c
      BY <1>2, FirstByPeer
    <2>2. /\ players' = RemovedAt(players, k)
          /\ base' = SendTo(OtherPeers(s), base, Left(s))
      BY <1>2 DEF RemovePlayer
    <2> HIDE DEF k
    <2>3. s \in Sess
      BY <2>1, SessionsBounded
    <2>4. \A i \in DOMAIN players : i # k => players[i].sessId # s /\ players[i].peer # c
      BY <2>1 DEF SessionsInv, KeysDistinct
    <2> HIDE DEF s
    <2>5. \A i \in DOMAIN players : players[i].sessId = s <=> i = k
      BY <2>1, <2>4 DEF s
    <2>6. \A d \in Conns : d \in OtherPeers(s) <=> (Playing(d) /\ d # c)
      <3>1. \A d \in Conns : d \in OtherPeers(s) <=>
                \E i \in DOMAIN players : players[i].peer = d /\ players[i].sessId # s
        BY OthersAre
      <3> QED
        BY <2>1, <2>4, <2>5, <3>1 DEF Playing
    <2>7. \A t, d : OnServer(t, d)' <=> (OnServer(t, d) /\ t # s)
      <3>1. Len(players) \in Nat /\ DOMAIN players = 1 .. Len(players)
        BY PlayersDomain DEF SessionsInv
      <3>2. /\ DOMAIN players' = 1 .. Len(players) - 1
            /\ \A j \in 1 .. Len(players) - 1 :
                 players'[j] = IF j < k THEN players[j] ELSE players[j + 1]
        BY <2>1, <2>2, RemovedElements DEF SessionsInv, ServerTypes
      <3>3. ASSUME NEW j \in DOMAIN players'
            PROVE  \E i \in DOMAIN players : i # k /\ players'[j] = players[i]
        <4>1. CASE j < k
          BY <2>1, <3>1, <3>2, <4>1
        <4>2. CASE ~(j < k)
          <5>1. j + 1 \in DOMAIN players /\ j + 1 # k
            BY <2>1, <3>1, <3>2, <4>2
          <5> QED
            BY <3>2, <4>2, <5>1
        <4> QED
          BY <4>1, <4>2
      <3>4. ASSUME NEW i \in DOMAIN players, i # k
            PROVE  \E j \in DOMAIN players' : players'[j] = players[i]
        <4>1. CASE i < k
          BY <2>1, <3>1, <3>2, <4>1
        <4>2. CASE i > k
          <5>1. i - 1 \in 1 .. Len(players) - 1 /\ ~(i - 1 < k) /\ (i - 1) + 1 = i
            BY <2>1, <3>1, <4>2
          <5> QED
            BY <3>2, <5>1
        <4> QED
          BY <2>1, <3>1, <3>4, <4>1, <4>2
      <3> TAKE t, d
      <3>5. ASSUME OnServer(t, d)' PROVE OnServer(t, d) /\ t # s
        <4>1. PICK j \in DOMAIN players' : players'[j].sessId = t /\ players'[j].peer # d
          BY <3>5 DEF OnServer
        <4>2. PICK i \in DOMAIN players : i # k /\ players'[j] = players[i]
          BY <3>3
        <4> QED
          BY <2>5, <4>1, <4>2 DEF OnServer
      <3>6. ASSUME OnServer(t, d), t # s PROVE OnServer(t, d)'
        <4>1. PICK i \in DOMAIN players : players[i].sessId = t /\ players[i].peer # d
          BY <3>6 DEF OnServer
        <4>2. PICK j \in DOMAIN players' : players'[j] = players[i]
          BY <2>5, <3>4, <3>6, <4>1
        <4> QED
          BY <4>1, <4>2 DEF OnServer
      <3> QED
        BY <3>5, <3>6
    <2>8. \A d \in Conns : /\ base[d] \in Seq(BaseMsg) /\ roster[d] \in [Sess -> {0, 1}]
                           /\ Consistent(base[d], roster[d])
      BY DEF RosterInv, RosterTypes, ListsConsistent
    <2>9. /\ base' = [d \in Conns |-> base'[d]]
          /\ \A d \in Conns : base'[d] =
               IF Playing(d) /\ d # c /\ Reads(d) THEN Append(base[d], Left(s)) ELSE base[d]
      <3>1. \A d \in Conns : Playing(d) /\ d # c => (Reaches(d) <=> Reads(d))
        BY PlayersReached
      <3> QED
        BY <2>2, <2>6, <3>1 DEF SendTo
    <2>10. \A d \in Conns : Playing(d) /\ d # c /\ Reads(d) => WillList(base[d], roster[d], s)
      <3> SUFFICES ASSUME NEW d \in Conns, Playing(d), d # c, Reads(d)
                   PROVE  WillList(base[d], roster[d], s)
        OBVIOUS
      <3>1. OnServer(s, d)
        BY <2>1 DEF OnServer, s
      <3> QED
        BY <2>3, <3>1 DEF RosterInv, ListsOthers
    <2>11. \A d \in Conns : Playing(d) /\ d # c /\ Reads(d) =>
             /\ base'[d] \in Seq(BaseMsg)
             /\ Consistent(base'[d], roster[d])
             /\ \A t \in Sess : /\ WillList(base'[d], roster[d], t) <=>
                                   (WillList(base[d], roster[d], t) /\ t # s)
                                /\ Mentions(base'[d], roster[d], t) <=> Mentions(base[d], roster[d], t)
      <3> SUFFICES ASSUME NEW d \in Conns, Playing(d), d # c, Reads(d)
                   PROVE  /\ base'[d] \in Seq(BaseMsg)
                          /\ Consistent(base'[d], roster[d])
                          /\ \A t \in Sess :
                               /\ WillList(base'[d], roster[d], t) <=>
                                    (WillList(base[d], roster[d], t) /\ t # s)
                               /\ Mentions(base'[d], roster[d], t) <=>
                                    Mentions(base[d], roster[d], t)
        OBVIOUS
      <3>1. base'[d] = Append(base[d], Left(s)) /\ WillList(base[d], roster[d], s)
        BY <2>9, <2>10
      <3>2. Append(base[d], Left(s)) \in Seq(BaseMsg)
        BY <2>3, <2>8, ToldMore, MessagesDiffer
      <3> QED
        BY <2>3, <2>8, <3>1, <3>2, QuitTold
    <2>12. RosterTypes'
      <3>1. \A d \in Conns : base'[d] \in Seq(BaseMsg)
        BY <2>8, <2>9, <2>11
      <3>2. base' \in [Conns -> Seq(BaseMsg)]
        BY <2>9, <3>1
      <3> QED
        BY <3>2 DEF RosterInv, RosterTypes
    <2>13. QuietUntilAnswered'
      <3> SUFFICES ASSUME NEW d \in Conns, ~Reads(d) \/ Unjoined(d)
                   PROVE  base'[d] = <<>> /\ roster'[d] = Nobody
        BY <1>0, SpentGrows DEF QuietUntilAnswered
      <3>1. ~(Playing(d) /\ Reads(d))
        BY DEF Unjoined, SessionsInv, JoinsOnce
      <3> QED
        BY <2>9, <3>1 DEF RosterInv, QuietUntilAnswered
    <2>14. SessionsKnown'
      BY <2>9, <2>11 DEF RosterInv, SessionsKnown
    <2>15. ListsConsistent'
      BY <2>8, <2>9, <2>11 DEF ListsConsistent
    <2>16. ListsOthers'
      <3> SUFFICES ASSUME NEW d \in Conns, Playing(d)', Reads(d)', NEW t \in Sess
                   PROVE  WillList(base'[d], roster[d], t) <=> OnServer(t, d)'
        BY DEF ListsOthers
      <3>1. \A i \in DOMAIN players' : players'[i].peer # c
        BY OthersRemain
      <3>2. Playing(d) /\ d # c
        BY <3>1, PlayerLeaves, OthersRemain DEF Playing
      <3> QED
        BY <1>0, <2>7, <2>11, <3>2 DEF RosterInv, ListsOthers
    <2> QED
      BY <2>12, <2>13, <2>14, <2>15, <2>16 DEF RosterInv
  <1> QED
    BY <1>1, <1>2

(* PlayerJoinSuccess is nothing to the list. *)
LEMMA SuccessUnheard == \A r : Heard(r, Success) = r
  BY DEF Heard, Success

(* The handlers of joins and quits do to the list what the message says. *)
LEMMA HandledIsHeard ==
  ASSUME RosterInv, NEW c \in Conns, HandleBase(c)
  PROVE  roster' = [roster EXCEPT ![c] = Heard(roster[c], Head(base[c]))]
  <1> DEFINE m == Head(base[c])
             r == roster[c]
  <1>1. /\ r \in [Sess -> {0, 1}] /\ roster \in [Conns -> [Sess -> {0, 1}]]
        /\ base[c] \in Seq(BaseMsg) /\ base[c] # <<>> /\ Consistent(base[c], r)
    BY DEF RosterInv, RosterTypes, ListsConsistent, HandleBase
  <1>2. /\ m.kind = "joined" => m.sess \in Sess /\ r[m.sess] = 0
        /\ m.kind = "left" => m.sess \in Sess /\ r[m.sess] = 1
    BY <1>1, MessageHeard
  <1>3. CASE m.kind = "joined"
    <2>1. roster' = [roster EXCEPT ![c][m.sess] = @ + 1]
      BY <1>3 DEF HandleBase, HearJoined
    <2>2. roster' = [roster EXCEPT ![c] = [r EXCEPT ![m.sess] = 0 + 1]]
      BY <1>1, <1>2, <1>3, <2>1
    <2> QED
      BY <1>3, <2>2 DEF Heard
  <1>4. CASE m.kind = "left"
    <2>1. roster' = [roster EXCEPT ![c][m.sess] = IF @ = 0 THEN 0 ELSE @ - 1]
      BY <1>4 DEF HandleBase, HearLeft
    <2>2. r[m.sess] = 1 /\ m.sess \in Sess
      BY <1>2, <1>4
    <2>3. (IF r[m.sess] = 0 THEN 0 ELSE r[m.sess] - 1) = 0
      BY <2>2
    <2>4. roster' = [roster EXCEPT ![c] = [r EXCEPT ![m.sess] = 0]]
      BY <2>1, <2>3
    <2>5. m.kind # "joined"
      BY <1>4
    <2> QED
      BY <1>4, <2>4, <2>5 DEF Heard
  <1>5. CASE m.kind # "joined" /\ m.kind # "left"
    <2>1. roster' = roster
      BY <1>5 DEF HandleBase
    <2>2. Heard(r, m) = r
      BY <1>5 DEF Heard
    <2> QED
      BY <1>1, <2>1, <2>2
  <1> QED
    BY <1>3, <1>4, <1>5

(* Lists and channels stay consistent with the players, whatever the server or a *)
(* client does.                                                                  *)
LEMMA RosterStep ==
  ASSUME SessionsInv, JoinsCounted, RosterInv, [Next]_vars
  PROVE  RosterInv'
  <1> DEFINE P == RosterInv'
  <1> USE DEF serverVars, clientVars, toClient
  <1>1. ASSUME NEW c \in Conns, NEW s \in Slots, RecvConnect(c, s) PROVE P
    BY <1>1, ListsUnchanged DEF RecvConnect, Reads
  <1>2. ASSUME RecvNothing PROVE P
    BY <1>2, ListsUnchanged DEF RecvNothing, Reads
  <1>3. ASSUME NEW c \in Conns, NEW n \in Names, HandlePlayerJoin(c, n) PROVE P
    <2>1. HandlePlayerJoin_Taken(c, n) \/ HandlePlayerJoin_Accept(c, n)
      BY <1>3 DEF HandlePlayerJoin
    <2> QED
      BY <1>3, <2>1, RefusalKeeps, AcceptKeeps
  <1>4. ASSUME NEW c \in Conns, HandlePlayerQuit(c) PROVE P
    BY <1>4, RemovalKeeps DEF HandlePlayerQuit, Receiving, Held
  <1>5. ASSUME NEW c \in Conns, HandlePlayerDeath(c) PROVE P
    BY <1>5, ListsUnchanged DEF HandlePlayerDeath, Reads
  <1>6. ASSUME NEW c \in Conns, HandleDisconnect(c) PROVE P
    <2>1. Held(c) /\ \A d \in Conns : d # c => peer[d] # "lost"
      BY <1>6 DEF HandleDisconnect, Held, SessionsInv, OneLost
    <2> QED
      BY <1>6, <2>1, RemovalKeeps DEF HandleDisconnect
  <1>17. ASSUME NEW c \in Conns, RecvDisconnect(c) PROVE P
    BY <1>17, ListsUnchanged DEF RecvDisconnect, Reads
  <1>7. ASSUME NEW s \in Sess, Respawn(s) PROVE P
    BY <1>7, ListsUnchanged DEF Respawn, Reads
  <1>8. ASSUME NEW c \in Conns, NEW n \in Names, SendJoin(c, n) PROVE P
    <2>1. /\ client[c] = "off" /\ client' = [client EXCEPT ![c] = "joining"]
          /\ UNCHANGED <<base, roster, players, lastSess>>
      BY <1>8 DEF SendJoin
    <2>2. \A d \in Conns : /\ Reads(d) => Reads(d)'
                           /\ Reads(d)' /\ ~Reads(d) => Unjoined(d)
      BY <2>1 DEF Reads, Unjoined, SessionsInv, ServerTypes
    <2> QED
      BY <2>1, <2>2, ListsUnchanged
  <1>9. ASSUME NEW c \in Conns, JoinSucceeds(c) PROVE P
    <2>1. /\ client[c] = "joining" /\ client' = [client EXCEPT ![c] = "playing"]
          /\ base[c] # <<>> /\ base' = [base EXCEPT ![c] = Tail(@)]
          /\ Head(base[c]) = Success
          /\ roster' = roster /\ UNCHANGED <<players, lastSess>>
      BY <1>9 DEF JoinSucceeds
    <2>2. Reads(c) /\ \A d \in Conns : Reads(d)' <=> Reads(d)
      BY <2>1 DEF Reads, SessionsInv, ServerTypes
    <2>3. roster' = [roster EXCEPT ![c] = Heard(roster[c], Head(base[c]))]
      BY <2>1, SuccessUnheard DEF RosterInv, RosterTypes
    <2> QED
      BY <2>1, <2>2, <2>3, ReadKeeps
  <1>10. ASSUME NEW c \in Conns, JoinFails(c) PROVE P
    BY <1>10, StopKeeps DEF JoinFails
  <1>11. ASSUME NEW c \in Conns, HandleBase(c) PROVE P
    <2>1. /\ client[c] = "playing" /\ client' = client
          /\ base[c] # <<>> /\ base' = [base EXCEPT ![c] = Tail(@)]
          /\ UNCHANGED <<players, lastSess>>
      BY <1>11 DEF HandleBase
    <2>2. Reads(c) /\ \A d \in Conns : Reads(d)' <=> Reads(d)
      BY <2>1 DEF Reads
    <2>3. roster' = [roster EXCEPT ![c] = Heard(roster[c], Head(base[c]))]
      BY <1>11, HandledIsHeard
    <2> QED
      BY <2>1, <2>2, <2>3, ReadKeeps
  <1>12. ASSUME NEW c \in Conns, HandleLife(c) PROVE P
    BY <1>12, ListsUnchanged DEF HandleLife, Reads
  <1>13. ASSUME NEW c \in Conns, SendDie(c) PROVE P
    BY <1>13, ListsUnchanged DEF SendDie, Reads
  <1>14. ASSUME NEW c \in Conns, ClientQuit(c) PROVE P
    BY <1>14, StopKeeps DEF ClientQuit
  <1>15. ASSUME NEW c \in Conns, ClientVanishes(c) PROVE P
    BY <1>15, StopKeeps DEF ClientVanishes
  <1>16. ASSUME UNCHANGED vars PROVE P
    BY <1>16, ListsUnchanged DEF vars, Reads
  <1> HIDE DEF P
  <1> QED
    BY <1>1, <1>2, <1>3, <1>4, <1>5, <1>6, <1>7, <1>8, <1>9, <1>10, <1>11, <1>12, <1>13,
       <1>14, <1>15, <1>16, <1>17, SessionSteps DEF P

(* Nobody has heard of anybody at first, and no session is drawn. *)
LEMMA RosterInitially == Init => JoinsCounted /\ RosterInv
  <1> SUFFICES ASSUME Init PROVE JoinsCounted /\ RosterInv
    OBVIOUS
  <1>1. JoinsCounted
    <2>1. lastSess = 0 /\ Spent = {}
      BY DEF Init, Spent, Unjoined
    <2> QED
      BY <2>1, FS_EmptySet DEF JoinsCounted
  <1>2. base = [c \in Conns |-> <<>>] /\ roster = [c \in Conns |-> Nobody] /\ players = <<>>
    BY DEF Init, Nobody
  <1>3. RosterTypes /\ QuietUntilAnswered /\ SessionsKnown /\ ListsConsistent
    BY <1>2, NothingTold, NobodyListed
       DEF RosterTypes, QuietUntilAnswered, SessionsKnown, ListsConsistent
  <1>4. ListsOthers
    BY <1>2, EmptySeq DEF ListsOthers, Playing
  <1> QED
    BY <1>1, <1>3, <1>4 DEF RosterInv

LEMMA RosterInvariant == Safety => [](SessionsInv /\ JoinsCounted /\ RosterInv)
  <1> DEFINE Inv == SessionsInv /\ JoinsCounted /\ RosterInv
  <1>1. Init => Inv
    BY RosterInitially, SessionsInitially
  <1>2. Inv /\ [Next]_vars => Inv'
    BY SessionsStep, JoinsCountedStep, RosterStep
  <1> QED
    BY <1>1, <1>2, PTL DEF Safety

----------------------------------------------------------------------------
(* What a channel holds of one message is none or one. *)

LEMMA HeldOnce ==
  ASSUME NEW q \in Seq(BaseMsg), NEW m,
         \A i, j \in DOMAIN q : q[i] = m /\ q[j] = m => i = j
  PROVE  Cardinality({i \in DOMAIN q : q[i] = m}) = IF Told(q, m) THEN 1 ELSE 0
  <1>1. CASE Told(q, m)
    <2>1. PICK i \in DOMAIN q : q[i] = m
      BY <1>1 DEF Told
    <2>2. {j \in DOMAIN q : q[j] = m} = {i}
      BY <2>1
    <2> QED
      BY <1>1, <2>2, FS_Singleton
  <1>2. CASE ~Told(q, m)
    <2>1. {j \in DOMAIN q : q[j] = m} = {}
      BY <1>2 DEF Told
    <2> QED
      BY <1>2, <2>1, FS_EmptySet
  <1> QED
    BY <1>1, <1>2

(* Whoever plays ends up listing exactly the other players: what its list and its    *)
(* channel hold of a session adds up to one if that is another player's and to zero  *)
(* if it is not (handlePlayerJoin and handlePlayerQuit of the server, PlayerJoin and *)
(* PlayerQuit handlers of the client).                                               *)
THEOREM SessionsRosterConverges == Safety => []RosterConverges
  <1>1. SessionsInv /\ RosterInv => RosterConverges
    <2> SUFFICES ASSUME SessionsInv, RosterInv,
                        NEW p \in Players, client[p.peer] = "playing", NEW s \in Sess
                 PROVE  roster[p.peer][s] + Count(p.peer, Joined(s)) - Count(p.peer, Left(s)) =
                          IF \E q \in Players : q.sessId = s /\ q # p THEN 1 ELSE 0
      BY DEF RosterConverges
    <2> DEFINE c == p.peer
    <2>1. PICK k \in DOMAIN players : players[k] = p
      BY DEF Players
    <2>2. c \in Conns
      BY <2>1, PlayersDomain DEF SessionsInv, PlayerRec
    <2>3. /\ base[c] \in Seq(BaseMsg) /\ roster[c] \in [Sess -> {0, 1}]
          /\ Consistent(base[c], roster[c])
      BY <2>2 DEF RosterInv, RosterTypes, ListsConsistent
    <2>4. Playing(c) /\ Reads(c)
      BY <2>1 DEF Playing, Reads
    <2>5. (\E q \in Players : q.sessId = s /\ q # p) <=> OnServer(s, c)
      <3>1. ASSUME NEW q \in Players, q.sessId = s, q # p PROVE OnServer(s, c)
        <4>1. PICK i \in DOMAIN players : players[i] = q
          BY DEF Players
        <4>2. i # k
          BY <2>1, <3>1, <4>1
        <4>3. players[i].peer # players[k].peer
          BY <4>2 DEF SessionsInv, KeysDistinct
        <4> QED
          BY <2>1, <3>1, <4>1, <4>3 DEF OnServer
      <3>2. ASSUME OnServer(s, c) PROVE \E q \in Players : q.sessId = s /\ q # p
        BY <3>2 DEF OnServer, Players
      <3> QED
        BY <3>1, <3>2
    <2>6. WillList(base[c], roster[c], s) <=> OnServer(s, c)
      BY <2>2, <2>4 DEF RosterInv, ListsOthers
    <2> HIDE DEF c
    <2>7. Count(c, Joined(s)) = IF Told(base[c], Joined(s)) THEN 1 ELSE 0
      BY <2>3, HeldOnce DEF Count, Consistent
    <2>8. Count(c, Left(s)) = IF Told(base[c], Left(s)) THEN 1 ELSE 0
      BY <2>3, HeldOnce DEF Count, Consistent
    <2>9. Told(base[c], Left(s)) => roster[c][s] = 1 \/ Told(base[c], Joined(s))
      BY <2>3 DEF Consistent, Told
    <2>10. roster[c][s] = 1 => ~Told(base[c], Joined(s))
      BY <2>3 DEF Consistent
    <2>11. roster[c][s] + Count(c, Joined(s)) - Count(c, Left(s)) =
             IF WillList(base[c], roster[c], s) THEN 1 ELSE 0
      <3>1. roster[c][s] \in {0, 1}
        BY <2>3
      <3> QED
        BY <2>7, <2>8, <2>9, <2>10, <3>1 DEF WillList
    <2> QED
      BY <2>5, <2>6, <2>11 DEF c
  <1> QED
    BY <1>1, RosterInvariant, PTL

----------------------------------------------------------------------------
(* The rest of the type invariant: deaths and respawns. *)

LifeTypes ==
  /\ respawns \subseteq Sess
  /\ dying \in [Conns -> {"no", "sent", "handled"}]
  /\ life \in [Conns -> Seq(LifeMsg)]
  /\ mourning \in [Conns -> SUBSET Sess]

(* A broadcast of a death or a respawn. *)
LEMMA LifeSent ==
  ASSUME LifeTypes, NEW D, NEW s \in Sess
  PROVE  /\ SendTo(D, life, Die(s)) \in [Conns -> Seq(LifeMsg)]
         /\ SendTo(D, life, Respawned(s)) \in [Conns -> Seq(LifeMsg)]
  <1>1. Die(s) \in LifeMsg /\ Respawned(s) \in LifeMsg
    BY DEF LifeMsg
  <1>2. \A d \in Conns : /\ life[d] \in Seq(LifeMsg)
                         /\ Append(life[d], Die(s)) \in Seq(LifeMsg)
                         /\ Append(life[d], Respawned(s)) \in Seq(LifeMsg)
    BY <1>1, AppendProperties DEF LifeTypes
  <1> QED
    BY <1>2 DEF SendTo

(* What comes in on channel Life speaks of some session. *)
LEMMA LifeTaken ==
  ASSUME LifeTypes, NEW c \in Conns, life[c] # <<>>
  PROVE  Tail(life[c]) \in Seq(LifeMsg) /\ Head(life[c]).sess \in Sess
  <1>1. Tail(life[c]) \in Seq(LifeMsg) /\ Head(life[c]) \in LifeMsg
    BY HeadTailProperties DEF LifeTypes
  <1>2. \A s : Die(s).sess = s /\ Respawned(s).sess = s
    BY DEF Die, Respawned
  <1> QED
    BY <1>1, <1>2 DEF LifeMsg

LEMMA LifeStep ==
  ASSUME SessionsInv, JoinsCounted, RosterInv, LifeTypes, [Next]_vars
  PROVE  LifeTypes'
  <1> DEFINE P == LifeTypes'
  <1> USE DEF serverVars, clientVars, toClient
  <1>1. ASSUME UNCHANGED <<respawns, dying, life, mourning>> PROVE P
    BY <1>1 DEF LifeTypes
  <1>2. ASSUME NEW c \in Conns, HandlePlayerDeath(c) PROVE P
    <2>1. dying' = [dying EXCEPT ![c] = "handled"] /\ mourning' = mourning
      BY <1>2 DEF HandlePlayerDeath
    <2>2. respawns' \subseteq Sess /\ life' \in [Conns -> Seq(LifeMsg)]
      <3>1. CASE UNCHANGED <<life, respawns>>
        BY <3>1 DEF LifeTypes
      <3>2. CASE /\ ByPeer(c) # {}
                 /\ LET s == players[First(ByPeer(c))].sessId
                    IN /\ life' = SendTo(OtherPeers(s), life, Die(s))
                       /\ respawns' = respawns \cup {s}
        <4> DEFINE s == players[First(ByPeer(c))].sessId
        <4>1. s \in Sess
          BY <1>2, <3>2, FirstByPeer, SessionsBounded DEF HandlePlayerDeath, Held
        <4>2. life' = SendTo(OtherPeers(s), life, Die(s)) /\ respawns' = respawns \cup {s}
          BY <3>2
        <4> HIDE DEF s
        <4> QED
          BY <4>1, <4>2, LifeSent DEF LifeTypes
      <3> QED
        BY <1>2, <3>1, <3>2 DEF HandlePlayerDeath
    <2> QED
      BY <2>1, <2>2 DEF LifeTypes
  <1>3. ASSUME NEW c \in Conns, RecvDisconnect(c) \/ HandleDisconnect(c) PROVE P
    BY <1>3 DEF RecvDisconnect, HandleDisconnect, LifeTypes
  <1>4. ASSUME NEW s \in Sess, Respawn(s) PROVE P
    <2>1. /\ respawns' = respawns \ {s} /\ dying' = dying /\ mourning' = mourning
          /\ life' = life \/ life' = SendTo(OtherPeers(0), life, Respawned(s))
      BY <1>4 DEF Respawn
    <2> QED
      BY <2>1, LifeSent DEF LifeTypes
  <1>5. ASSUME NEW c \in Conns, NEW how, StopReading(c, how), UNCHANGED <<respawns, dying>> PROVE P
    BY <1>5, EmptySeq DEF StopReading, LifeTypes
  <1>6. ASSUME NEW c \in Conns, HandleBase(c) PROVE P
    <2>1. /\ UNCHANGED <<respawns, dying, life>>
          /\ mourning' = mourning
               \/ mourning' = [mourning EXCEPT ![c] = @ \ {Head(base[c]).sess}]
      BY <1>6 DEF HandleBase, HearJoined, HearLeft
    <2> QED
      BY <2>1 DEF LifeTypes
  <1>7. ASSUME NEW c \in Conns, HandleLife(c) PROVE P
    <2> DEFINE s == Head(life[c]).sess
    <2>1. s \in Sess /\ Tail(life[c]) \in Seq(LifeMsg)
      BY <1>7, LifeTaken DEF HandleLife
    <2>2. /\ UNCHANGED <<respawns, dying>>
          /\ life' = [life EXCEPT ![c] = Tail(@)]
          /\ \/ mourning' = [mourning EXCEPT ![c] = @ \cup {s}]
             \/ mourning' = [mourning EXCEPT ![c] = @ \ {s}]
             \/ mourning' = [mourning EXCEPT ![c] = @]
      BY <1>7 DEF HandleLife
    <2> HIDE DEF s
    <2>3. mourning' \in [Conns -> SUBSET Sess]
      BY <2>1, <2>2 DEF LifeTypes
    <2>4. life' \in [Conns -> Seq(LifeMsg)]
      BY <2>1, <2>2 DEF LifeTypes
    <2> QED
      BY <2>2, <2>3, <2>4 DEF LifeTypes
  <1>8. ASSUME NEW c \in Conns, SendDie(c) PROVE P
    BY <1>8 DEF SendDie, LifeTypes
  <1> HIDE DEF P
  <1>9. ASSUME NEW c \in Conns
        PROVE  /\ (\E s \in Slots : RecvConnect(c, s)) => P
               /\ (\E n \in Names : HandlePlayerJoin(c, n)) => P
               /\ HandlePlayerQuit(c) => P
               /\ (\E n \in Names : SendJoin(c, n)) => P
               /\ JoinSucceeds(c) => P
    BY <1>1 DEF RecvConnect, HandlePlayerJoin, HandlePlayerQuit, SendJoin, JoinSucceeds
  <1>10. RecvNothing => P
    BY <1>1 DEF RecvNothing
  <1>11. ASSUME NEW c \in Conns PROVE JoinFails(c) \/ ClientQuit(c) \/ ClientVanishes(c) => P
    BY <1>5 DEF JoinFails, ClientQuit, ClientVanishes
  <1>12. UNCHANGED vars => P
    BY <1>1 DEF vars
  <1> QED
    BY <1>2, <1>3, <1>4, <1>6, <1>7, <1>8, <1>9, <1>10, <1>11, <1>12, SessionSteps DEF P

(* The types of every variable; sessions never run out of 1 .. Cardinality(Conns),   *)
(* and no client lists a session twice, whatever is sent and lost (Server::run and   *)
(* its handlers, GameState::processNetwork).                                         *)
THEOREM SessionsTyped == Safety => []TypeOK
  <1> DEFINE Inv == SessionsInv /\ JoinsCounted /\ RosterInv /\ LifeTypes
  <1>1. Init => Inv
    <2>1. Init => LifeTypes
      BY EmptySeq DEF Init, LifeTypes
    <2> QED
      BY <2>1, RosterInitially, SessionsInitially
  <1>2. Inv /\ [Next]_vars => Inv'
    BY SessionsStep, JoinsCountedStep, RosterStep, LifeStep
  <1>3. Inv => TypeOK
    <2> SUFFICES ASSUME Inv PROVE TypeOK
      OBVIOUS
    <2>1. players \in Seq(Player)
      <3>1. Len(players) \in Nat /\ DOMAIN players = 1 .. Len(players)
        BY PlayersDomain DEF SessionsInv
      <3>2. ASSUME NEW i \in 1 .. Len(players) PROVE players[i] \in Player
        <4>1. players[i] \in PlayerRec /\ players[i].sessId \in Sess
          BY <3>1, PlayersDomain, SessionsBounded DEF SessionsInv
        <4> QED
          BY <4>1 DEF PlayerRec, Player
      <3>3. players \in [1 .. Len(players) -> Player]
        BY <3>1, <3>2, LenProperties DEF SessionsInv, ServerTypes
      <3> QED
        BY <3>1, <3>3, SeqDef
    <2>2. lastSess \in 0 .. Cardinality(Conns)
      BY SessionsBounded
    <2> QED
      BY <2>1, <2>2
         DEF TypeOK, SessionsInv, ServerTypes, RosterInv, RosterTypes, LifeTypes
  <1> HIDE DEF Inv
  <1> QED
    BY <1>1, <1>2, <1>3, PTL DEF Safety
=============================================================================
