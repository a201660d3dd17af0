------------------------------ MODULE Messages ------------------------------
(***************************************************************************)
(* What goes over the network (network/msgtypes, network/Network.cpp's     *)
(* InMessage, OutMessage and Host::send, io/Stream.cpp and                 *)
(* io/MemoryStream.cpp): a message is written field by field to a buffer   *)
(* that grows, its packed objects after a length that is filled in         *)
(* afterwards, and read field by field from a copy, into an InMessage that *)
(* is used for one message after the other. No layout is sent: a reader    *)
(* must ask for what the writer wrote, in that order, as often. Most types *)
(* have a class with both halves; of those that are written or read by     *)
(* hand elsewhere, the layout here is the one of whoever does it.          *)
(*                                                                         *)
(* A field's value is its place in the message, standing for whatever it   *)
(* was; counts, flags and lengths are numbers. A step is one field, which  *)
(* only its own thread sees.                                               *)
(***************************************************************************)
EXTENDS Integers, Sequences

CONSTANTS
  Byte,        \* the values of a uint8 (256)
  Short,       \* the values of a uint16 (65536)
  AllocStep,   \* OutMessage_AllocStep (1024)
  KeyLength,   \* bytes of a public key (32), a quarter of a ModId
  Sizes,       \* lengths of strings, packed objects and chunks
  MaxCount,    \* bound: elements put in a message
  MaxMessages  \* bound: messages sent

ASSUME MessagesAssumption ==
  /\ Byte \in Nat \ {0, 1}
  /\ Short \in Nat /\ Short > Byte
  /\ AllocStep \in Nat \ {0}
  /\ KeyLength \in Nat \ {0}
  /\ Sizes \subseteq Nat
  /\ MaxCount \in Nat
  /\ MaxMessages \in Nat \ {0}

----------------------------------------------------------------------------
(* The streams *)

Width ==
  [U8 |-> 1, U16 |-> 2, I16 |-> 2, U32 |-> 4, I32 |-> 4, Float |-> 4, Vec3 |-> 12, IVec3 |-> 12,
   Key |-> KeyLength, ModId |-> 4 * KeyLength,
   Flags |-> 1, Count8 |-> 1, Count16 |-> 2, Count32 |-> 4]

\* Bytes of the length in front of a field that has one.
Prefix == [String |-> 2, Pack |-> 4, Chunk |-> 4, Compressed |-> 2]

Kinds == DOMAIN Width \cup DOMAIN Prefix

\* The bytes of a value: the j-th of w. Anything else of that length is no value, the
\* half of one included.
Bytes(v, w) == [j \in 1 .. w |-> <<v, w, j>>]
Garbled == -1
Decode(bytes) ==
  IF bytes = <<>> THEN 0
  ELSE IF bytes = Bytes(bytes[1][1], Len(bytes)) THEN bytes[1][1] ELSE Garbled

Fit_Down(s, len) ==
  IF len <= s.allocated THEN s
  ELSE [s EXCEPT !.allocated = (len \div AllocStep) * AllocStep]

\* OutMessage::fit
Fit(s, len) ==
  IF len <= s.allocated THEN s
  ELSE [s EXCEPT !.allocated = ((len + AllocStep - 1) \div AllocStep) * AllocStep]

\* OutMemoryStream::writeData
WriteData(s, bytes) ==
  LET end == s.cursor + Len(bytes)
      length == IF end > Len(s.data) THEN end ELSE Len(s.data)
  IN [Fit(s, end) EXCEPT
        !.data = [i \in 1 .. length |->
                    IF i \in s.cursor + 1 .. end THEN bytes[i - s.cursor] ELSE s.data[i]],
        !.cursor = end]

\* MemoryStream::seek, to a place the stream has been: it does not throw there.
Seek(s, pos) == [s EXCEPT !.cursor = pos]

WritePack_NoReturn(s, v, n) ==
  LET packed == WriteData(WriteData(s, Bytes(0, 4)), Bytes(v, n))
      size == packed.cursor - (s.cursor + 4)
  IN WriteData(Seek(packed, s.cursor), Bytes(size, 4))

\* OutMessage::writeMsgpack
WritePack(s, v, n) ==
  LET packed == WriteData(WriteData(s, Bytes(0, 4)), Bytes(v, n))
      size == packed.cursor - (s.cursor + 4)
  IN Seek(WriteData(Seek(packed, s.cursor), Bytes(size, 4)), packed.cursor)

\* What a count becomes in the field that is to hold it.
Held(kind, v) ==
  IF kind = "Count8" THEN v % Byte ELSE IF kind = "Count16" THEN v % Short ELSE v

WriteField(s, kind, v, n) ==
  IF kind = "Pack" THEN WritePack(s, v, n)
  ELSE IF kind \in DOMAIN Prefix THEN WriteData(WriteData(s, Bytes(n, Prefix[kind])), Bytes(v, n))
  ELSE WriteData(s, Bytes(Held(kind, v), n))

\* InMemoryStream::readData throws unless.
Available(s, n) == s.cursor + n <= Len(s.data)
BytesAt(s, from, n) == SubSeq(s.data, s.cursor + from + 1, s.cursor + from + n)

Ahead(kind) == IF kind \in DOMAIN Prefix THEN Prefix[kind] ELSE 0

\* The length of the field at the cursor.
LengthAt(s, kind) ==
  IF kind \in DOMAIN Prefix THEN Decode(BytesAt(s, 0, Prefix[kind])) ELSE Width[kind]

\* A chunk's data is not read but pointed at: getCursorPtr does not check.
CanRead(s, kind) ==
  /\ Available(s, Ahead(kind))
  /\ kind = "Chunk" \/ Available(s, Ahead(kind) + LengthAt(s, kind))

ReadItem(s, kind) ==
  LET n == LengthAt(s, kind)
  IN [kind |-> kind, size |-> n,
      value |-> IF Available(s, Ahead(kind) + n) THEN Decode(BytesAt(s, Ahead(kind), n)) ELSE Garbled]

----------------------------------------------------------------------------
(* The messages: fields before the elements, fields of an element, how often, fields after *)

Plain(fields) == [head |-> fields, rounds |-> 0, elem |-> <<>>, tail |-> <<>>]
Counted(count, n, fields, tail) ==
  [head |-> <<count>>, rounds |-> n, elem |-> fields, tail |-> tail]

Total(l) == Len(l.head) + l.rounds * Len(l.elem) + Len(l.tail)

FieldAt(l, k) ==
  LET h == Len(l.head)
      e == l.rounds * Len(l.elem)
  IN IF k <= h THEN l.head[k]
     ELSE IF k <= h + e THEN l.elem[((k - h - 1) % Len(l.elem)) + 1]
     ELSE l.tail[k - h - e]

\* FieldFlags of PlayerUpdateMove: 1 session id, 2 position, 4 velocity, 8 acceleration.
Has(flags, bit) == (flags \div bit) % 2 = 1
Optional(flags, bit, kind) == IF Has(flags, bit) THEN <<kind>> ELSE <<>>
MoveFields(flags) ==
  <<"Flags">> \o Optional(flags, 1, "U32") \o Optional(flags, 2, "Vec3")
    \o Optional(flags, 4, "Vec3") \o Optional(flags, 8, "Vec3") \o <<"Float">>

\* The messages of both: TLC's @@, of which the provers have no definition.
f ++ g == [x \in DOMAIN f \cup DOMAIN g |-> IF x \in DOMAIN f THEN f[x] ELSE g[x]]

ServerInfoWritten(n) == [ServerInfoRequest |-> Counted("Count16", n, <<"String">>, <<"Pack">>)]
ServerInfoRead(n) == [ServerInfoRequest |-> Counted("Count16", n, <<"String">>, <<"Pack">>)]

ConnectionParamWritten == [DHKeyExchange |-> Plain(<<"Key">>)]
ConnectionParamRead == [DHKeyExchange |-> Plain(<<"Key">>)]

PlayerJoinWritten ==
  [JoinRequest |-> Plain(<<"String">>),
   JoinSuccess |-> Plain(<<"U32", "I32">>),
   JoinFailure |-> Plain(<<"U8">>),
   JoinBroadcast |-> Plain(<<"U8", "String", "U32", "I32">>)]
\* The answer to a join is not read by its class but by the state that connects: the low
\* half of the world's id, which is 0 for the one world there is, and no reason.
PlayerJoinRead ==
  [JoinRequest |-> Plain(<<"String">>),
   JoinSuccess |-> Plain(<<"U32", "I16">>),
   JoinFailure |-> Plain(<<>>),
   JoinBroadcast |-> Plain(<<"U8", "String", "U32", "I32">>)]

PlayerUpdateWritten(n) ==
  [Move |-> Plain(MoveFields(n)), Die |-> Plain(<<"U32">>), Respawn |-> Plain(<<"U32">>)]
PlayerUpdateRead(n) ==
  [Move |-> Plain(MoveFields(n)), Die |-> Plain(<<"U32">>), Respawn |-> Plain(<<"U32">>)]

ChatWritten ==
  [ChatSend |-> Plain(<<"Pack">>),
   ChatAnnouncement |-> Plain(<<"String", "String", "Pack", "Pack">>),
   ChatPlayerTalk |-> Plain(<<"U32", "Pack", "Pack">>)]
ChatRead ==
  [ChatSend |-> Plain(<<"Pack">>),
   ChatAnnouncement |-> Plain(<<"String", "String", "Pack", "Pack">>),
   ChatPlayerTalk |-> Plain(<<"U32", "Pack", "Pack">>)]

ContentWritten(n) ==
  [ModListRequest |-> Plain(<<>>), ModListResponse |-> Counted("Count32", n, <<"ModId">>, <<>>)]
ContentRead(n) ==
  [ModListRequest |-> Plain(<<>>), ModListResponse |-> Counted("Count32", n, <<"ModId">>, <<>>)]

ChunkTransferWritten(n) ==
  [ChunkRequest |-> Counted("Count8", n, <<"I32", "IVec3">>, <<>>),
   ChunkResponse |-> Counted("Count8", n, <<"I32", "IVec3", "Chunk">>, <<>>),
   ChunkDenied |-> Plain(<<"U8">>)]
ChunkTransferRead(n) ==
  [ChunkRequest |-> Counted("Count8", n, <<"I32", "IVec3">>, <<>>),
   ChunkResponse |-> Counted("Count8", n, <<"I32", "IVec3", "Chunk">>, <<>>),
   ChunkDenied |-> Plain(<<"U8">>)]

Update == <<"U8", "I32", "IVec3", "U16", "U16", "Pack", "U16", "U8">>
BlockUpdateWritten(n) ==
  [Notify |-> Counted("Count16", n, Update, <<>>),
   Place |-> Plain(<<"I32", "IVec3", "U16", "U16", "Pack">>),
   Break |-> Plain(<<"I32", "IVec3">>)]
\* The updates are counted by a uint8, which never gets past a count it cannot hold: a
\* round more than there are updates stands for a loop that does not end.
BlockUpdateRead(n) ==
  [Notify |-> Counted("Count16", IF n < Byte THEN n ELSE MaxCount + 1, Update, <<>>),
   Place |-> Plain(<<"I32", "IVec3", "U16", "U16", "Pack">>),
   Break |-> Plain(<<"I32", "IVec3">>)]

\* Not a message: what a chunk is sent as, inside a ChunkResponse.
ChunkWritten == [ChunkData |-> Plain(<<"Compressed", "U32">>)]
ChunkRead == [ChunkData |-> Plain(<<"Compressed", "U32">>)]

\* Written and read by hand: the client's, the server's for one who left, and the
\* server's to one it kicks (which nothing calls), read as the one before.
PlayerQuitWritten ==
  [PlayerQuit |-> Plain(<<>>), QuitBroadcast |-> Plain(<<"U32">>), Kick |-> Plain(<<"U32", "String">>)]
PlayerQuitRead ==
  [PlayerQuit |-> Plain(<<>>), QuitBroadcast |-> Plain(<<"U32">>), Kick |-> Plain(<<"U32">>)]

Written(n) ==
  ServerInfoWritten(n) ++ ConnectionParamWritten ++ PlayerJoinWritten ++ PlayerUpdateWritten(n)
    ++ ChatWritten ++ ContentWritten(n) ++ ChunkTransferWritten(n) ++ BlockUpdateWritten(n)
    ++ ChunkWritten ++ PlayerQuitWritten
Read(n) ==
  ServerInfoRead(n) ++ ConnectionParamRead ++ PlayerJoinRead ++ PlayerUpdateRead(n)
    ++ ChatRead ++ ContentRead(n) ++ ChunkTransferRead(n) ++ BlockUpdateRead(n)
    ++ ChunkRead ++ PlayerQuitRead

Types == DOMAIN Written(0)
CountKinds == {"Count8", "Count16", "Count32"}

\* What the number a layout depends on may be: elements, or flags.
Numbers(type) ==
  LET head == Written(0)[type].head
  IN IF head = <<>> THEN {0}
     ELSE IF head[1] \in CountKinds THEN 0 .. MaxCount
     ELSE IF head[1] = "Flags" THEN 0 .. 15
     ELSE {0}

\* writeString throws, and so does the writer of a list counted by a uint16.
Refused(kind, n) == kind \in {"String", "Count16"} /\ n >= Short

\* Chunk::write has a uint16 for a length that no compressed chunk reaches.
SizesOf(kind) ==
  IF kind \notin DOMAIN Prefix THEN {Width[kind]}
  ELSE IF kind = "Compressed" THEN {n \in Sizes : n < Short}
  ELSE Sizes

----------------------------------------------------------------------------
VARIABLES
  phase,   \* "idle", "writing", "reading", or what an exception ended: "refused", "thrown"
  type,    \* the message's type
  number,  \* what its layout depends on: the elements or the flags it has
  out,     \* the OutMessage
  wrote,   \* the fields written, in order
  in,      \* the InMessage
  got,     \* the fields read, in order
  count,   \* the count or flags read
  sent     \* bound: messages begun

vars == <<phase, type, number, out, wrote, in, got, count, sent>>

Cell == Seq(Nat)
Item == [kind : Kinds, size : Int, value : Int]

\* Type invariant: what was written has its place in memory, which grows by whole steps,
\* and no cursor leaves its data.
TypeOK ==
  /\ phase \in {"idle", "writing", "reading", "refused", "thrown"}
  /\ type \in Types
  /\ number \in Nat
  /\ out.data \in Seq(Cell) /\ out.allocated \in Nat /\ out.cursor \in 0 .. Len(out.data)
  /\ Len(out.data) <= out.allocated
  /\ out.allocated % AllocStep = 0
  /\ in.data \in Seq(Cell) /\ in.cursor \in 0 .. Len(in.data)
  /\ wrote \in Seq(Item)
  /\ got \in Seq(Item)
  /\ count \in Nat
  /\ sent \in 0 .. MaxMessages

NewOut == [data |-> <<>>, cursor |-> 0, allocated |-> 0]

Init ==
  /\ phase = "idle"
  /\ type = "PlayerQuit"
  /\ number = 0
  /\ out = NewOut
  /\ wrote = <<>>
  /\ in = [data |-> <<>>, cursor |-> 0]
  /\ got = <<>>
  /\ count = 0
  /\ sent = 0

\* A new OutMessage, and writeToMsg's check.
Begin(t, n) ==
  /\ phase = "idle"
  /\ sent < MaxMessages
  /\ sent' = sent + 1
  /\ phase' = IF \E i \in DOMAIN Written(n)[t].head : Refused(Written(n)[t].head[i], n)
              THEN "refused" ELSE "writing"
  /\ type' = t
  /\ number' = n
  /\ out' = NewOut
  /\ wrote' = <<>>
  /\ UNCHANGED <<in, got, count>>

AllWritten == Len(wrote) = Total(Written(number)[type])

Numeric(kind) == kind \in CountKinds \cup {"Flags"}

\* One call of writeToMsg.
WriteNext ==
  /\ phase = "writing" /\ ~AllWritten
  /\ LET kind == FieldAt(Written(number)[type], Len(wrote) + 1)
     IN \E n \in SizesOf(kind) :
          LET value == IF Numeric(kind) THEN number ELSE IF n = 0 THEN 0 ELSE Len(wrote) + 1
          IN IF Refused(kind, n)
             THEN phase' = "refused" /\ UNCHANGED <<out, wrote>>
             ELSE /\ out' = WriteField(out, kind, value, n)
                  /\ wrote' = Append(wrote, [kind |-> kind, size |-> n, value |-> value])
                  /\ UNCHANGED phase
  /\ UNCHANGED <<type, number, in, got, count, sent>>

FromData_Continue(s, data) == [s EXCEPT !.data = data]

\* InMessage::fromData
FromData(s, data) == [s EXCEPT !.data = data, !.cursor = 0]

\* writeToMsg sets the type in the header, but for two.
HasType(t) == t \notin {"ModListRequest", "ModListResponse"}

\* Host::send, then Host::recv: a copy of header and data. A message that does not have
\* its type is not handled.
Send ==
  /\ phase = "writing" /\ AllWritten
  /\ in' = FromData(in, out.data)
  /\ phase' = IF HasType(type) THEN "reading" ELSE "idle"
  /\ got' = <<>>
  /\ count' = 0
  /\ UNCHANGED <<type, number, out, wrote, sent>>

AllRead == Len(got) = Total(Read(count)[type])

\* One call of readFromMsg's, or of whoever reads in its place.
ReadNext ==
  /\ phase = "reading" /\ ~AllRead
  /\ LET kind == FieldAt(Read(count)[type], Len(got) + 1)
     IN IF CanRead(in, kind)
        THEN LET item == ReadItem(in, kind)
             IN /\ got' = Append(got, item)
                /\ in' = [in EXCEPT !.cursor = @ + Ahead(kind) + item.size]
                /\ count' = IF Numeric(kind) THEN item.value ELSE count
                /\ UNCHANGED phase
        ELSE phase' = "thrown" /\ UNCHANGED <<got, in, count>>
  /\ UNCHANGED <<type, number, out, wrote, sent>>

Done ==
  /\ phase = "reading" /\ AllRead
  /\ phase' = "idle"
  /\ UNCHANGED <<type, number, out, wrote, in, got, count, sent>>

Next ==
  \/ \E t \in Types : \E n \in Numbers(t) : Begin(t, n)
  \/ WriteNext
  \/ Send
  \/ ReadNext
  \/ Done

Spec == Init /\ [][Next]_vars

----------------------------------------------------------------------------
(* Properties *)

\* A count in one byte holds it.
CountFits == wrote # <<>> /\ wrote[1].kind = "Count8" => number < Byte

\* Whose reader stops before the end.
ReadInPart == {"JoinSuccess", "JoinFailure", "Kick"}

\* The world's id, of which two bytes of four are read.
HalfRead(t, i) == t = "JoinSuccess" /\ i = 2

\* What the reader has got is what the writer put in, field for field and in order, but
\* for the world's id after a join. When it is done nothing is missing and nothing is left,
\* but for the three types whose reader stops early. So it is for every combination of
\* optional fields and lengths, after a length was filled in behind what follows it, and
\* whatever was left of the message the same InMessage was used for before. A list longer
\* than its one-byte count can say is the other exception.
ReadsBack ==
  phase = "reading" /\ CountFits =>
    /\ Len(got) <= Len(wrote)
    /\ \A i \in 1 .. Len(got) : got[i] = wrote[i] \/ HalfRead(type, i)
    /\ AllRead /\ type \notin ReadInPart => got = wrote /\ in.cursor = Len(in.data)

\* Reading throws, which nothing catches, for one message only: a list of block updates
\* with more of them than readFromMsg's index counts.
ThrowsOnlyOnLongList == phase = "thrown" => type = "Notify" /\ number >= Byte
=============================================================================
