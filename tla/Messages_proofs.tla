-------------------------- MODULE Messages_proofs --------------------------
(***************************************************************************)
(* Proofs about Messages: what the layout of each type of message is, what *)
(* one write, one field and one run of fields put at the end of a stream   *)
(* and what one read takes from it, that a message is read back from where *)
(* it was placed (MessagesInv), and the three theorems about the channel.  *)
(***************************************************************************)
EXTENDS Messages, SequenceTheorems, TLAPS

----------------------------------------------------------------------------
(* The layouts. *)

ServerInfoTypes == {"ServerInfoRequest"}
ConnectionParamTypes == {"DHKeyExchange"}
PlayerJoinTypes == {"JoinRequest", "JoinSuccess", "JoinFailure", "JoinBroadcast"}
PlayerUpdateTypes == {"Move", "Die", "Respawn"}
ChatTypes == {"ChatSend", "ChatAnnouncement", "ChatPlayerTalk"}
ContentTypes == {"ModListRequest", "ModListResponse"}
ChunkTransferTypes == {"ChunkRequest", "ChunkResponse", "ChunkDenied"}
BlockUpdateTypes == {"Notify", "Place", "Break"}
ChunkTypes == {"ChunkData"}
PlayerQuitTypes == {"PlayerQuit", "QuitBroadcast", "Kick"}
MessageTypes ==
  ServerInfoTypes \cup ConnectionParamTypes \cup PlayerJoinTypes \cup PlayerUpdateTypes
    \cup ChatTypes \cup ContentTypes \cup ChunkTransferTypes \cup BlockUpdateTypes
    \cup ChunkTypes \cup PlayerQuitTypes

(* Of a merge of the ten classes' tables, each message's entry is its class's. *)
Merges(m, f1, f2, f3, f4, f5, f6, f7, f8, f9, f10) ==
  /\ DOMAIN m = MessageTypes
  /\ \A x \in ServerInfoTypes : m[x] = f1[x]
  /\ \A x \in ConnectionParamTypes : m[x] = f2[x]
  /\ \A x \in PlayerJoinTypes : m[x] = f3[x]
  /\ \A x \in PlayerUpdateTypes : m[x] = f4[x]
  /\ \A x \in ChatTypes : m[x] = f5[x]
  /\ \A x \in ContentTypes : m[x] = f6[x]
  /\ \A x \in ChunkTransferTypes : m[x] = f7[x]
  /\ \A x \in BlockUpdateTypes : m[x] = f8[x]
  /\ \A x \in ChunkTypes : m[x] = f9[x]
  /\ \A x \in PlayerQuitTypes : m[x] = f10[x]

(* No two of the ten message classes have a message of one name. *)
LEMMA MergedClasses ==
  ASSUME NEW f1, NEW f2, NEW f3, NEW f4, NEW f5, NEW f6, NEW f7, NEW f8, NEW f9, NEW f10,
         DOMAIN f1 = ServerInfoTypes, DOMAIN f2 = ConnectionParamTypes,
         DOMAIN f3 = PlayerJoinTypes, DOMAIN f4 = PlayerUpdateTypes, DOMAIN f5 = ChatTypes,
         DOMAIN f6 = ContentTypes, DOMAIN f7 = ChunkTransferTypes,
         DOMAIN f8 = BlockUpdateTypes, DOMAIN f9 = ChunkTypes, DOMAIN f10 = PlayerQuitTypes
  PROVE  Merges(f1 ++ f2 ++ f3 ++ f4 ++ f5 ++ f6 ++ f7 ++ f8 ++ f9 ++ f10,
                f1, f2, f3, f4, f5, f6, f7, f8, f9, f10)
  <1> DEFINE D2 == ServerInfoTypes \cup ConnectionParamTypes
             D3 == D2 \cup PlayerJoinTypes
             D4 == D3 \cup PlayerUpdateTypes
             D5 == D4 \cup ChatTypes
             D6 == D5 \cup ContentTypes
             D7 == D6 \cup ChunkTransferTypes
             D8 == D7 \cup BlockUpdateTypes
             D9 == D8 \cup ChunkTypes
             m2 == f1 ++ f2
             m3 == m2 ++ f3
             m4 == m3 ++ f4
             m5 == m4 ++ f5
             m6 == m5 ++ f6
             m7 == m6 ++ f7
             m8 == m7 ++ f8
             m9 == m8 ++ f9
             m10 == m9 ++ f10
  <1>1. /\ ServerInfoTypes \cap ConnectionParamTypes = {} /\ D2 \cap PlayerJoinTypes = {}
        /\ D3 \cap PlayerUpdateTypes = {} /\ D4 \cap ChatTypes = {} /\ D5 \cap ContentTypes = {}
        /\ D6 \cap ChunkTransferTypes = {} /\ D7 \cap BlockUpdateTypes = {}
        /\ D8 \cap ChunkTypes = {} /\ D9 \cap PlayerQuitTypes = {}
    BY DEF ServerInfoTypes, ConnectionParamTypes, PlayerJoinTypes, PlayerUpdateTypes, ChatTypes,
           ContentTypes, ChunkTransferTypes, BlockUpdateTypes, ChunkTypes, PlayerQuitTypes
  <1> HIDE DEF m2, m3, m4, m5, m6, m7, m8, m9, m10
  <1>2. /\ DOMAIN m2 = ServerInfoTypes \cup ConnectionParamTypes
        /\ \A x \in ServerInfoTypes : m2[x] = f1[x]
        /\ \A x \in ConnectionParamTypes : m2[x] = f2[x]
    <2>1. DOMAIN f1 = ServerInfoTypes /\ DOMAIN f2 = ConnectionParamTypes /\ ServerInfoTypes \cap ConnectionParamTypes = {}
      BY <1>1
    <2> HIDE DEF D2
    <2>2. m2 = f1 ++ f2
      BY DEF m2
    <2> QED
      BY <2>1, <2>2 DEF ++
  <1>3. /\ DOMAIN m3 = D2 \cup PlayerJoinTypes
        /\ \A x \in D2 : m3[x] = m2[x]
        /\ \A x \in PlayerJoinTypes : m3[x] = f3[x]
    <2>1. DOMAIN m2 = D2 /\ DOMAIN f3 = PlayerJoinTypes /\ D2 \cap PlayerJoinTypes = {}
      BY <1>1, <1>2 DEF D2
    <2> HIDE DEF D2
    <2>2. m3 = m2 ++ f3
      BY DEF m3
    <2> QED
      BY <2>1, <2>2 DEF ++
  <1>4. /\ DOMAIN m4 = D3 \cup PlayerUpdateTypes
        /\ \A x \in D3 : m4[x] = m3[x]
        /\ \A x \in PlayerUpdateTypes : m4[x] = f4[x]
    <2>1. DOMAIN m3 = D3 /\ DOMAIN f4 = PlayerUpdateTypes /\ D3 \cap PlayerUpdateTypes = {}
      BY <1>1, <1>3 DEF D3
    <2> HIDE DEF D3
    <2>2. m4 = m3 ++ f4
      BY DEF m4
    <2> QED
      BY <2>1, <2>2 DEF ++
  <1>5. /\ DOMAIN m5 = D4 \cup ChatTypes
        /\ \A x \in D4 : m5[x] = m4[x]
        /\ \A x \in ChatTypes : m5[x] = f5[x]
    <2>1. DOMAIN m4 = D4 /\ DOMAIN f5 = ChatTypes /\ D4 \cap ChatTypes = {}
      BY <1>1, <1>4 DEF D4
    <2> HIDE DEF D4
    <2>2. m5 = m4 ++ f5
      BY DEF m5
    <2> QED
      BY <2>1, <2>2 DEF ++
  <1>6. /\ DOMAIN m6 = D5 \cup ContentTypes
        /\ \A x \in D5 : m6[x] = m5[x]
        /\ \A x \in ContentTypes : m6[x] = f6[x]
    <2>1. DOMAIN m5 = D5 /\ DOMAIN f6 = ContentTypes /\ D5 \cap ContentTypes = {}
      BY <1>1, <1>5 DEF D5
    <2> HIDE DEF D5
    <2>2. m6 = m5 ++ f6
      BY DEF m6
    <2> QED
      BY <2>1, <2>2 DEF ++
  <1>7. /\ DOMAIN m7 = D6 \cup ChunkTransferTypes
        /\ \A x \in D6 : m7[x] = m6[x]
        /\ \A x \in ChunkTransferTypes : m7[x] = f7[x]
    <2>1. DOMAIN m6 = D6 /\ DOMAIN f7 = ChunkTransferTypes /\ D6 \cap ChunkTransferTypes = {}
      BY <1>1, <1>6 DEF D6
    <2> HIDE DEF D6
    <2>2. m7 = m6 ++ f7
      BY DEF m7
    <2> QED
      BY <2>1, <2>2 DEF ++
  <1>8. /\ DOMAIN m8 = D7 \cup BlockUpdateTypes
        /\ \A x \in D7 : m8[x] = m7[x]
        /\ \A x \in BlockUpdateTypes : m8[x] = f8[x]
    <2>1. DOMAIN m7 = D7 /\ DOMAIN f8 = BlockUpdateTypes /\ D7 \cap BlockUpdateTypes = {}
      BY <1>1, <1>7 DEF D7
    <2> HIDE DEF D7
    <2>2. m8 = m7 ++ f8
      BY DEF m8
    <2> QED
      BY <2>1, <2>2 DEF ++
  <1>9. /\ DOMAIN m9 = D8 \cup ChunkTypes
        /\ \A x \in D8 : m9[x] = m8[x]
        /\ \A x \in ChunkTypes : m9[x] = f9[x]
    <2>1. DOMAIN m8 = D8 /\ DOMAIN f9 = ChunkTypes /\ D8 \cap ChunkTypes = {}
      BY <1>1, <1>8 DEF D8
    <2> HIDE DEF D8
    <2>2. m9 = m8 ++ f9
      BY DEF m9
    <2> QED
      BY <2>1, <2>2 DEF ++
  <1>10. /\ DOMAIN m10 = D9 \cup PlayerQuitTypes
         /\ \A x \in D9 : m10[x] = m9[x]
         /\ \A x \in PlayerQuitTypes : m10[x] = f10[x]
    <2>1. DOMAIN m9 = D9 /\ DOMAIN f10 = PlayerQuitTypes /\ D9 \cap PlayerQuitTypes = {}
      BY <1>1, <1>9, SMTT(30) DEF D9
    <2> HIDE DEF D9
    <2>2. m10 = m9 ++ f10
      BY DEF m10
    <2> QED
      BY <2>1, <2>2 DEF ++
  <1>11. /\ ServerInfoTypes \subseteq D2 /\ ConnectionParamTypes \subseteq D2
         /\ D2 \subseteq D3 /\ D3 \subseteq D4 /\ D4 \subseteq D5 /\ D5 \subseteq D6
         /\ D6 \subseteq D7 /\ D7 \subseteq D8 /\ D8 \subseteq D9
         /\ PlayerJoinTypes \subseteq D3 /\ PlayerUpdateTypes \subseteq D4 /\ ChatTypes \subseteq D5
         /\ ContentTypes \subseteq D6 /\ ChunkTransferTypes \subseteq D7
         /\ BlockUpdateTypes \subseteq D8 /\ ChunkTypes \subseteq D9
    BY DEF D2, D3, D4, D5, D6, D7, D8, D9
  <1>12. \A x \in D2 : m10[x] = m2[x]
    <2>1. \A x \in D2 : m6[x] = m2[x]
      BY <1>3, <1>4, <1>5, <1>6, <1>11
    <2>2. \A x \in D6 : m10[x] = m6[x]
      BY <1>7, <1>8, <1>9, <1>10, <1>11
    <2> QED
      BY <2>1, <2>2, <1>11
  <1>13. \A x \in PlayerJoinTypes : m10[x] = f3[x]
    <2>1. \A x \in PlayerJoinTypes : m6[x] = f3[x]
      BY <1>3, <1>4, <1>5, <1>6, <1>11
    <2>2. \A x \in D6 : m10[x] = m6[x]
      BY <1>7, <1>8, <1>9, <1>10, <1>11
    <2> QED
      BY <2>1, <2>2, <1>11
  <1>14. \A x \in PlayerUpdateTypes : m10[x] = f4[x]
    BY <1>4, <1>5, <1>6, <1>7, <1>8, <1>9, <1>10, <1>11
  <1>15. /\ \A x \in ChatTypes : m10[x] = f5[x]
         /\ \A x \in ContentTypes : m10[x] = f6[x]
    BY <1>5, <1>6, <1>7, <1>8, <1>9, <1>10, <1>11
  <1>16. /\ \A x \in ChunkTransferTypes : m10[x] = f7[x]
         /\ \A x \in BlockUpdateTypes : m10[x] = f8[x]
         /\ \A x \in ChunkTypes : m10[x] = f9[x]
    BY <1>7, <1>8, <1>9, <1>10, <1>11
  <1>17. /\ \A x \in ServerInfoTypes : m10[x] = f1[x]
         /\ \A x \in ConnectionParamTypes : m10[x] = f2[x]
    BY <1>2, <1>11, <1>12
  <1>18. DOMAIN m10 = MessageTypes
    BY <1>10 DEF MessageTypes, D2, D3, D4, D5, D6, D7, D8, D9
  <1> QED
    <2>1. Merges(m10, f1, f2, f3, f4, f5, f6, f7, f8, f9, f10)
      BY <1>10, <1>13, <1>14, <1>15, <1>16, <1>17, <1>18 DEF Merges
    <2> QED
      BY <2>1, Zenon DEF m2, m3, m4, m5, m6, m7, m8, m9, m10

(* Every message's layout, as writeToMsg has it. *)
LEMMA WrittenLayouts ==
  ASSUME NEW n
  PROVE  /\ DOMAIN Written(n) = MessageTypes
         /\ Written(n)["ServerInfoRequest"] = Counted("Count16", n, <<"String">>, <<"Pack">>)
         /\ Written(n)["DHKeyExchange"] = Plain(<<"Key">>)
         /\ Written(n)["JoinRequest"] = Plain(<<"String">>)
         /\ Written(n)["JoinSuccess"] = Plain(<<"U32", "I32">>)
         /\ Written(n)["JoinFailure"] = Plain(<<"U8">>)
         /\ Written(n)["JoinBroadcast"] = Plain(<<"U8", "String", "U32", "I32">>)
         /\ Written(n)["Move"] = Plain(MoveFields(n))
         /\ Written(n)["Die"] = Plain(<<"U32">>)
         /\ Written(n)["Respawn"] = Plain(<<"U32">>)
         /\ Written(n)["ChatSend"] = Plain(<<"Pack">>)
         /\ Written(n)["ChatAnnouncement"] = Plain(<<"String", "String", "Pack", "Pack">>)
         /\ Written(n)["ChatPlayerTalk"] = Plain(<<"U32", "Pack", "Pack">>)
         /\ Written(n)["ModListRequest"] = Plain(<<>>)
         /\ Written(n)["ModListResponse"] = Counted("Count32", n, <<"ModId">>, <<>>)
         /\ Written(n)["ChunkRequest"] = Counted("Count8", n, <<"I32", "IVec3">>, <<>>)
         /\ Written(n)["ChunkResponse"] = Counted("Count8", n, <<"I32", "IVec3", "Chunk">>, <<>>)
         /\ Written(n)["ChunkDenied"] = Plain(<<"U8">>)
         /\ Written(n)["Notify"] = Counted("Count16", n, Update, <<>>)
         /\ Written(n)["Place"] = Plain(<<"I32", "IVec3", "U16", "U16", "Pack">>)
         /\ Written(n)["Break"] = Plain(<<"I32", "IVec3">>)
         /\ Written(n)["ChunkData"] = Plain(<<"Compressed", "U32">>)
         /\ Written(n)["PlayerQuit"] = Plain(<<>>)
         /\ Written(n)["QuitBroadcast"] = Plain(<<"U32">>)
         /\ Written(n)["Kick"] = Plain(<<"U32", "String">>)
  <1>1. /\ DOMAIN ServerInfoWritten(n) = ServerInfoTypes
        /\ DOMAIN ConnectionParamWritten = ConnectionParamTypes
        /\ DOMAIN PlayerJoinWritten = PlayerJoinTypes
        /\ DOMAIN PlayerUpdateWritten(n) = PlayerUpdateTypes
        /\ DOMAIN ChatWritten = ChatTypes
        /\ DOMAIN ContentWritten(n) = ContentTypes
        /\ DOMAIN ChunkTransferWritten(n) = ChunkTransferTypes
        /\ DOMAIN BlockUpdateWritten(n) = BlockUpdateTypes
        /\ DOMAIN ChunkWritten = ChunkTypes
        /\ DOMAIN PlayerQuitWritten = PlayerQuitTypes
    BY DEF ServerInfoWritten, ConnectionParamWritten, PlayerJoinWritten, PlayerUpdateWritten, ChatWritten,
           ContentWritten, ChunkTransferWritten, BlockUpdateWritten, ChunkWritten, PlayerQuitWritten,
           ServerInfoTypes, ConnectionParamTypes, PlayerJoinTypes, PlayerUpdateTypes, ChatTypes,
           ContentTypes, ChunkTransferTypes, BlockUpdateTypes, ChunkTypes, PlayerQuitTypes
  <1> DEFINE m == ServerInfoWritten(n) ++ ConnectionParamWritten ++ PlayerJoinWritten ++ PlayerUpdateWritten(n) ++ ChatWritten
                    ++ ContentWritten(n) ++ ChunkTransferWritten(n) ++ BlockUpdateWritten(n) ++ ChunkWritten ++ PlayerQuitWritten
  <1>M. Merges(m, ServerInfoWritten(n), ConnectionParamWritten, PlayerJoinWritten, PlayerUpdateWritten(n), ChatWritten,
                ContentWritten(n), ChunkTransferWritten(n), BlockUpdateWritten(n), ChunkWritten, PlayerQuitWritten)
    BY <1>1, MergedClasses, Zenon
  <1>3. Written(n) = m
    BY DEF Written
  <1> HIDE DEF m
  <1>2. /\ DOMAIN m = MessageTypes
        /\ \A x \in ServerInfoTypes : m[x] = ServerInfoWritten(n)[x]
        /\ \A x \in ConnectionParamTypes : m[x] = ConnectionParamWritten[x]
        /\ \A x \in PlayerJoinTypes : m[x] = PlayerJoinWritten[x]
        /\ \A x \in PlayerUpdateTypes : m[x] = PlayerUpdateWritten(n)[x]
        /\ \A x \in ChatTypes : m[x] = ChatWritten[x]
        /\ \A x \in ContentTypes : m[x] = ContentWritten(n)[x]
        /\ \A x \in ChunkTransferTypes : m[x] = ChunkTransferWritten(n)[x]
        /\ \A x \in BlockUpdateTypes : m[x] = BlockUpdateWritten(n)[x]
        /\ \A x \in ChunkTypes : m[x] = ChunkWritten[x]
        /\ \A x \in PlayerQuitTypes : m[x] = PlayerQuitWritten[x]
    BY <1>M, Zenon DEF Merges
  <1>4. m["ServerInfoRequest"] = Counted("Count16", n, <<"String">>, <<"Pack">>)
    <2>1. "ServerInfoRequest" \in ServerInfoTypes
      BY DEF ServerInfoTypes
    <2>2. /\ m["ServerInfoRequest"] = ServerInfoWritten(n)["ServerInfoRequest"]
      BY <2>1, <1>2
    <2> QED
      BY <2>2 DEF ServerInfoWritten
  <1>5. m["DHKeyExchange"] = Plain(<<"Key">>)
    <2>1. "DHKeyExchange" \in ConnectionParamTypes
      BY DEF ConnectionParamTypes
    <2>2. /\ m["DHKeyExchange"] = ConnectionParamWritten["DHKeyExchange"]
      BY <2>1, <1>2
    <2> QED
      BY <2>2 DEF ConnectionParamWritten
  <1>6. /\ m["JoinRequest"] = Plain(<<"String">>)
        /\ m["JoinSuccess"] = Plain(<<"U32", "I32">>)
        /\ m["JoinFailure"] = Plain(<<"U8">>)
        /\ m["JoinBroadcast"] = Plain(<<"U8", "String", "U32", "I32">>)
    <2>1. "JoinRequest" \in PlayerJoinTypes /\ "JoinSuccess" \in PlayerJoinTypes /\ "JoinFailure" \in PlayerJoinTypes /\ "JoinBroadcast" \in PlayerJoinTypes
      BY DEF PlayerJoinTypes
    <2>2. /\ m["JoinRequest"] = PlayerJoinWritten["JoinRequest"]
          /\ m["JoinSuccess"] = PlayerJoinWritten["JoinSuccess"]
          /\ m["JoinFailure"] = PlayerJoinWritten["JoinFailure"]
          /\ m["JoinBroadcast"] = PlayerJoinWritten["JoinBroadcast"]
      BY <2>1, <1>2
    <2> QED
      BY <2>2 DEF PlayerJoinWritten
  <1>7. /\ m["Move"] = Plain(MoveFields(n))
        /\ m["Die"] = Plain(<<"U32">>)
        /\ m["Respawn"] = Plain(<<"U32">>)
    <2>1. "Move" \in PlayerUpdateTypes /\ "Die" \in PlayerUpdateTypes /\ "Respawn" \in PlayerUpdateTypes
      BY DEF PlayerUpdateTypes
    <2>2. /\ m["Move"] = PlayerUpdateWritten(n)["Move"]
          /\ m["Die"] = PlayerUpdateWritten(n)["Die"]
          /\ m["Respawn"] = PlayerUpdateWritten(n)["Respawn"]
      BY <2>1, <1>2
    <2> QED
      BY <2>2 DEF PlayerUpdateWritten
  <1>8. /\ m["ChatSend"] = Plain(<<"Pack">>)
        /\ m["ChatAnnouncement"] = Plain(<<"String", "String", "Pack", "Pack">>)
        /\ m["ChatPlayerTalk"] = Plain(<<"U32", "Pack", "Pack">>)
    <2>1. "ChatSend" \in ChatTypes /\ "ChatAnnouncement" \in ChatTypes /\ "ChatPlayerTalk" \in ChatTypes
      BY DEF ChatTypes
    <2>2. /\ m["ChatSend"] = ChatWritten["ChatSend"]
          /\ m["ChatAnnouncement"] = ChatWritten["ChatAnnouncement"]
          /\ m["ChatPlayerTalk"] = ChatWritten["ChatPlayerTalk"]
      BY <2>1, <1>2
    <2> QED
      BY <2>2 DEF ChatWritten
  <1>9. /\ m["ModListRequest"] = Plain(<<>>)
        /\ m["ModListResponse"] = Counted("Count32", n, <<"ModId">>, <<>>)
    <2>1. "ModListRequest" \in ContentTypes /\ "ModListResponse" \in ContentTypes
      BY DEF ContentTypes
    <2>2. /\ m["ModListRequest"] = ContentWritten(n)["ModListRequest"]
          /\ m["ModListResponse"] = ContentWritten(n)["ModListResponse"]
      BY <2>1, <1>2
    <2> QED
      BY <2>2 DEF ContentWritten
  <1>10. /\ m["ChunkRequest"] = Counted("Count8", n, <<"I32", "IVec3">>, <<>>)
         /\ m["ChunkResponse"] = Counted("Count8", n, <<"I32", "IVec3", "Chunk">>, <<>>)
         /\ m["ChunkDenied"] = Plain(<<"U8">>)
    <2>1. "ChunkRequest" \in ChunkTransferTypes /\ "ChunkResponse" \in ChunkTransferTypes /\ "ChunkDenied" \in ChunkTransferTypes
      BY DEF ChunkTransferTypes
    <2>2. /\ m["ChunkRequest"] = ChunkTransferWritten(n)["ChunkRequest"]
          /\ m["ChunkResponse"] = ChunkTransferWritten(n)["ChunkResponse"]
          /\ m["ChunkDenied"] = ChunkTransferWritten(n)["ChunkDenied"]
      BY <2>1, <1>2
    <2> QED
      BY <2>2 DEF ChunkTransferWritten
  <1>11. /\ m["Notify"] = Counted("Count16", n, Update, <<>>)
         /\ m["Place"] = Plain(<<"I32", "IVec3", "U16", "U16", "Pack">>)
         /\ m["Break"] = Plain(<<"I32", "IVec3">>)
    <2>1. "Notify" \in BlockUpdateTypes /\ "Place" \in BlockUpdateTypes /\ "Break" \in BlockUpdateTypes
      BY DEF BlockUpdateTypes
    <2>2. /\ m["Notify"] = BlockUpdateWritten(n)["Notify"]
          /\ m["Place"] = BlockUpdateWritten(n)["Place"]
          /\ m["Break"] = BlockUpdateWritten(n)["Break"]
      BY <2>1, <1>2
    <2> QED
      BY <2>2 DEF BlockUpdateWritten
  <1>12. m["ChunkData"] = Plain(<<"Compressed", "U32">>)
    <2>1. "ChunkData" \in ChunkTypes
      BY DEF ChunkTypes
    <2>2. /\ m["ChunkData"] = ChunkWritten["ChunkData"]
      BY <2>1, <1>2
    <2> QED
      BY <2>2 DEF ChunkWritten
  <1>13. /\ m["PlayerQuit"] = Plain(<<>>)
         /\ m["QuitBroadcast"] = Plain(<<"U32">>)
         /\ m["Kick"] = Plain(<<"U32", "String">>)
    <2>1. /\ "PlayerQuit" \in PlayerQuitTypes /\ "QuitBroadcast" \in PlayerQuitTypes
          /\ "Kick" \in PlayerQuitTypes
      BY DEF PlayerQuitTypes
    <2>2. /\ m["PlayerQuit"] = PlayerQuitWritten["PlayerQuit"]
          /\ m["QuitBroadcast"] = PlayerQuitWritten["QuitBroadcast"]
          /\ m["Kick"] = PlayerQuitWritten["Kick"]
      BY <2>1, <1>2
    <2> QED
      BY <2>2 DEF PlayerQuitWritten
  <1> QED
    BY <1>2, <1>3, <1>4, <1>5, <1>6, <1>7, <1>8, <1>9, <1>10, <1>11, <1>12, <1>13

(* Every message's layout, as readFromMsg has it. *)
LEMMA ReadLayouts ==
  ASSUME NEW n
  PROVE  /\ DOMAIN Read(n) = MessageTypes
         /\ Read(n)["ServerInfoRequest"] = Counted("Count16", n, <<"String">>, <<"Pack">>)
         /\ Read(n)["DHKeyExchange"] = Plain(<<"Key">>)
         /\ Read(n)["JoinRequest"] = Plain(<<"String">>)
         /\ Read(n)["JoinSuccess"] = Plain(<<"U32", "I16">>)
         /\ Read(n)["JoinFailure"] = Plain(<<>>)
         /\ Read(n)["JoinBroadcast"] = Plain(<<"U8", "String", "U32", "I32">>)
         /\ Read(n)["Move"] = Plain(MoveFields(n))
         /\ Read(n)["Die"] = Plain(<<"U32">>)
         /\ Read(n)["Respawn"] = Plain(<<"U32">>)
         /\ Read(n)["ChatSend"] = Plain(<<"Pack">>)
         /\ Read(n)["ChatAnnouncement"] = Plain(<<"String", "String", "Pack", "Pack">>)
         /\ Read(n)["ChatPlayerTalk"] = Plain(<<"U32", "Pack", "Pack">>)
         /\ Read(n)["ModListRequest"] = Plain(<<>>)
         /\ Read(n)["ModListResponse"] = Counted("Count32", n, <<"ModId">>, <<>>)
         /\ Read(n)["ChunkRequest"] = Counted("Count8", n, <<"I32", "IVec3">>, <<>>)
         /\ Read(n)["ChunkResponse"] = Counted("Count8", n, <<"I32", "IVec3", "Chunk">>, <<>>)
         /\ Read(n)["ChunkDenied"] = Plain(<<"U8">>)
         /\ Read(n)["Notify"] = Counted("Count16", IF n < Byte THEN n ELSE MaxCount + 1, Update, <<>>)
         /\ Read(n)["Place"] = Plain(<<"I32", "IVec3", "U16", "U16", "Pack">>)
         /\ Read(n)["Break"] = Plain(<<"I32", "IVec3">>)
         /\ Read(n)["ChunkData"] = Plain(<<"Compressed", "U32">>)
         /\ Read(n)["PlayerQuit"] = Plain(<<>>)
         /\ Read(n)["QuitBroadcast"] = Plain(<<"U32">>)
         /\ Read(n)["Kick"] = Plain(<<"U32">>)
  <1>1. /\ DOMAIN ServerInfoRead(n) = ServerInfoTypes
        /\ DOMAIN ConnectionParamRead = ConnectionParamTypes
        /\ DOMAIN PlayerJoinRead = PlayerJoinTypes
        /\ DOMAIN PlayerUpdateRead(n) = PlayerUpdateTypes
        /\ DOMAIN ChatRead = ChatTypes
        /\ DOMAIN ContentRead(n) = ContentTypes
        /\ DOMAIN ChunkTransferRead(n) = ChunkTransferTypes
        /\ DOMAIN BlockUpdateRead(n) = BlockUpdateTypes
        /\ DOMAIN ChunkRead = ChunkTypes
        /\ DOMAIN PlayerQuitRead = PlayerQuitTypes
    BY DEF ServerInfoRead, ConnectionParamRead, PlayerJoinRead, PlayerUpdateRead, ChatRead,
           ContentRead, ChunkTransferRead, BlockUpdateRead, ChunkRead, PlayerQuitRead,
           ServerInfoTypes, ConnectionParamTypes, PlayerJoinTypes, PlayerUpdateTypes, ChatTypes,
           ContentTypes, ChunkTransferTypes, BlockUpdateTypes, ChunkTypes, PlayerQuitTypes
  <1> DEFINE m == ServerInfoRead(n) ++ ConnectionParamRead ++ PlayerJoinRead ++ PlayerUpdateRead(n) ++ ChatRead
                    ++ ContentRead(n) ++ ChunkTransferRead(n) ++ BlockUpdateRead(n) ++ ChunkRead ++ PlayerQuitRead
  <1>M. Merges(m, ServerInfoRead(n), ConnectionParamRead, PlayerJoinRead, PlayerUpdateRead(n), ChatRead,
                ContentRead(n), ChunkTransferRead(n), BlockUpdateRead(n), ChunkRead, PlayerQuitRead)
    BY <1>1, MergedClasses, Zenon
  <1>3. Read(n) = m
    BY DEF Read
  <1> HIDE DEF m
  <1>2. /\ DOMAIN m = MessageTypes
        /\ \A x \in ServerInfoTypes : m[x] = ServerInfoRead(n)[x]
        /\ \A x \in ConnectionParamTypes : m[x] = ConnectionParamRead[x]
        /\ \A x \in PlayerJoinTypes : m[x] = PlayerJoinRead[x]
        /\ \A x \in PlayerUpdateTypes : m[x] = PlayerUpdateRead(n)[x]
        /\ \A x \in ChatTypes : m[x] = ChatRead[x]
        /\ \A x \in ContentTypes : m[x] = ContentRead(n)[x]
        /\ \A x \in ChunkTransferTypes : m[x] = ChunkTransferRead(n)[x]
        /\ \A x \in BlockUpdateTypes : m[x] = BlockUpdateRead(n)[x]
        /\ \A x \in ChunkTypes : m[x] = ChunkRead[x]
        /\ \A x \in PlayerQuitTypes : m[x] = PlayerQuitRead[x]
    BY <1>M, Zenon DEF Merges
  <1>4. m["ServerInfoRequest"] = Counted("Count16", n, <<"String">>, <<"Pack">>)
    <2>1. "ServerInfoRequest" \in ServerInfoTypes
      BY DEF ServerInfoTypes
    <2>2. /\ m["ServerInfoRequest"] = ServerInfoRead(n)["ServerInfoRequest"]
      BY <2>1, <1>2
    <2> QED
      BY <2>2 DEF ServerInfoRead
  <1>5. m["DHKeyExchange"] = Plain(<<"Key">>)
    <2>1. "DHKeyExchange" \in ConnectionParamTypes
      BY DEF ConnectionParamTypes
    <2>2. /\ m["DHKeyExchange"] = ConnectionParamRead["DHKeyExchange"]
      BY <2>1, <1>2
    <2> QED
      BY <2>2 DEF ConnectionParamRead
  <1>6. /\ m["JoinRequest"] = Plain(<<"String">>)
        /\ m["JoinSuccess"] = Plain(<<"U32", "I16">>)
        /\ m["JoinFailure"] = Plain(<<>>)
        /\ m["JoinBroadcast"] = Plain(<<"U8", "String", "U32", "I32">>)
    <2>1. "JoinRequest" \in PlayerJoinTypes /\ "JoinSuccess" \in PlayerJoinTypes /\ "JoinFailure" \in PlayerJoinTypes /\ "JoinBroadcast" \in PlayerJoinTypes
      BY DEF PlayerJoinTypes
    <2>2. /\ m["JoinRequest"] = PlayerJoinRead["JoinRequest"]
          /\ m["JoinSuccess"] = PlayerJoinRead["JoinSuccess"]
          /\ m["JoinFailure"] = PlayerJoinRead["JoinFailure"]
          /\ m["JoinBroadcast"] = PlayerJoinRead["JoinBroadcast"]
      BY <2>1, <1>2
    <2> QED
      BY <2>2 DEF PlayerJoinRead
  <1>7. /\ m["Move"] = Plain(MoveFields(n))
        /\ m["Die"] = Plain(<<"U32">>)
        /\ m["Respawn"] = Plain(<<"U32">>)
    <2>1. "Move" \in PlayerUpdateTypes /\ "Die" \in PlayerUpdateTypes /\ "Respawn" \in PlayerUpdateTypes
      BY DEF PlayerUpdateTypes
    <2>2. /\ m["Move"] = PlayerUpdateRead(n)["Move"]
          /\ m["Die"] = PlayerUpdateRead(n)["Die"]
          /\ m["Respawn"] = PlayerUpdateRead(n)["Respawn"]
      BY <2>1, <1>2
    <2> QED
      BY <2>2 DEF PlayerUpdateRead
  <1>8. /\ m["ChatSend"] = Plain(<<"Pack">>)
        /\ m["ChatAnnouncement"] = Plain(<<"String", "String", "Pack", "Pack">>)
        /\ m["ChatPlayerTalk"] = Plain(<<"U32", "Pack", "Pack">>)
    <2>1. "ChatSend" \in ChatTypes /\ "ChatAnnouncement" \in ChatTypes /\ "ChatPlayerTalk" \in ChatTypes
      BY DEF ChatTypes
    <2>2. /\ m["ChatSend"] = ChatRead["ChatSend"]
          /\ m["ChatAnnouncement"] = ChatRead["ChatAnnouncement"]
          /\ m["ChatPlayerTalk"] = ChatRead["ChatPlayerTalk"]
      BY <2>1, <1>2
    <2> QED
      BY <2>2 DEF ChatRead
  <1>9. /\ m["ModListRequest"] = Plain(<<>>)
        /\ m["ModListResponse"] = Counted("Count32", n, <<"ModId">>, <<>>)
    <2>1. "ModListRequest" \in ContentTypes /\ "ModListResponse" \in ContentTypes
      BY DEF ContentTypes
    <2>2. /\ m["ModListRequest"] = ContentRead(n)["ModListRequest"]
          /\ m["ModListResponse"] = ContentRead(n)["ModListResponse"]
      BY <2>1, <1>2
    <2> QED
      BY <2>2 DEF ContentRead
  <1>10. /\ m["ChunkRequest"] = Counted("Count8", n, <<"I32", "IVec3">>, <<>>)
         /\ m["ChunkResponse"] = Counted("Count8", n, <<"I32", "IVec3", "Chunk">>, <<>>)
         /\ m["ChunkDenied"] = Plain(<<"U8">>)
    <2>1. "ChunkRequest" \in ChunkTransferTypes /\ "ChunkResponse" \in ChunkTransferTypes /\ "ChunkDenied" \in ChunkTransferTypes
      BY DEF ChunkTransferTypes
    <2>2. /\ m["ChunkRequest"] = ChunkTransferRead(n)["ChunkRequest"]
          /\ m["ChunkResponse"] = ChunkTransferRead(n)["ChunkResponse"]
          /\ m["ChunkDenied"] = ChunkTransferRead(n)["ChunkDenied"]
      BY <2>1, <1>2
    <2> QED
      BY <2>2 DEF ChunkTransferRead
  <1>11. /\ m["Notify"] = Counted("Count16", IF n < Byte THEN n ELSE MaxCount + 1, Update, <<>>)
         /\ m["Place"] = Plain(<<"I32", "IVec3", "U16", "U16", "Pack">>)
         /\ m["Break"] = Plain(<<"I32", "IVec3">>)
    <2>1. "Notify" \in BlockUpdateTypes /\ "Place" \in BlockUpdateTypes /\ "Break" \in BlockUpdateTypes
      BY DEF BlockUpdateTypes
    <2>2. /\ m["Notify"] = BlockUpdateRead(n)["Notify"]
          /\ m["Place"] = BlockUpdateRead(n)["Place"]
          /\ m["Break"] = BlockUpdateRead(n)["Break"]
      BY <2>1, <1>2
    <2> QED
      BY <2>2 DEF BlockUpdateRead
  <1>12. m["ChunkData"] = Plain(<<"Compressed", "U32">>)
    <2>1. "ChunkData" \in ChunkTypes
      BY DEF ChunkTypes
    <2>2. /\ m["ChunkData"] = ChunkRead["ChunkData"]
      BY <2>1, <1>2
    <2> QED
      BY <2>2 DEF ChunkRead
  <1>13. /\ m["PlayerQuit"] = Plain(<<>>)
         /\ m["QuitBroadcast"] = Plain(<<"U32">>)
         /\ m["Kick"] = Plain(<<"U32">>)
    <2>1. /\ "PlayerQuit" \in PlayerQuitTypes /\ "QuitBroadcast" \in PlayerQuitTypes
          /\ "Kick" \in PlayerQuitTypes
      BY DEF PlayerQuitTypes
    <2>2. /\ m["PlayerQuit"] = PlayerQuitRead["PlayerQuit"]
          /\ m["QuitBroadcast"] = PlayerQuitRead["QuitBroadcast"]
          /\ m["Kick"] = PlayerQuitRead["Kick"]
      BY <2>1, <1>2
    <2> QED
      BY <2>2 DEF PlayerQuitRead
  <1> QED
    BY <1>2, <1>3, <1>4, <1>5, <1>6, <1>7, <1>8, <1>9, <1>10, <1>11, <1>12, <1>13

----------------------------------------------------------------------------
(* The fields of a layout. *)

(* The kinds no count or flags are read from. *)
ValueKinds == {"U8", "U16", "I16", "U32", "I32", "Float", "Vec3", "IVec3", "Key", "ModId",
               "String", "Pack", "Chunk", "Compressed"}

LEMMA KindsAre ==
  /\ Kinds = ValueKinds \cup CountKinds \cup {"Flags"}
  /\ \A kind \in ValueKinds : ~Numeric(kind)
  /\ \A kind \in Kinds : Numeric(kind) => kind \notin DOMAIN Prefix
  /\ DOMAIN Prefix = {"String", "Pack", "Chunk", "Compressed"}
  /\ \A kind \in DOMAIN Prefix : Prefix[kind] \in Nat \ {0}
  /\ \A kind \in Kinds \ DOMAIN Prefix : Width[kind] \in Nat \ {0}
  BY MessagesAssumption DEF Kinds, ValueKinds, CountKinds, Numeric, Prefix, Width

LEMMA PlainLayout ==
  ASSUME NEW s \in Seq(Kinds)
  PROVE  /\ Total(Plain(s)) = Len(s)
         /\ Len(s) \in Nat
         /\ \A k \in 1 .. Len(s) : FieldAt(Plain(s), k) = s[k]
  <1>1. /\ Plain(s).head = s /\ Plain(s).rounds = 0 /\ Len(Plain(s).elem) = 0
        /\ Len(Plain(s).tail) = 0 /\ Len(s) \in Nat
    BY DEF Plain
  <1> QED
    BY <1>1 DEF Total, FieldAt

LEMMA ProductTypes ==
  ASSUME NEW a \in Nat, NEW b \in Nat, a <= b, NEW e \in Nat
  PROVE  a * e \in Nat /\ b * e \in Nat /\ a * e <= b * e
  BY SMT

LEMMA RemainderBounds ==
  ASSUME NEW a \in Nat, NEW e \in Nat \ {0}
  PROVE  a % e \in 0 .. e - 1
  BY SMT

(* A layout of a count, that many elements and a tail. *)
IsCounted(l, kind, n, elem, tail) ==
  /\ n * Len(elem) \in Nat
  /\ Total(l) = 1 + n * Len(elem) + Len(tail)
  /\ FieldAt(l, 1) = kind
  /\ \A k \in 2 .. 1 + n * Len(elem) :
       /\ ((k - 2) % Len(elem)) + 1 \in 1 .. Len(elem)
       /\ FieldAt(l, k) = elem[((k - 2) % Len(elem)) + 1]
  /\ \A k \in 2 + n * Len(elem) .. 1 + n * Len(elem) + Len(tail) :
       FieldAt(l, k) = tail[k - 1 - n * Len(elem)]

LEMMA CountedLayout ==
  ASSUME NEW kind \in Kinds, NEW n \in Nat, NEW elem \in Seq(Kinds), Len(elem) # 0,
         NEW tail \in Seq(Kinds)
  PROVE  IsCounted(Counted(kind, n, elem, tail), kind, n, elem, tail)
  <1> DEFINE l == Counted(kind, n, elem, tail)
  <1>1. /\ l.head = <<kind>> /\ l.rounds = n /\ l.elem = elem /\ l.tail = tail
        /\ Len(l.head) = 1 /\ Len(elem) \in Nat \ {0} /\ Len(tail) \in Nat
        /\ l.head[1] = kind
    BY DEF Counted
  <1> HIDE DEF l
  <1>2. n * Len(elem) \in Nat
    BY <1>1, ProductTypes
  <1>3. PICK p \in Nat : p = n * Len(elem)
    BY <1>2
  <1>4. Total(l) = 1 + p + Len(tail)
    BY <1>1, <1>3 DEF Total
  <1>5. \A k \in Int : FieldAt(l, k) = IF k <= 1 THEN l.head[k]
                                       ELSE IF k <= 1 + p THEN elem[((k - 2) % Len(elem)) + 1]
                                       ELSE tail[k - 1 - p]
    <2> TAKE k \in Int
    <2>1. k - Len(l.head) - 1 = k - 2 /\ k - Len(l.head) - l.rounds * Len(l.elem) = k - 1 - p
      BY <1>1, <1>3
    <2> QED
      BY <2>1, <1>1, <1>3 DEF FieldAt
  <1>6. \A k \in 2 .. 1 + p : ((k - 2) % Len(elem)) + 1 \in 1 .. Len(elem)
    <2> TAKE k \in 2 .. 1 + p
    <2>1. k - 2 \in Nat /\ Len(elem) \in Nat \ {0}
      BY <1>1
    <2>2. (k - 2) % Len(elem) \in 0 .. Len(elem) - 1
      BY <2>1, RemainderBounds
    <2> QED
      BY <2>2, <1>1
  <1>7. FieldAt(l, 1) = kind
    BY <1>1, <1>5
  <1>8. \A k \in 2 .. 1 + p : FieldAt(l, k) = elem[((k - 2) % Len(elem)) + 1]
    BY <1>5
  <1>9. \A k \in 2 + p .. 1 + p + Len(tail) : FieldAt(l, k) = tail[k - 1 - p]
    BY <1>1, <1>5
  <1>10. IsCounted(l, kind, n, elem, tail)
    BY <1>2, <1>3, <1>4, <1>6, <1>7, <1>8, <1>9 DEF IsCounted
  <1> QED
    BY <1>10 DEF l

(* A layout has kinds for fields, and only its first is a count or flags. *)
FieldsTyped(l) ==
  /\ Total(l) \in Nat
  /\ \A k \in 1 .. Total(l) : FieldAt(l, k) \in Kinds /\ (Numeric(FieldAt(l, k)) => k = 1)

LEMMA PlainTyped ==
  ASSUME NEW s \in Seq(Kinds), \A i \in 2 .. Len(s) : ~Numeric(s[i])
  PROVE  FieldsTyped(Plain(s))
  <1>1. \A i \in 1 .. Len(s) : s[i] \in Kinds
    BY ElementOfSeq
  <1> QED
    BY <1>1, PlainLayout DEF FieldsTyped

LEMMA CountedTyped ==
  ASSUME NEW kind \in Kinds, NEW n \in Nat, NEW elem \in Seq(ValueKinds), Len(elem) # 0,
         NEW tail \in Seq(ValueKinds)
  PROVE  FieldsTyped(Counted(kind, n, elem, tail))
  <1> DEFINE l == Counted(kind, n, elem, tail)
             p == n * Len(elem)
  <1>1. ValueKinds \subseteq Kinds /\ \A x \in ValueKinds : ~Numeric(x)
    BY KindsAre
  <1>2. elem \in Seq(Kinds) /\ tail \in Seq(Kinds)
    BY <1>1, SeqMonotonic
  <1>3. /\ p \in Nat
        /\ Total(l) = 1 + p + Len(tail)
        /\ FieldAt(l, 1) = kind
        /\ \A k \in 2 .. 1 + p : /\ ((k - 2) % Len(elem)) + 1 \in 1 .. Len(elem)
                                 /\ FieldAt(l, k) = elem[((k - 2) % Len(elem)) + 1]
        /\ \A k \in 2 + p .. 1 + p + Len(tail) : FieldAt(l, k) = tail[k - 1 - p]
    <2>1. IsCounted(l, kind, n, elem, tail)
      BY <1>2, CountedLayout
    <2> HIDE DEF l
    <2> QED
      BY <2>1 DEF IsCounted
  <1> HIDE DEF l, p
  <1>4. Len(tail) \in Nat
    BY LenProperties
  <1>5. \A k \in 2 .. 1 + p : FieldAt(l, k) \in ValueKinds
    BY <1>3, ElementOfSeq
  <1>6. \A k \in 2 + p .. 1 + p + Len(tail) : FieldAt(l, k) \in ValueKinds
    <2> TAKE k \in 2 + p .. 1 + p + Len(tail)
    <2>1. k - 1 - p \in 1 .. Len(tail)
      BY <1>3, <1>4
    <2> QED
      BY <2>1, <1>3, ElementOfSeq
  <1>7. \A k \in 1 .. Total(l) : k = 1 \/ k \in 2 .. 1 + p \/ k \in 2 + p .. 1 + p + Len(tail)
    BY <1>3, <1>4
  <1>8. \A k \in 1 .. Total(l) : k = 1 \/ FieldAt(l, k) \in ValueKinds
    BY <1>5, <1>6, <1>7
  <1>9. Total(l) \in Nat
    BY <1>3, <1>4
  <1>10. FieldsTyped(l)
    BY <1>1, <1>3, <1>8, <1>9 DEF FieldsTyped
  <1> QED
    BY <1>10 DEF l

(* What is counted alike has the same fields, as far as the shorter one goes. *)
LEMMA CountedPrefix ==
  ASSUME NEW kind \in Kinds, NEW elem \in Seq(Kinds), Len(elem) # 0,
         NEW a \in Nat, NEW b \in Nat, a <= b
  PROVE  LET la == Counted(kind, a, elem, <<>>)
             lb == Counted(kind, b, elem, <<>>)
         IN /\ Total(la) \in Nat \ {0} /\ Total(lb) \in Nat \ {0} /\ Total(la) <= Total(lb)
            /\ a < b => Total(la) < Total(lb)
            /\ \A k \in 1 .. Total(la) : FieldAt(la, k) = FieldAt(lb, k)
  <1> DEFINE la == Counted(kind, a, elem, <<>>)
             lb == Counted(kind, b, elem, <<>>)
             pa == a * Len(elem)
             pb == b * Len(elem)
  <1>1. <<>> \in Seq(Kinds) /\ Len(<<>>) = 0
    OBVIOUS
  <1>2. /\ pa \in Nat
        /\ Total(la) = 1 + pa + Len(<<>>)
        /\ FieldAt(la, 1) = kind
        /\ \A k \in 2 .. 1 + pa : FieldAt(la, k) = elem[((k - 2) % Len(elem)) + 1]
    <2>1. IsCounted(la, kind, a, elem, <<>>)
      BY <1>1, CountedLayout
    <2> HIDE DEF la
    <2> QED
      BY <2>1 DEF IsCounted
  <1>3. /\ pb \in Nat
        /\ Total(lb) = 1 + pb + Len(<<>>)
        /\ FieldAt(lb, 1) = kind
        /\ \A k \in 2 .. 1 + pb : FieldAt(lb, k) = elem[((k - 2) % Len(elem)) + 1]
    <2>1. IsCounted(lb, kind, b, elem, <<>>)
      BY <1>1, CountedLayout
    <2> HIDE DEF lb
    <2> QED
      BY <2>1 DEF IsCounted
  <1>4. Len(elem) \in Nat \ {0}
    BY LenProperties
  <1>5. pa <= pb /\ (a < b => pa < pb)
    <2>1. pa <= pb
      BY <1>4, ProductTypes
    <2>2. ASSUME a < b PROVE pa < pb
      <3>1. a + 1 \in Nat /\ a + 1 <= b
        BY <2>2
      <3>2. (a + 1) * Len(elem) <= pb
        BY <3>1, <1>4, ProductTypes
      <3>3. (a + 1) * Len(elem) = pa + Len(elem)
        BY <1>4, SMT
      <3> HIDE DEF pa, pb
      <3> QED
        BY <3>2, <3>3, <1>2, <1>3, <1>4
    <2> QED
      BY <2>1, <2>2
  <1> HIDE DEF la, lb, pa, pb
  <1>6. \A k \in 1 .. Total(la) : k = 1 \/ (k \in 2 .. 1 + pa /\ k \in 2 .. 1 + pb)
    BY <1>1, <1>2, <1>3, <1>5
  <1>7. \A k \in 1 .. Total(la) : FieldAt(la, k) = FieldAt(lb, k)
    BY <1>2, <1>3, <1>6
  <1>8. /\ Total(la) \in Nat \ {0} /\ Total(lb) \in Nat \ {0} /\ Total(la) <= Total(lb)
        /\ (a < b => Total(la) < Total(lb))
    BY <1>1, <1>2, <1>3, <1>5
  <1> QED
    BY <1>7, <1>8 DEF la, lb

LEMMA OptionalTyped ==
  ASSUME NEW flags, NEW bit, NEW kind \in ValueKinds
  PROVE  Optional(flags, bit, kind) \in Seq(ValueKinds)
  <1>1. <<kind>> \in Seq(ValueKinds) /\ <<>> \in Seq(ValueKinds)
    OBVIOUS
  <1> QED
    BY <1>1 DEF Optional

LEMMA MoveTyped ==
  ASSUME NEW flags
  PROVE  /\ FieldsTyped(Plain(MoveFields(flags)))
         /\ Total(Plain(MoveFields(flags))) # 0
         /\ FieldAt(Plain(MoveFields(flags)), 1) = "Flags"
  <1> DEFINE a == Optional(flags, 1, "U32")
             b == Optional(flags, 2, "Vec3")
             c == Optional(flags, 4, "Vec3")
             d == Optional(flags, 8, "Vec3")
             s == <<"Flags">> \o a \o b \o c \o d \o <<"Float">>
  <1>1. a \in Seq(ValueKinds) /\ b \in Seq(ValueKinds) /\ c \in Seq(ValueKinds)
        /\ d \in Seq(ValueKinds) /\ <<"Float">> \in Seq(ValueKinds)
    <2>1. "U32" \in ValueKinds /\ "Vec3" \in ValueKinds /\ "Float" \in ValueKinds
      BY DEF ValueKinds
    <2> QED
      BY <2>1, OptionalTyped
  <1> HIDE DEF a, b, c, d
  <1>2. /\ \A x \in ValueKinds : ~Numeric(x)
        /\ ValueKinds \subseteq Kinds /\ "Flags" \in Kinds
    BY KindsAre
  <1>3. s \in Seq(Kinds) /\ Len(s) \in Nat \ {0} /\ s[1] = "Flags"
        /\ \A i \in 2 .. Len(s) : s[i] \in ValueKinds
    <2> DEFINE Good(q) == /\ q \in Seq(Kinds) /\ Len(q) \in Nat \ {0} /\ q[1] = "Flags"
                          /\ \A i \in 2 .. Len(q) : q[i] \in ValueKinds
    <2>1. Good(<<"Flags">>)
      BY <1>2
    <2>2. ASSUME NEW q, Good(q), NEW r \in Seq(ValueKinds)
          PROVE  Good(q \o r)
      <3>1. r \in Seq(Kinds)
        BY <1>2, SeqMonotonic
      <3>2. /\ q \o r \in Seq(Kinds)
            /\ Len(q \o r) = Len(q) + Len(r)
            /\ \A i \in 1 .. Len(q) + Len(r) : (q \o r)[i] =
                 IF i <= Len(q) THEN q[i] ELSE r[i - Len(q)]
        BY <2>2, <3>1, ConcatProperties
      <3>3. Len(r) \in Nat /\ \A i \in 1 .. Len(r) : r[i] \in ValueKinds
        BY ElementOfSeq, LenProperties
      <3>4. \A i \in 2 .. Len(q) + Len(r) : (q \o r)[i] \in ValueKinds
        BY <2>2, <3>2, <3>3
      <3> QED
        BY <2>2, <3>2, <3>3, <3>4
    <2> HIDE DEF Good
    <2>3. Good(s)
      <3>1. Good(<<"Flags">> \o a)
        BY <2>1, <2>2, <1>1
      <3>2. Good(<<"Flags">> \o a \o b)
        BY <3>1, <2>2, <1>1
      <3>3. Good(<<"Flags">> \o a \o b \o c)
        BY <3>2, <2>2, <1>1
      <3>4. Good(<<"Flags">> \o a \o b \o c \o d)
        BY <3>3, <2>2, <1>1
      <3> QED
        BY <3>4, <2>2, <1>1
    <2> QED
      BY <2>3 DEF Good
  <1>4. MoveFields(flags) = s
    BY DEF MoveFields, a, b, c, d
  <1> HIDE DEF s
  <1>5. FieldsTyped(Plain(s))
    BY <1>2, <1>3, PlainTyped
  <1>6. Total(Plain(s)) = Len(s) /\ FieldAt(Plain(s), 1) = s[1]
    BY <1>3, PlainLayout
  <1> QED
    BY <1>3, <1>4, <1>5, <1>6

----------------------------------------------------------------------------
(* The messages, by the shape of their layout: the same whatever is sent, or an optional
   field for a flag, or a list. *)

PlainTypes == {"DHKeyExchange", "JoinRequest", "JoinSuccess", "JoinFailure", "JoinBroadcast",
               "Die", "Respawn", "ChatSend", "ChatAnnouncement", "ChatPlayerTalk",
               "ModListRequest", "ChunkDenied", "Place", "Break", "ChunkData",
               "PlayerQuit", "QuitBroadcast", "Kick"}
CountedTypes == {"ServerInfoRequest", "ModListResponse", "ChunkRequest", "ChunkResponse",
                 "Notify"}
CountKindOf == [ServerInfoRequest |-> "Count16", ModListResponse |-> "Count32",
                ChunkRequest |-> "Count8", ChunkResponse |-> "Count8", Notify |-> "Count16"]
ElementOf == [ServerInfoRequest |-> <<"String">>, ModListResponse |-> <<"ModId">>,
              ChunkRequest |-> <<"I32", "IVec3">>,
              ChunkResponse |-> <<"I32", "IVec3", "Chunk">>, Notify |-> Update]
TailOf == [t \in CountedTypes |-> IF t = "ServerInfoRequest" THEN <<"Pack">> ELSE <<>>]

LEMMA TypesAre ==
  /\ Types = MessageTypes
  /\ MessageTypes = PlainTypes \cup CountedTypes \cup {"Move"}
  /\ PlainTypes \cap CountedTypes = {} /\ "Move" \notin PlainTypes \cup CountedTypes
  <1>1. Types = MessageTypes
    BY WrittenLayouts DEF Types
  <1> QED
    BY <1>1 DEF MessageTypes, PlainTypes, CountedTypes, ServerInfoTypes, ConnectionParamTypes,
            PlayerJoinTypes, PlayerUpdateTypes, ChatTypes, ContentTypes, ChunkTransferTypes,
            BlockUpdateTypes, ChunkTypes, PlayerQuitTypes

(* Plain layouts. *)
LEMMA PlainTypesTyped ==
  ASSUME NEW t \in PlainTypes, NEW n
  PROVE  /\ \A m : Written(m)[t] = Written(n)[t]
         /\ t \notin ReadInPart => Read(n)[t] = Written(n)[t]
         /\ FieldsTyped(Written(n)[t])
         /\ \A k \in 1 .. Total(Written(n)[t]) : ~Numeric(FieldAt(Written(n)[t], k))
  <1>1. \A s \in Seq(ValueKinds) : FieldsTyped(Plain(s))
          /\ \A k \in 1 .. Total(Plain(s)) : ~Numeric(FieldAt(Plain(s), k))
    <2> TAKE s \in Seq(ValueKinds)
    <2>1. ValueKinds \subseteq Kinds /\ \A x \in ValueKinds : ~Numeric(x)
      BY KindsAre
    <2>2. s \in Seq(Kinds) /\ \A i \in 1 .. Len(s) : s[i] \in ValueKinds
      BY <2>1, SeqMonotonic, ElementOfSeq
    <2>3. FieldsTyped(Plain(s))
      BY <2>1, <2>2, PlainTyped
    <2> QED
      BY <2>1, <2>2, <2>3, PlainLayout
  <1>2. \E s \in Seq(ValueKinds) : /\ t \notin ReadInPart => Read(n)[t] = Plain(s)
                                  /\ \A m : Written(m)[t] = Plain(s)
    <2>1. CASE t = "DHKeyExchange"
      <3>1. <<"Key">> \in Seq(ValueKinds)
        BY DEF ValueKinds
      <3> QED
        BY <2>1, <3>1, WrittenLayouts, ReadLayouts
    <2>2. CASE t = "JoinRequest"
      <3>1. <<"String">> \in Seq(ValueKinds)
        BY DEF ValueKinds
      <3> QED
        BY <2>2, <3>1, WrittenLayouts, ReadLayouts
    <2>3. CASE t = "JoinSuccess"
      <3>1. <<"U32", "I32">> \in Seq(ValueKinds)
        BY DEF ValueKinds
      <3> QED
        BY <2>3, <3>1, WrittenLayouts DEF ReadInPart
    <2>4. CASE t = "JoinFailure"
      <3>1. <<"U8">> \in Seq(ValueKinds)
        BY DEF ValueKinds
      <3> QED
        BY <2>4, <3>1, WrittenLayouts DEF ReadInPart
    <2>5. CASE t = "JoinBroadcast"
      <3>1. <<"U8", "String", "U32", "I32">> \in Seq(ValueKinds)
        BY DEF ValueKinds
      <3> QED
        BY <2>5, <3>1, WrittenLayouts, ReadLayouts
    <2>6. CASE t = "Die"
      <3>1. <<"U32">> \in Seq(ValueKinds)
        BY DEF ValueKinds
      <3> QED
        BY <2>6, <3>1, WrittenLayouts, ReadLayouts
    <2>7. CASE t = "Respawn"
      <3>1. <<"U32">> \in Seq(ValueKinds)
        BY DEF ValueKinds
      <3> QED
        BY <2>7, <3>1, WrittenLayouts, ReadLayouts
    <2>8. CASE t = "ChatSend"
      <3>1. <<"Pack">> \in Seq(ValueKinds)
        BY DEF ValueKinds
      <3> QED
        BY <2>8, <3>1, WrittenLayouts, ReadLayouts
    <2>9. CASE t = "ChatAnnouncement"
      <3>1. <<"String", "String", "Pack", "Pack">> \in Seq(ValueKinds)
        BY DEF ValueKinds
      <3> QED
        BY <2>9, <3>1, WrittenLayouts, ReadLayouts
    <2>10. CASE t = "ChatPlayerTalk"
      <3>1. <<"U32", "Pack", "Pack">> \in Seq(ValueKinds)
        BY DEF ValueKinds
      <3> QED
        BY <2>10, <3>1, WrittenLayouts, ReadLayouts
    <2>11. CASE t = "ModListRequest"
      <3>1. <<>> \in Seq(ValueKinds)
        BY DEF ValueKinds
      <3> QED
        BY <2>11, <3>1, WrittenLayouts, ReadLayouts
    <2>12. CASE t = "ChunkDenied"
      <3>1. <<"U8">> \in Seq(ValueKinds)
        BY DEF ValueKinds
      <3> QED
        BY <2>12, <3>1, WrittenLayouts, ReadLayouts
    <2>13. CASE t = "Place"
      <3>1. <<"I32", "IVec3", "U16", "U16", "Pack">> \in Seq(ValueKinds)
        BY DEF ValueKinds
      <3> QED
        BY <2>13, <3>1, WrittenLayouts, ReadLayouts
    <2>14. CASE t = "Break"
      <3>1. <<"I32", "IVec3">> \in Seq(ValueKinds)
        BY DEF ValueKinds
      <3> QED
        BY <2>14, <3>1, WrittenLayouts, ReadLayouts
    <2>15. CASE t = "ChunkData"
      <3>1. <<"Compressed", "U32">> \in Seq(ValueKinds)
        BY DEF ValueKinds
      <3> QED
        BY <2>15, <3>1, WrittenLayouts, ReadLayouts
    <2>16. CASE t = "PlayerQuit"
      <3>1. <<>> \in Seq(ValueKinds)
        BY DEF ValueKinds
      <3> QED
        BY <2>16, <3>1, WrittenLayouts, ReadLayouts
    <2>17. CASE t = "QuitBroadcast"
      <3>1. <<"U32">> \in Seq(ValueKinds)
        BY DEF ValueKinds
      <3> QED
        BY <2>17, <3>1, WrittenLayouts, ReadLayouts
    <2>18. CASE t = "Kick"
      <3>1. <<"U32", "String">> \in Seq(ValueKinds)
        BY DEF ValueKinds
      <3> QED
        BY <2>18, <3>1, WrittenLayouts DEF ReadInPart
    <2> QED
      BY <2>1, <2>2, <2>3, <2>4, <2>5, <2>6, <2>7, <2>8, <2>9,
         <2>10, <2>11, <2>12, <2>13, <2>14, <2>15, <2>16, <2>17, <2>18 DEF PlainTypes
  <1> QED
    BY <1>1, <1>2

IsOne(l, a) == Total(l) = 1 /\ FieldAt(l, 1) = a
IsPair(l, a, b) == Total(l) = 2 /\ FieldAt(l, 1) = a /\ FieldAt(l, 2) = b

LEMMA ShortLayouts ==
  ASSUME NEW a \in Kinds, NEW b \in Kinds
  PROVE  /\ Total(Plain(<<>>)) = 0
         /\ IsOne(Plain(<<a>>), a)
         /\ IsPair(Plain(<<a, b>>), a, b)
  <1>1. Total(Plain(<<>>)) = 0
    <2>1. <<>> \in Seq(Kinds) /\ Len(<<>>) = 0
      OBVIOUS
    <2> QED
      BY <2>1, PlainLayout
  <1>2. IsOne(Plain(<<a>>), a)
    <2> DEFINE s == <<a>>
    <2>1. s \in Seq(Kinds) /\ Len(s) = 1 /\ s[1] = a
      OBVIOUS
    <2> HIDE DEF s
    <2>2. /\ Total(Plain(s)) = Len(s) /\ \A k \in 1 .. Len(s) : FieldAt(Plain(s), k) = s[k]
      BY <2>1, PlainLayout
    <2>3. Total(Plain(s)) = 1 /\ FieldAt(Plain(s), 1) = a
      BY <2>1, <2>2
    <2> QED
      BY <2>3 DEF s, IsOne
  <1>3. IsPair(Plain(<<a, b>>), a, b)
    <2> DEFINE s == <<a, b>>
    <2>1. s \in Seq(Kinds) /\ Len(s) = 2 /\ s[1] = a /\ s[2] = b
      OBVIOUS
    <2> HIDE DEF s
    <2>2. /\ Total(Plain(s)) = Len(s) /\ \A k \in 1 .. Len(s) : FieldAt(Plain(s), k) = s[k]
      BY <2>1, PlainLayout
    <2>3. Total(Plain(s)) = 2 /\ FieldAt(Plain(s), 1) = a /\ FieldAt(Plain(s), 2) = b
      BY <2>1, <2>2
    <2> QED
      BY <2>3 DEF s, IsPair
  <1> QED
    BY <1>1, <1>2, <1>3

(* Of the three that are read in part: what is asked for, and where that ends. *)
LEMMA PartLayout ==
  ASSUME NEW n, NEW c
  PROVE  /\ LET w == Written(n)["JoinSuccess"]
                r == Read(c)["JoinSuccess"]
            IN /\ Total(w) = 2 /\ FieldAt(w, 1) = "U32" /\ FieldAt(w, 2) = "I32"
               /\ Total(r) = 2 /\ FieldAt(r, 1) = "U32" /\ FieldAt(r, 2) = "I16"
         /\ Total(Written(n)["JoinFailure"]) = 1 /\ Total(Read(c)["JoinFailure"]) = 0
         /\ LET w == Written(n)["Kick"]
                r == Read(c)["Kick"]
            IN /\ Total(w) = 2 /\ FieldAt(w, 1) = "U32"
               /\ Total(r) = 1 /\ FieldAt(r, 1) = "U32"
  <1>1. /\ "U8" \in Kinds /\ "U32" \in Kinds /\ "I32" \in Kinds /\ "I16" \in Kinds
        /\ "String" \in Kinds
    BY KindsAre DEF ValueKinds
  <1>2. /\ Written(n)["JoinSuccess"] = Plain(<<"U32", "I32">>)
        /\ Read(c)["JoinSuccess"] = Plain(<<"U32", "I16">>)
        /\ Written(n)["JoinFailure"] = Plain(<<"U8">>) /\ Read(c)["JoinFailure"] = Plain(<<>>)
        /\ Written(n)["Kick"] = Plain(<<"U32", "String">>) /\ Read(c)["Kick"] = Plain(<<"U32">>)
    BY WrittenLayouts, ReadLayouts
  <1>3. IsPair(Plain(<<"U32", "I32">>), "U32", "I32")
    BY <1>1, ShortLayouts
  <1>4. IsPair(Plain(<<"U32", "I16">>), "U32", "I16")
    BY <1>1, ShortLayouts
  <1>5. IsOne(Plain(<<"U8">>), "U8") /\ Total(Plain(<<>>)) = 0
    BY <1>1, ShortLayouts
  <1>6. IsPair(Plain(<<"U32", "String">>), "U32", "String") /\ IsOne(Plain(<<"U32">>), "U32")
    BY <1>1, ShortLayouts
  <1> QED
    BY <1>2, <1>3, <1>4, <1>5, <1>6 DEF IsOne, IsPair

(* Layouts of lists. *)
LEMMA CountedTypesTyped ==
  ASSUME NEW t \in CountedTypes
  PROVE  /\ CountKindOf[t] \in CountKinds
         /\ ElementOf[t] \in Seq(ValueKinds) /\ Len(ElementOf[t]) \in Nat \ {0}
         /\ TailOf[t] \in Seq(ValueKinds)
         /\ \A n : Written(n)[t] = Counted(CountKindOf[t], n, ElementOf[t], TailOf[t])
         /\ \A n : t # "Notify" \/ n < Byte => Read(n)[t] = Written(n)[t]
         /\ \A n : t = "Notify" /\ ~(n < Byte) => Read(n)[t] = Written(MaxCount + 1)[t]
         /\ t \notin {"ServerInfoRequest"} => TailOf[t] = <<>>
         /\ t = "ServerInfoRequest" \/ t = "Notify" <=> CountKindOf[t] = "Count16"
  <1>1. CASE t = "ServerInfoRequest"
    <2>1. CountKindOf[t] = "Count16" /\ ElementOf[t] = <<"String">> /\ TailOf[t] = <<"Pack">>
      BY <1>1 DEF CountKindOf, ElementOf, TailOf, CountedTypes
    <2>2. <<"String">> \in Seq(ValueKinds) /\ <<"Pack">> \in Seq(ValueKinds) /\ Len(<<"String">>) \in Nat \ {0}
      BY DEF ValueKinds
    <2>3. \A n : Written(n)[t] = Counted("Count16", n, <<"String">>, <<"Pack">>)
      BY <1>1, WrittenLayouts
    <2>4. \A n : Read(n)[t] = Written(n)[t]
      BY <1>1, <2>3, ReadLayouts
    <2> QED
      BY <1>1, <2>1, <2>2, <2>3, <2>4 DEF CountKinds
  <1>2. CASE t = "ModListResponse"
    <2>1. CountKindOf[t] = "Count32" /\ ElementOf[t] = <<"ModId">> /\ TailOf[t] = <<>>
      BY <1>2 DEF CountKindOf, ElementOf, TailOf, CountedTypes
    <2>2. <<"ModId">> \in Seq(ValueKinds) /\ <<>> \in Seq(ValueKinds) /\ Len(<<"ModId">>) \in Nat \ {0}
      BY DEF ValueKinds
    <2>3. \A n : Written(n)[t] = Counted("Count32", n, <<"ModId">>, <<>>)
      BY <1>2, WrittenLayouts
    <2>4. \A n : Read(n)[t] = Written(n)[t]
      BY <1>2, <2>3, ReadLayouts
    <2> QED
      BY <1>2, <2>1, <2>2, <2>3, <2>4 DEF CountKinds
  <1>3. CASE t = "ChunkRequest"
    <2>1. CountKindOf[t] = "Count8" /\ ElementOf[t] = <<"I32", "IVec3">> /\ TailOf[t] = <<>>
      BY <1>3 DEF CountKindOf, ElementOf, TailOf, CountedTypes
    <2>2. <<"I32", "IVec3">> \in Seq(ValueKinds) /\ <<>> \in Seq(ValueKinds) /\ Len(<<"I32", "IVec3">>) \in Nat \ {0}
      BY DEF ValueKinds
    <2>3. \A n : Written(n)[t] = Counted("Count8", n, <<"I32", "IVec3">>, <<>>)
      BY <1>3, WrittenLayouts
    <2>4. \A n : Read(n)[t] = Written(n)[t]
      BY <1>3, <2>3, ReadLayouts
    <2> QED
      BY <1>3, <2>1, <2>2, <2>3, <2>4 DEF CountKinds
  <1>4. CASE t = "ChunkResponse"
    <2>1. CountKindOf[t] = "Count8" /\ ElementOf[t] = <<"I32", "IVec3", "Chunk">> /\ TailOf[t] = <<>>
      BY <1>4 DEF CountKindOf, ElementOf, TailOf, CountedTypes
    <2>2. <<"I32", "IVec3", "Chunk">> \in Seq(ValueKinds) /\ <<>> \in Seq(ValueKinds) /\ Len(<<"I32", "IVec3", "Chunk">>) \in Nat \ {0}
      BY DEF ValueKinds
    <2>3. \A n : Written(n)[t] = Counted("Count8", n, <<"I32", "IVec3", "Chunk">>, <<>>)
      BY <1>4, WrittenLayouts
    <2>4. \A n : Read(n)[t] = Written(n)[t]
      BY <1>4, <2>3, ReadLayouts
    <2> QED
      BY <1>4, <2>1, <2>2, <2>3, <2>4 DEF CountKinds
  <1>5. CASE t = "Notify"
    <2>1. CountKindOf[t] = "Count16" /\ ElementOf[t] = Update /\ TailOf[t] = <<>>
      BY <1>5 DEF CountKindOf, ElementOf, TailOf, CountedTypes
    <2>2. Update \in Seq(ValueKinds) /\ <<>> \in Seq(ValueKinds) /\ Len(Update) \in Nat \ {0}
      BY DEF ValueKinds, Update
    <2>3. \A n : Written(n)[t] = Counted("Count16", n, Update, <<>>)
      BY <1>5, WrittenLayouts
    <2>4. \A n : Read(n)[t] = IF n < Byte THEN Written(n)[t] ELSE Written(MaxCount + 1)[t]
      BY <1>5, <2>3, ReadLayouts
    <2> QED
      BY <1>5, <2>1, <2>2, <2>3, <2>4 DEF CountKinds
  <1> QED
    BY <1>1, <1>2, <1>3, <1>4, <1>5 DEF CountedTypes

LEMMA MoveLayout ==
  ASSUME NEW n
  PROVE  /\ Read(n)["Move"] = Written(n)["Move"]
         /\ FieldsTyped(Written(n)["Move"])
         /\ Total(Written(n)["Move"]) # 0
         /\ FieldAt(Written(n)["Move"], 1) = "Flags"
  <1>1. Written(n)["Move"] = Plain(MoveFields(n)) /\ Read(n)["Move"] = Plain(MoveFields(n))
    BY WrittenLayouts, ReadLayouts
  <1> QED
    BY <1>1, MoveTyped

LEMMA CountedWritten ==
  ASSUME NEW t \in CountedTypes, NEW n \in Nat
  PROVE  /\ FieldsTyped(Written(n)[t])
         /\ Total(Written(n)[t]) # 0
         /\ FieldAt(Written(n)[t], 1) = CountKindOf[t]
  <1> DEFINE l == Counted(CountKindOf[t], n, ElementOf[t], TailOf[t])
  <1>1. /\ CountKindOf[t] \in Kinds
        /\ ElementOf[t] \in Seq(ValueKinds) /\ Len(ElementOf[t]) \in Nat \ {0}
        /\ TailOf[t] \in Seq(ValueKinds)
        /\ Written(n)[t] = l
    BY CountedTypesTyped, KindsAre
  <1>2. ElementOf[t] \in Seq(Kinds) /\ TailOf[t] \in Seq(Kinds) /\ Len(TailOf[t]) \in Nat
    <2>1. ValueKinds \subseteq Kinds
      BY KindsAre
    <2> QED
      BY <1>1, <2>1, SeqMonotonic
  <1>3. FieldsTyped(l)
    BY <1>1, CountedTyped
  <1>4. IsCounted(l, CountKindOf[t], n, ElementOf[t], TailOf[t])
    BY <1>1, <1>2, CountedLayout
  <1> HIDE DEF l
  <1>5. FieldAt(l, 1) = CountKindOf[t] /\ Total(l) # 0
    <2>1. n * Len(ElementOf[t]) \in Nat
      BY <1>4 DEF IsCounted
    <2>2. Total(l) = 1 + n * Len(ElementOf[t]) + Len(TailOf[t]) /\ FieldAt(l, 1) = CountKindOf[t]
      BY <1>4 DEF IsCounted
    <2>3. \A p, q \in Nat : 1 + p + q # 0
      OBVIOUS
    <2> QED
      BY <2>1, <2>2, <2>3, <1>2, Zenon
  <1> QED
    BY <1>1, <1>3, <1>5

LEMMA ElementsAre ==
  ASSUME NEW t \in CountedTypes
  PROVE  ElementOf[t] \in Seq(Kinds) /\ Len(ElementOf[t]) # 0
  <1>1. ValueKinds \subseteq Kinds
    BY KindsAre
  <1> QED
    BY <1>1, CountedTypesTyped, SeqMonotonic

LEMMA NumbersAre ==
  ASSUME NEW t \in Types
  PROVE  /\ Numbers(t) \subseteq Nat
         /\ t \in CountedTypes => Numbers(t) \subseteq 0 .. MaxCount
  <1>1. Numbers(t) \subseteq Nat
    BY MessagesAssumption DEF Numbers
  <1>2. ASSUME t \in CountedTypes PROVE Numbers(t) \subseteq 0 .. MaxCount
    <2>1. Written(0)[t].head = <<CountKindOf[t]>> /\ CountKindOf[t] \in CountKinds
      <3>1. /\ Written(0)[t] = Counted(CountKindOf[t], 0, ElementOf[t], TailOf[t])
            /\ CountKindOf[t] \in CountKinds
        BY <1>2, CountedTypesTyped
      <3> QED
        BY <3>1 DEF Counted
    <2>2. Written(0)[t].head # <<>> /\ Written(0)[t].head[1] = CountKindOf[t]
      BY <2>1
    <2> QED
      BY <2>1, <2>2 DEF Numbers
  <1> QED
    BY <1>1, <1>2

LEMMA WrittenTyped ==
  ASSUME NEW t \in Types, NEW n \in Nat
  PROVE  FieldsTyped(Written(n)[t])
  BY TypesAre, PlainTypesTyped, CountedWritten, MoveLayout

(* What the reader has for a count after k fields. *)
CountRead(t, n, k) ==
  IF k = 0 \/ ~Numeric(FieldAt(Written(n)[t], 1)) THEN 0 ELSE Held(FieldAt(Written(n)[t], 1), n)

(* No list is longer than its two-byte count: its writer has refused it. *)
ListFits(t, n) == t \in {"ServerInfoRequest", "Notify"} => n < Short

(* After k fields of the written ones, the reader asks for the field that is next, or for
   half of it, and ends where the writer did; unless its count is too small for that, or it
   stops early. *)
ReaderFits(t, n, k, c) ==
  /\ Total(Read(c)[t]) \in Nat
  /\ k < Total(Read(c)[t]) => FieldAt(Read(c)[t], k + 1) \in Kinds
  /\ k < Total(Read(c)[t]) /\ k < Total(Written(n)[t]) /\ ~HalfRead(t, k + 1) =>
       FieldAt(Read(c)[t], k + 1) = FieldAt(Written(n)[t], k + 1)
  /\ k = Total(Written(n)[t]) /\ k < Total(Read(c)[t]) => t = "Notify" /\ ~(n < Byte)
  /\ k = Total(Read(c)[t]) /\ (FieldAt(Written(n)[t], 1) = "Count8" => n < Byte)
       /\ t \notin ReadInPart =>
       k = Total(Written(n)[t])
  /\ k = 1 /\ Numeric(FieldAt(Written(n)[t], 1)) => k <= Total(Read(c)[t])

LEMMA SameFits ==
  ASSUME NEW t, NEW n, NEW c, Read(c)[t] = Written(n)[t], FieldsTyped(Written(n)[t]),
         NEW k \in 0 .. Total(Written(n)[t])
  PROVE  ReaderFits(t, n, k, c)
  BY DEF ReaderFits, FieldsTyped

LEMMA ReaderLayout ==
  ASSUME NEW t \in Types, NEW n \in Numbers(t), ListFits(t, n),
         NEW k \in 0 .. Total(Written(n)[t]), NEW c, c = CountRead(t, n, k)
  PROVE  ReaderFits(t, n, k, c) /\ c \in Nat
  <1>1. n \in Nat /\ FieldsTyped(Written(n)[t])
    BY NumbersAre, WrittenTyped
  <1>2. CASE t \in PlainTypes
    <2>1. c = 0
      <3>1. ~Numeric(FieldAt(Written(n)[t], 1)) \/ k = 0
        BY <1>1, <1>2, PlainTypesTyped DEF FieldsTyped
      <3> QED
        BY <3>1 DEF CountRead
    <2>2. ASSUME t \notin ReadInPart PROVE ReaderFits(t, n, k, c)
      <3>1. Read(c)[t] = Written(n)[t]
        BY <1>2, <2>2, PlainTypesTyped
      <3> QED
        BY <3>1, <1>1, SameFits
    <2>4. ASSUME t \in ReadInPart PROVE ReaderFits(t, n, k, c)
      <3>1. ~Numeric(FieldAt(Written(n)[t], 1)) /\ "U32" \in Kinds /\ "I16" \in Kinds
        <4>1. Total(Written(n)[t]) \in {1, 2}
          BY <2>4, PartLayout DEF ReadInPart
        <4> QED
          BY <1>2, <4>1, PlainTypesTyped, KindsAre DEF ValueKinds
      <3>2. CASE t = "JoinSuccess"
        <4>1. /\ Total(Read(c)[t]) = 2 /\ Total(Written(n)[t]) = 2
              /\ FieldAt(Read(c)[t], 1) = "U32" /\ FieldAt(Written(n)[t], 1) = "U32"
              /\ FieldAt(Read(c)[t], 2) = "I16"
          BY <3>2, PartLayout
        <4>2. k \in {0, 1, 2}
          BY <4>1
        <4> QED
          BY <3>1, <3>2, <4>1, <4>2 DEF ReaderFits, HalfRead, ReadInPart
      <3>3. CASE t = "JoinFailure"
        <4>1. Total(Read(c)[t]) = 0 /\ Total(Written(n)[t]) = 1
          BY <3>3, PartLayout
        <4>2. k \in {0, 1}
          BY <4>1
        <4> QED
          BY <3>1, <3>3, <4>1, <4>2 DEF ReaderFits, ReadInPart
      <3>4. CASE t = "Kick"
        <4>1. /\ Total(Read(c)[t]) = 1 /\ Total(Written(n)[t]) = 2
              /\ FieldAt(Read(c)[t], 1) = "U32" /\ FieldAt(Written(n)[t], 1) = "U32"
          BY <3>4, PartLayout
        <4>2. k \in {0, 1, 2}
          BY <4>1
        <4> QED
          BY <3>1, <3>4, <4>1, <4>2 DEF ReaderFits, ReadInPart
      <3> QED
        BY <2>4, <3>2, <3>3, <3>4 DEF ReadInPart
    <2>3. ReaderFits(t, n, k, c)
      BY <2>2, <2>4
    <2> QED
      BY <2>1, <2>3
  <1>3. CASE t = "Move"
    <2>1. CASE k = 0
      <3>1. c = 0
        BY <2>1 DEF CountRead
      <3>2. /\ Read(c)[t] = Written(c)[t] /\ FieldsTyped(Written(c)[t])
            /\ Total(Written(c)[t]) # 0 /\ Total(Written(n)[t]) # 0
            /\ FieldAt(Written(c)[t], 1) = "Flags" /\ FieldAt(Written(n)[t], 1) = "Flags"
        BY <1>3, MoveLayout
      <3> QED
        BY <2>1, <3>1, <3>2, <1>1, KindsAre DEF ReaderFits, FieldsTyped
    <2>2. CASE k # 0
      <3>1. FieldAt(Written(n)[t], 1) = "Flags" /\ Read(n)[t] = Written(n)[t]
        BY <1>3, MoveLayout
      <3>2. c = n
        BY <2>2, <3>1 DEF CountRead, Numeric, Held
      <3> QED
        BY <3>1, <3>2, <1>1, SameFits
    <2> QED
      BY <2>1, <2>2
  <1>4. CASE t \in CountedTypes
    <2>1. /\ FieldAt(Written(n)[t], 1) = CountKindOf[t] /\ Total(Written(n)[t]) # 0
          /\ CountKindOf[t] \in CountKinds /\ CountKindOf[t] \in Kinds
          /\ Numeric(CountKindOf[t])
      BY <1>1, <1>4, CountedWritten, CountedTypesTyped, KindsAre DEF Numeric
    <2>2. CASE k = 0
      <3>1. c = 0 /\ 0 < Byte /\ 0 \in Nat
        BY <2>2, MessagesAssumption DEF CountRead
      <3>2. Read(c)[t] = Written(c)[t]
        BY <1>4, <3>1, CountedTypesTyped
      <3>3. /\ FieldsTyped(Written(c)[t]) /\ Total(Written(c)[t]) # 0
            /\ FieldAt(Written(c)[t], 1) = CountKindOf[t]
        BY <1>4, <3>1, CountedWritten
      <3> QED
        BY <2>1, <2>2, <3>1, <3>2, <3>3, <1>1 DEF ReaderFits, FieldsTyped
    <2>3. CASE k # 0
      <3>1. c = Held(CountKindOf[t], n)
        BY <2>1, <2>3 DEF CountRead
      <3>2. CASE c = n /\ (t # "Notify" \/ n < Byte)
        <4>1. Read(c)[t] = Written(n)[t]
          BY <1>4, <3>2, CountedTypesTyped
        <4> QED
          BY <4>1, <1>1, <3>2, SameFits
      <3>3. CASE c # n
        <4>1. CountKindOf[t] = "Count8" /\ c = n % Byte
          <5>1. CountKindOf[t] = "Count16" => n < Short
            BY <1>4, CountedTypesTyped DEF ListFits
          <5>2. n < Short => n % Short = n
            BY <1>1, MessagesAssumption, SMTT(30)
          <5> QED
            BY <3>1, <3>3, <5>1, <5>2 DEF Held
        <4>2. c \in Nat /\ c < n /\ Byte <= n /\ ~(n < Byte)
          <5>1. n < Byte => n % Byte = n
            BY <1>1, MessagesAssumption, SMTT(30)
          <5>2. ~(n < Byte) => n % Byte \in Nat /\ n % Byte < n
            BY <1>1, MessagesAssumption, SMTT(30)
          <5> QED
            BY <4>1, <3>3, <5>1, <5>2, <1>1, MessagesAssumption
        <4>3. t # "Notify" /\ t # "ServerInfoRequest"
          BY <1>4, <4>1, CountedTypesTyped
        <4>4. Read(c)[t] = Written(c)[t]
          BY <1>4, <4>3, CountedTypesTyped
        <4> DEFINE la == Counted(CountKindOf[t], c, ElementOf[t], <<>>)
                   lb == Counted(CountKindOf[t], n, ElementOf[t], <<>>)
        <4>5. Written(c)[t] = la /\ Written(n)[t] = lb
          BY <1>4, <4>3, CountedTypesTyped
        <4>6. /\ Total(la) \in Nat \ {0} /\ Total(lb) \in Nat \ {0} /\ Total(la) < Total(lb)
              /\ \A i \in 1 .. Total(la) : FieldAt(la, i) = FieldAt(lb, i)
          BY <1>1, <1>4, <2>1, <4>2, ElementsAre, CountedPrefix, SMTT(30)
        <4> HIDE DEF la, lb
        <4>7. \A i \in 1 .. Total(lb) : FieldAt(lb, i) \in Kinds
          BY <1>1, <4>5 DEF FieldsTyped
        <4> QED
          BY <2>1, <4>1, <4>2, <4>4, <4>5, <4>6, <4>7 DEF ReaderFits
      <3>4. CASE c = n /\ t = "Notify" /\ ~(n < Byte)
        <4> DEFINE m == MaxCount + 1
                   la == Counted(CountKindOf[t], n, ElementOf[t], <<>>)
                   lb == Counted(CountKindOf[t], m, ElementOf[t], <<>>)
        <4>1. Read(c)[t] = lb /\ Written(n)[t] = la /\ CountKindOf[t] # "Count8"
          BY <1>4, <3>4, CountedTypesTyped
        <4>2. n < m /\ m \in Nat
          BY <1>1, <1>4, NumbersAre, MessagesAssumption
        <4>3. /\ Total(la) \in Nat \ {0} /\ Total(lb) \in Nat \ {0} /\ Total(la) < Total(lb)
              /\ \A i \in 1 .. Total(la) : FieldAt(la, i) = FieldAt(lb, i)
          BY <1>1, <1>4, <2>1, <4>2, ElementsAre, CountedPrefix, SMTT(30)
        <4>4. FieldsTyped(Written(m)[t]) /\ Written(m)[t] = lb
          BY <1>4, <3>4, <4>2, CountedWritten, CountedTypesTyped
        <4> HIDE DEF la, lb, m
        <4>5. \A i \in 1 .. Total(lb) : FieldAt(lb, i) \in Kinds
          BY <4>4 DEF FieldsTyped
        <4> QED
          BY <1>1, <2>1, <3>4, <4>1, <4>3, <4>5 DEF ReaderFits
      <3> QED
        BY <3>2, <3>3, <3>4
    <2> QED
      BY <2>2, <2>3
  <1> QED
    BY <1>2, <1>3, <1>4, TypesAre

----------------------------------------------------------------------------
(* The streams. *)

LEMMA FunctionSeq ==
  ASSUME NEW S, NEW n \in Nat, NEW f \in [1 .. n -> S]
  PROVE  f \in Seq(S) /\ Len(f) = n
  <1>1. f \in Seq(S)
    BY SeqDef
  <1> QED
    BY <1>1, LenProperties

LEMMA BytesAre ==
  ASSUME NEW v \in Nat, NEW w \in Nat
  PROVE  /\ Bytes(v, w) \in Seq(Cell)
         /\ Len(Bytes(v, w)) = w
         /\ \A j \in 1 .. w : Bytes(v, w)[j] = <<v, w, j>>
         /\ w = 0 => Decode(Bytes(v, w)) = 0
         /\ w # 0 => Decode(Bytes(v, w)) = v
  <1>1. Bytes(v, w) \in [1 .. w -> Cell] /\ \A j \in 1 .. w : Bytes(v, w)[j] = <<v, w, j>>
    <2>1. \A j \in 1 .. w : <<v, w, j>> \in Cell
      BY DEF Cell
    <2> QED
      BY <2>1 DEF Bytes
  <1>2. Bytes(v, w) \in Seq(Cell) /\ Len(Bytes(v, w)) = w
    BY <1>1, FunctionSeq
  <1>3. w = 0 => Decode(Bytes(v, w)) = 0
    <2>1. w = 0 => Bytes(v, w) = <<>>
      BY <1>2
    <2> QED
      BY <2>1 DEF Decode
  <1>4. ASSUME w # 0 PROVE Decode(Bytes(v, w)) = v
    <2>1. Bytes(v, w) # <<>> /\ 1 \in 1 .. w
      BY <1>2, <1>4
    <2>2. Bytes(v, w)[1] = <<v, w, 1>> /\ <<v, w, 1>>[1] = v
      BY <1>1, <2>1
    <2>3. Bytes(v, w)[1][1] = v
      BY <2>2
    <2> QED
      BY <1>2, <2>1, <2>3 DEF Decode
  <1> QED
    BY <1>1, <1>2, <1>3, <1>4

Stream == [data : Seq(Cell), cursor : Nat, allocated : Nat]

(* What was written has its place in memory, which grows by whole steps. *)
StreamOK(s) ==
  /\ s \in Stream
  /\ s.cursor <= Len(s.data)
  /\ Len(s.data) <= s.allocated
  /\ s.allocated % AllocStep = 0

(* A value has its bytes at a place in the data. *)
HoldsAt(data, from, v, w) ==
  /\ from + w <= Len(data)
  /\ \A j \in 1 .. w : data[from + j] = <<v, w, j>>

LEMMA FitGrows ==
  ASSUME NEW s \in Stream, s.allocated % AllocStep = 0, NEW len \in Nat
  PROVE  /\ Fit(s, len) \in Stream
         /\ Fit(s, len).data = s.data /\ Fit(s, len).cursor = s.cursor
         /\ len <= Fit(s, len).allocated /\ s.allocated <= Fit(s, len).allocated
         /\ Fit(s, len).allocated % AllocStep = 0
  <1> DEFINE grown == ((len + AllocStep - 1) \div AllocStep) * AllocStep
  <1>1. grown \in Nat /\ len <= grown /\ grown % AllocStep = 0
    <2>1. (len + AllocStep - 1) \div AllocStep \in Nat
      BY MessagesAssumption, SMTT(30)
    <2>2. grown \in Nat /\ len <= grown
      BY MessagesAssumption, SMTT(30)
    <2>3. \A q \in Nat : (q * AllocStep) % AllocStep = 0
      BY MessagesAssumption, SMTT(30)
    <2> QED
      BY <2>1, <2>2, <2>3
  <1> HIDE DEF grown
  <1>2. CASE len <= s.allocated
    BY <1>2 DEF Fit, Stream
  <1>3. CASE ~(len <= s.allocated)
    <2>1. Fit(s, len) = [s EXCEPT !.allocated = grown]
      BY <1>3 DEF Fit, grown
    <2> QED
      BY <1>1, <1>3, <2>1 DEF Stream
  <1> QED
    BY <1>2, <1>3

(* What writeData does to a stream: t for s. *)
Overwritten(t, s, v, w) ==
  /\ StreamOK(t)
  /\ t.cursor = s.cursor + w
  /\ Len(t.data) = IF s.cursor + w > Len(s.data) THEN s.cursor + w ELSE Len(s.data)
  /\ \A i \in 1 .. Len(t.data) :
       t.data[i] = IF i \in s.cursor + 1 .. s.cursor + w THEN <<v, w, i - s.cursor>> ELSE s.data[i]

LEMMA WriteDataIs ==
  ASSUME NEW s, StreamOK(s), NEW v \in Nat, NEW w \in Nat
  PROVE  Overwritten(WriteData(s, Bytes(v, w)), s, v, w)
  <1> DEFINE b == Bytes(v, w)
             end == s.cursor + w
             length == IF end > Len(s.data) THEN end ELSE Len(s.data)
             d == [i \in 1 .. length |-> IF i \in s.cursor + 1 .. end THEN b[i - s.cursor]
                                         ELSE s.data[i]]
             t == WriteData(s, b)
             f == Fit(s, end)
  <1>1. b \in Seq(Cell) /\ Len(b) = w /\ \A j \in 1 .. w : b[j] = <<v, w, j>>
    BY BytesAre
  <1>2. /\ s \in Stream /\ s.data \in Seq(Cell) /\ s.cursor \in Nat /\ s.allocated \in Nat
        /\ Len(s.data) \in Nat /\ s.cursor <= Len(s.data) /\ Len(s.data) <= s.allocated
        /\ s.allocated % AllocStep = 0
    BY LenProperties DEF StreamOK, Stream
  <1>3. end \in Nat /\ length \in Nat /\ end <= length /\ Len(s.data) <= length
    BY <1>2
  <1>4. /\ f \in Stream /\ end <= f.allocated /\ s.allocated <= f.allocated
        /\ f.allocated % AllocStep = 0
    BY <1>2, <1>3, FitGrows
  <1>5. t = [f EXCEPT !.data = d, !.cursor = end]
    BY <1>1 DEF WriteData
  <1>6. \A i \in 1 .. length : i \notin s.cursor + 1 .. end => i \in 1 .. Len(s.data)
    BY <1>2, <1>3
  <1> HIDE DEF b, f, t
  <1>7. d \in [1 .. length -> Cell]
    <2> SUFFICES ASSUME NEW i \in 1 .. length
                 PROVE  (IF i \in s.cursor + 1 .. end THEN b[i - s.cursor] ELSE s.data[i]) \in Cell
      OBVIOUS
    <2>1. CASE i \in s.cursor + 1 .. end
      <3>1. i - s.cursor \in 1 .. Len(b)
        BY <1>1, <1>2, <2>1
      <3> QED
        BY <1>1, <2>1, <3>1, ElementOfSeq
    <2>2. CASE i \notin s.cursor + 1 .. end
      <3>1. i \in 1 .. Len(s.data)
        BY <1>6, <2>2
      <3> QED
        BY <1>2, <2>2, <3>1, ElementOfSeq
    <2> QED
      BY <2>1, <2>2
  <1>8. \A i \in 1 .. length :
          d[i] = IF i \in s.cursor + 1 .. end THEN <<v, w, i - s.cursor>> ELSE s.data[i]
    <2> TAKE i \in 1 .. length
    <2>1. i \in s.cursor + 1 .. end => i - s.cursor \in 1 .. w
      BY <1>2
    <2> QED
      BY <1>1, <2>1
  <1> HIDE DEF d
  <1>9. d \in Seq(Cell) /\ Len(d) = length
    BY <1>3, <1>7, FunctionSeq
  <1>10. t \in Stream /\ t.data = d /\ t.cursor = end /\ t.allocated = f.allocated
    BY <1>3, <1>4, <1>5, <1>9 DEF Stream
  <1>11. length <= f.allocated
    BY <1>2, <1>4 DEF Stream
  <1>12. StreamOK(t)
    BY <1>3, <1>4, <1>9, <1>10, <1>11 DEF StreamOK
  <1>13. Overwritten(t, s, v, w)
    BY <1>8, <1>9, <1>10, <1>12 DEF Overwritten
  <1> QED
    BY <1>13 DEF t, b

(* A value at the end of what was written before. *)
Appended(t, s, v, w) ==
  /\ StreamOK(t)
  /\ t.cursor = Len(t.data)
  /\ Len(t.data) = Len(s.data) + w
  /\ \A i \in 1 .. Len(s.data) : t.data[i] = s.data[i]
  /\ HoldsAt(t.data, Len(s.data), v, w)

LEMMA WriteAppends ==
  ASSUME NEW s, StreamOK(s), s.cursor = Len(s.data), NEW v \in Nat, NEW w \in Nat
  PROVE  Appended(WriteData(s, Bytes(v, w)), s, v, w)
  <1> DEFINE t == WriteData(s, Bytes(v, w))
  <1>1. Overwritten(t, s, v, w)
    BY WriteDataIs
  <1> HIDE DEF t
  <1>2. PICK n \in Nat : n = Len(s.data) /\ s.cursor = n
    BY LenProperties DEF StreamOK, Stream
  <1>3. StreamOK(t) /\ t.cursor = n + w /\ Len(t.data) = n + w
    <2>1. /\ StreamOK(t) /\ t.cursor = s.cursor + w
          /\ Len(t.data) = IF s.cursor + w > Len(s.data) THEN s.cursor + w ELSE Len(s.data)
      BY <1>1, Zenon DEF Overwritten
    <2>2. n + w >= n
      OBVIOUS
    <2> QED
      BY <1>2, <2>1, <2>2
  <1>4. ASSUME NEW i \in 1 .. n + w
        PROVE  t.data[i] = IF i \in n + 1 .. n + w THEN <<v, w, i - n>> ELSE s.data[i]
    <2>1. i \in 1 .. Len(t.data)
      BY <1>3
    <2>2. t.data[i] = IF i \in s.cursor + 1 .. s.cursor + w THEN <<v, w, i - s.cursor>>
                      ELSE s.data[i]
      BY <1>1, <2>1, Zenon DEF Overwritten
    <2> QED
      BY <1>2, <2>2, Zenon
  <1>5. /\ \A i \in 1 .. n : t.data[i] = s.data[i]
        /\ \A j \in 1 .. w : t.data[n + j] = <<v, w, j>>
    <2>1. ASSUME NEW i \in 1 .. n
          PROVE  t.data[i] = s.data[i]
      <3>1. i \in 1 .. n + w /\ i \notin n + 1 .. n + w
        OBVIOUS
      <3> QED
        BY <1>4, <3>1, Zenon
    <2>2. ASSUME NEW j \in 1 .. w
          PROVE  t.data[n + j] = <<v, w, j>>
      <3>1. n + j \in 1 .. n + w /\ n + j \in n + 1 .. n + w /\ (n + j) - n = j
        OBVIOUS
      <3>2. t.data[n + j] = <<v, w, (n + j) - n>>
        BY <1>4, <3>1, Zenon
      <3> QED
        BY <3>1, <3>2
    <2> QED
      BY <2>1, <2>2
  <1>6. Appended(t, s, v, w)
    BY <1>2, <1>3, <1>5 DEF Appended, HoldsAt
  <1> QED
    BY <1>6 DEF t

(* A field at the end of what was written before: its length, then its value. *)
FieldAppended(t, s, kind, v, n) ==
  /\ StreamOK(t)
  /\ t.cursor = Len(t.data)
  /\ Len(t.data) = Len(s.data) + Ahead(kind) + n
  /\ \A i \in 1 .. Len(s.data) : t.data[i] = s.data[i]
  /\ HoldsAt(t.data, Len(s.data), n, Ahead(kind))
  /\ HoldsAt(t.data, Len(s.data) + Ahead(kind), Held(kind, v), n)

LEMMA TwoAppended ==
  ASSUME NEW s, StreamOK(s), NEW a \in Nat, NEW b \in Nat, NEW v \in Nat, NEW w \in Nat,
         NEW t, Appended(t, s, a, b), NEW u, Appended(u, t, v, w)
  PROVE  /\ StreamOK(u)
         /\ u.cursor = Len(u.data)
         /\ Len(u.data) = Len(s.data) + b + w
         /\ \A i \in 1 .. Len(s.data) : u.data[i] = s.data[i]
         /\ HoldsAt(u.data, Len(s.data), a, b)
         /\ HoldsAt(u.data, Len(s.data) + b, v, w)
  <1>1. PICK n \in Nat : n = Len(s.data)
    BY LenProperties DEF StreamOK, Stream
  <1>2. /\ Len(t.data) = n + b
        /\ \A i \in 1 .. n : t.data[i] = s.data[i]
        /\ \A j \in 1 .. b : t.data[n + j] = <<a, b, j>>
    BY <1>1 DEF Appended, HoldsAt
  <1>3. /\ StreamOK(u) /\ u.cursor = Len(u.data) /\ Len(u.data) = n + b + w
        /\ \A i \in 1 .. n + b : u.data[i] = t.data[i]
        /\ HoldsAt(u.data, n + b, v, w)
    BY <1>2 DEF Appended
  <1>4. \A i \in 1 .. n : u.data[i] = s.data[i]
    BY <1>2, <1>3
  <1>5. \A j \in 1 .. b : u.data[n + j] = <<a, b, j>>
    <2> TAKE j \in 1 .. b
    <2>1. n + j \in 1 .. n + b
      OBVIOUS
    <2> QED
      BY <1>2, <1>3, <2>1
  <1>6. HoldsAt(u.data, n, a, b)
    <2>1. n + b <= Len(u.data)
      BY <1>3
    <2> QED
      BY <1>5, <2>1 DEF HoldsAt
  <1> QED
    BY <1>1, <1>3, <1>4, <1>6

LEMMA PackAppends ==
  ASSUME NEW s, StreamOK(s), s.cursor = Len(s.data), NEW v \in Nat, NEW n \in Nat
  PROVE  FieldAppended(WritePack(s, v, n), s, "Pack", v, n)
  <1> DEFINE first == WriteData(s, Bytes(0, 4))
             packed == WriteData(first, Bytes(v, n))
             back == Seek(packed, s.cursor)
             filled == WriteData(back, Bytes(n, 4))
             t == Seek(filled, packed.cursor)
  <1>1. PICK m \in Nat : m = Len(s.data) /\ s.cursor = m
    BY LenProperties DEF StreamOK, Stream
  <1>2. Appended(first, s, 0, 4)
    BY WriteAppends
  <1> HIDE DEF first
  <1>3. Appended(packed, first, v, n)
    <2>1. StreamOK(first) /\ first.cursor = Len(first.data)
      BY <1>2 DEF Appended
    <2> QED
      BY <2>1, WriteAppends
  <1> HIDE DEF packed
  <1>4. /\ StreamOK(packed) /\ packed.cursor = Len(packed.data) /\ Len(packed.data) = m + 4 + n
        /\ \A i \in 1 .. m : packed.data[i] = s.data[i]
        /\ \A j \in 1 .. n : packed.data[m + 4 + j] = <<v, n, j>>
    <2>1. /\ StreamOK(packed) /\ packed.cursor = Len(packed.data)
          /\ Len(packed.data) = Len(s.data) + 4 + n
          /\ \A i \in 1 .. Len(s.data) : packed.data[i] = s.data[i]
          /\ HoldsAt(packed.data, Len(s.data) + 4, v, n)
      BY <1>2, <1>3, TwoAppended
    <2> QED
      BY <1>1, <2>1 DEF HoldsAt
  <1>5. StreamOK(back) /\ back.data = packed.data /\ back.cursor = m
    <2>1. s.cursor <= Len(packed.data)
      BY <1>1, <1>4
    <2>2. back = [packed EXCEPT !.cursor = s.cursor]
      BY <2>1 DEF Seek
    <2>3. packed \in Stream /\ packed.allocated % AllocStep = 0 /\ Len(packed.data) <= packed.allocated
      BY <1>4 DEF StreamOK
    <2>4. /\ back \in Stream /\ back.data = packed.data /\ back.cursor = m
          /\ back.allocated = packed.allocated
      BY <1>1, <2>2, <2>3 DEF Stream
    <2> QED
      BY <1>1, <2>1, <2>3, <2>4 DEF StreamOK
  <1> HIDE DEF back
  <1>6. Overwritten(filled, back, n, 4)
    BY <1>5, WriteDataIs
  <1> HIDE DEF filled
  <1>7. /\ StreamOK(filled) /\ Len(filled.data) = m + 4 + n
        /\ \A i \in 1 .. m + 4 + n :
             filled.data[i] = IF i \in m + 1 .. m + 4 THEN <<n, 4, i - m>> ELSE packed.data[i]
    <2>1. ~(m + 4 > m + 4 + n)
      OBVIOUS
    <2> QED
      BY <1>4, <1>5, <1>6, <2>1 DEF Overwritten
  <1>8. StreamOK(t) /\ t.data = filled.data /\ t.cursor = m + 4 + n
    BY <1>4, <1>7 DEF Seek, StreamOK, Stream
  <1> HIDE DEF t
  <1>9. \A i \in 1 .. m : t.data[i] = s.data[i]
    <2> TAKE i \in 1 .. m
    <2>1. i \in 1 .. m + 4 + n /\ i \notin m + 1 .. m + 4
      OBVIOUS
    <2> QED
      BY <1>4, <1>7, <1>8, <2>1
  <1>10. \A j \in 1 .. 4 : t.data[m + j] = <<n, 4, j>>
    <2> TAKE j \in 1 .. 4
    <2>1. m + j \in 1 .. m + 4 + n /\ m + j \in m + 1 .. m + 4 /\ (m + j) - m = j
      OBVIOUS
    <2> QED
      BY <1>7, <1>8, <2>1
  <1>11. \A j \in 1 .. n : t.data[m + 4 + j] = <<v, n, j>>
    <2> TAKE j \in 1 .. n
    <2>1. m + 4 + j \in 1 .. m + 4 + n /\ m + 4 + j \notin m + 1 .. m + 4
      OBVIOUS
    <2> QED
      BY <1>4, <1>7, <1>8, <2>1
  <1>12. Ahead("Pack") = 4 /\ Held("Pack", v) = v
    BY DEF Ahead, Held, Prefix
  <1>13. FieldAppended(t, s, "Pack", v, n)
    <2>1. Len(t.data) = m + 4 + n /\ m + 4 <= Len(t.data) /\ m + 4 + n <= Len(t.data)
      BY <1>7, <1>8
    <2>2. HoldsAt(t.data, m, n, 4)
      BY <1>10, <2>1 DEF HoldsAt
    <2>3. HoldsAt(t.data, m + 4, v, n)
      BY <1>11, <2>1 DEF HoldsAt
    <2>4. t.cursor = Len(t.data)
      BY <1>8, <2>1
    <2> QED
      BY <1>1, <1>8, <1>9, <1>12, <2>1, <2>2, <2>3, <2>4 DEF FieldAppended
  <1>14. WritePack(s, v, n) = t
    <2>1. packed.cursor - (s.cursor + 4) = n
      BY <1>1, <1>4
    <2> QED
      BY <2>1 DEF WritePack, t, filled, back, packed, first
  <1> QED
    BY <1>13, <1>14

LEMMA WriteFieldAppends ==
  ASSUME NEW s, StreamOK(s), s.cursor = Len(s.data), NEW kind \in Kinds, NEW v \in Nat,
         NEW n \in Nat
  PROVE  FieldAppended(WriteField(s, kind, v, n), s, kind, v, n)
  <1>1. CASE kind = "Pack"
    BY <1>1, PackAppends DEF WriteField
  <1>2. CASE kind # "Pack" /\ kind \in DOMAIN Prefix
    <2> DEFINE p == Prefix[kind]
               first == WriteData(s, Bytes(n, p))
               t == WriteData(first, Bytes(v, n))
    <2>1. p \in Nat /\ Ahead(kind) = p /\ Held(kind, v) = v
      BY <1>2, KindsAre DEF Ahead, Held
    <2>2. WriteField(s, kind, v, n) = t
      BY <1>2 DEF WriteField
    <2> HIDE DEF p
    <2>3. Appended(first, s, n, p)
      BY <2>1, WriteAppends
    <2> HIDE DEF first
    <2>4. Appended(t, first, v, n)
      <3>1. StreamOK(first) /\ first.cursor = Len(first.data)
        BY <2>3 DEF Appended
      <3> QED
        BY <3>1, WriteAppends
    <2> HIDE DEF t
    <2>5. /\ StreamOK(t) /\ t.cursor = Len(t.data) /\ Len(t.data) = Len(s.data) + p + n
          /\ \A i \in 1 .. Len(s.data) : t.data[i] = s.data[i]
          /\ HoldsAt(t.data, Len(s.data), n, p)
          /\ HoldsAt(t.data, Len(s.data) + p, v, n)
      BY <2>1, <2>3, <2>4, TwoAppended
    <2> QED
      BY <2>1, <2>2, <2>5 DEF FieldAppended
  <1>3. CASE kind \notin DOMAIN Prefix
    <2> DEFINE h == Held(kind, v)
               t == WriteData(s, Bytes(h, n))
    <2>1. h \in Nat
      <3>1. v % Byte \in Nat /\ v % Short \in Nat
        BY MessagesAssumption, SMTT(30)
      <3> QED
        BY <3>1 DEF Held
    <2>2. WriteField(s, kind, v, n) = t
      BY <1>1, <1>3, KindsAre DEF WriteField
    <2> HIDE DEF h
    <2>3. Appended(t, s, h, n)
      BY <2>1, WriteAppends
    <2> HIDE DEF t
    <2>4. Ahead(kind) = 0
      BY <1>3 DEF Ahead
    <2>5. PICK m \in Nat : m = Len(s.data)
      BY LenProperties DEF StreamOK, Stream
    <2>6. FieldAppended(t, s, kind, v, n)
      <3>1. m + 0 + n = m + n /\ m + 0 = m
        OBVIOUS
      <3>2. m <= Len(t.data)
        BY <2>3, <2>5 DEF Appended
      <3>3. HoldsAt(t.data, m, n, 0) /\ HoldsAt(t.data, m + 0, h, n)
        <4>1. HoldsAt(t.data, m, h, n)
          BY <2>3, <2>5 DEF Appended
        <4>2. \A j \in 1 .. 0 : t.data[m + j] = <<n, 0, j>>
          OBVIOUS
        <4> QED
          BY <3>1, <3>2, <4>1, <4>2 DEF HoldsAt
      <3> QED
        BY <2>3, <2>4, <2>5, <3>1, <3>3 DEF Appended, FieldAppended, h
    <2> QED
      BY <2>2, <2>6
  <1> QED
    BY <1>1, <1>2, <1>3

LEMMA BytesThere ==
  ASSUME NEW data \in Seq(Cell), NEW from \in Nat, NEW v \in Nat, NEW w \in Nat,
         HoldsAt(data, from, v, w)
  PROVE  SubSeq(data, from + 1, from + w) = Bytes(v, w)
  <1> DEFINE q == SubSeq(data, from + 1, from + w)
  <1>1. from + w <= Len(data) /\ \A j \in 1 .. w : data[from + j] = <<v, w, j>>
    BY DEF HoldsAt
  <1>2. \A i \in from + 1 .. from + w : data[i] \in Cell
    <2> TAKE i \in from + 1 .. from + w
    <2>1. i \in 1 .. Len(data)
      BY <1>1, LenProperties
    <2> QED
      BY <2>1, ElementOfSeq
  <1>3. /\ q \in Seq(Cell)
        /\ Len(q) = IF from + 1 <= from + w THEN from + w - (from + 1) + 1 ELSE 0
        /\ \A i \in 1 .. from + w - (from + 1) + 1 : q[i] = data[from + 1 + i - 1]
    BY <1>2, SubSeqProperties
  <1> HIDE DEF q
  <1>4. Len(q) = w
    BY <1>3
  <1>5. \A i \in 1 .. w : q[i] = data[from + i]
    <2> TAKE i \in 1 .. w
    <2>1. i \in 1 .. from + w - (from + 1) + 1 /\ from + 1 + i - 1 = from + i
      OBVIOUS
    <2> QED
      BY <1>3, <2>1
  <1>6. \A i \in 1 .. w : q[i] = Bytes(v, w)[i]
    BY <1>1, <1>5, BytesAre
  <1>7. Bytes(v, w) \in Seq(Cell) /\ Len(Bytes(v, w)) = w
    BY BytesAre
  <1>8. q = Bytes(v, w)
    BY <1>3, <1>4, <1>6, <1>7, SeqEqual
  <1> QED
    BY <1>8 DEF q

(* A reader that asks for the kind that was written gets what was written. *)
LEMMA ReadsField ==
  ASSUME NEW s, s.data \in Seq(Cell), s.cursor \in Nat, NEW kind \in Kinds,
         NEW n \in Nat, NEW v \in Nat, n = 0 => v = 0,
         kind \notin DOMAIN Prefix => n = Width[kind],
         HoldsAt(s.data, s.cursor, n, Ahead(kind)),
         HoldsAt(s.data, s.cursor + Ahead(kind), v, n)
  PROVE  /\ CanRead(s, kind)
         /\ ReadItem(s, kind) = [kind |-> kind, size |-> n, value |-> v]
  <1>1. PICK a \in Nat : a = Ahead(kind)
    BY KindsAre DEF Ahead
  <1>2. PICK c \in Nat : c = s.cursor
    OBVIOUS
  <1>3. /\ HoldsAt(s.data, c, n, a) /\ HoldsAt(s.data, c + a, v, n)
        /\ c + a <= Len(s.data) /\ c + a + n <= Len(s.data)
    BY <1>1, <1>2 DEF HoldsAt
  <1>4. LengthAt(s, kind) = n
    <2>1. CASE kind \in DOMAIN Prefix
      <3>1. a = Prefix[kind] /\ a # 0
        BY <1>1, <2>1, KindsAre DEF Ahead
      <3>2. SubSeq(s.data, c + 1, c + a) = Bytes(n, a)
        BY <1>3, BytesThere
      <3>3. BytesAt(s, 0, a) = Bytes(n, a)
        <4>1. c + 0 + 1 = c + 1 /\ c + 0 + a = c + a
          OBVIOUS
        <4> QED
          BY <1>2, <3>2, <4>1 DEF BytesAt
      <3>4. Decode(BytesAt(s, 0, a)) = n
        <4>1. a # 0
          BY <3>1
        <4>2. Decode(Bytes(n, a)) = n
          BY <4>1, BytesAre
        <4> QED
          BY <3>3, <4>2
      <3> QED
        BY <2>1, <3>1, <3>4 DEF LengthAt
    <2>2. CASE kind \notin DOMAIN Prefix
      BY <2>2 DEF LengthAt
    <2> QED
      BY <2>1, <2>2
  <1>5. Available(s, a) /\ Available(s, a + n)
    <2>1. c + (a + n) = c + a + n
      OBVIOUS
    <2> QED
      BY <1>2, <1>3, <2>1 DEF Available
  <1>6. Decode(BytesAt(s, a, n)) = v
    <2>1. SubSeq(s.data, c + a + 1, c + a + n) = Bytes(v, n)
      <3>1. c + a \in Nat
        OBVIOUS
      <3> QED
        BY <1>3, <3>1, BytesThere
    <2>2. BytesAt(s, a, n) = Bytes(v, n)
      BY <1>2, <2>1 DEF BytesAt
    <2> QED
      BY <2>2, BytesAre
  <1>7. CanRead(s, kind)
    BY <1>1, <1>4, <1>5 DEF CanRead
  <1>8. ReadItem(s, kind) = [kind |-> kind, size |-> n, value |-> v]
    BY <1>1, <1>4, <1>5, <1>6 DEF ReadItem
  <1> QED
    BY <1>7, <1>8

LEMMA NoFieldAtEnd ==
  ASSUME NEW s, s.data \in Seq(Cell), s.cursor = Len(s.data), NEW kind \in Kinds
  PROVE  ~CanRead(s, kind)
  <1>1. PICK c \in Nat : c = Len(s.data) /\ s.cursor = c
    BY LenProperties
  <1>2. CASE kind \in DOMAIN Prefix
    <2>1. Ahead(kind) \in Nat \ {0}
      BY <1>2, KindsAre DEF Ahead
    <2> QED
      BY <1>1, <2>1 DEF CanRead, Available
  <1>3. CASE kind \notin DOMAIN Prefix
    <2>1. Ahead(kind) = 0 /\ LengthAt(s, kind) = Width[kind] /\ Width[kind] \in Nat \ {0}
          /\ kind # "Chunk"
      BY <1>3, KindsAre DEF Ahead, LengthAt
    <2> QED
      BY <1>1, <2>1 DEF CanRead, Available
  <1> QED
    BY <1>2, <1>3

----------------------------------------------------------------------------
(* The invariant. *)

WrittenItem == [kind : Kinds, size : Nat, value : Nat]

(* What was written lies in the data, field after field: the i-th starts at pos[i]. *)
Placed(data, items, pos) ==
  /\ pos \in [1 .. Len(items) + 1 -> Nat]
  /\ pos[1] = 0
  /\ pos[Len(items) + 1] = Len(data)
  /\ \A i \in 1 .. Len(items) :
       /\ pos[i + 1] = pos[i] + Ahead(items[i].kind) + items[i].size
       /\ HoldsAt(data, pos[i], items[i].size, Ahead(items[i].kind))
       /\ HoldsAt(data, pos[i] + Ahead(items[i].kind), Held(items[i].kind, items[i].value),
                  items[i].size)

(* A field of that kind, of a message with n elements or flags. *)
ItemOK(item, kind, n) ==
  /\ item.kind = kind
  /\ kind \notin DOMAIN Prefix => item.size = Width[kind]
  /\ item.size = 0 => item.value = 0
  /\ Numeric(kind) => item.value = n

(* What a field is read as. *)
Back(item) == [kind |-> item.kind, size |-> item.size, value |-> Held(item.kind, item.value)]

MessageInv ==
  /\ phase \in {"idle", "writing", "reading", "refused", "thrown"}
  /\ type \in Types
  /\ number \in Numbers(type)
  /\ sent \in 0 .. MaxMessages
  /\ phase \in {"writing", "reading"} => ListFits(type, number)

OutInv ==
  /\ StreamOK(out)
  /\ out.cursor = Len(out.data)
  /\ wrote \in Seq(WrittenItem)
  /\ Len(wrote) <= Total(Written(number)[type])
  /\ \A i \in 1 .. Len(wrote) : ItemOK(wrote[i], FieldAt(Written(number)[type], i), number)
  /\ \E pos : Placed(out.data, wrote, pos)

InStream == [data : Seq(Cell), cursor : Nat]

InInv ==
  /\ in \in InStream
  /\ in.cursor <= Len(in.data)
  /\ got \in Seq(Item)
  /\ count \in Nat

(* Whoever reads is where the writer has put the next field, and knows what it had. Half a *)
(* field is the last one read.                                                           *)
ReadInv ==
  phase = "reading" =>
    /\ in.data = out.data
    /\ Len(wrote) = Total(Written(number)[type])
    /\ Len(got) <= Len(wrote)
    /\ Len(got) <= Total(Read(count)[type])
    /\ \A i \in 1 .. Len(got) : got[i] = Back(wrote[i]) \/ HalfRead(type, i)
    /\ count = CountRead(type, number, Len(got))
    /\ \A pos : Placed(out.data, wrote, pos) =>
         in.cursor = pos[Len(got) + 1] \/ HalfRead(type, Len(got))

MessagesInv == MessageInv /\ OutInv /\ InInv /\ ReadInv /\ ThrowsOnlyOnLongList

LEMMA HeldTypes ==
  ASSUME NEW kind, NEW v \in Nat
  PROVE  Held(kind, v) \in Nat
  <1>1. v % Byte \in Nat /\ v % Short \in Nat
    BY MessagesAssumption, SMTT(30)
  <1> QED
    BY <1>1 DEF Held

LEMMA BackTypes ==
  ASSUME NEW item \in WrittenItem
  PROVE  Back(item) \in WrittenItem
  BY HeldTypes DEF Back, WrittenItem

LEMMA AheadTypes ==
  ASSUME NEW kind
  PROVE  Ahead(kind) \in Nat
  BY KindsAre DEF Ahead

LEMMA NothingPlaced ==
  ASSUME NEW s, s = NewOut
  PROVE  /\ StreamOK(s) /\ s.cursor = Len(s.data)
         /\ \E pos : Placed(s.data, <<>>, pos)
  <1>1. /\ s.data = <<>> /\ s.cursor = 0 /\ s.allocated = 0 /\ s \in Stream
        /\ Len(<<>>) = 0
    BY DEF NewOut, Stream
  <1>2. 0 % AllocStep = 0
    BY MessagesAssumption, SMTT(30)
  <1>3. StreamOK(s)
    BY <1>1, <1>2 DEF StreamOK
  <1>4. Placed(s.data, <<>>, [i \in 1 .. 1 |-> 0])
    BY <1>1 DEF Placed
  <1> QED
    BY <1>1, <1>3, <1>4

LEMMA HoldsLonger ==
  ASSUME NEW data, NEW longer, Len(data) \in Nat, Len(longer) \in Nat, Len(data) <= Len(longer),
         \A i \in 1 .. Len(data) : longer[i] = data[i],
         NEW from \in Nat, NEW v, NEW w \in Nat, HoldsAt(data, from, v, w)
  PROVE  HoldsAt(longer, from, v, w)
  <1>1. from + w <= Len(data) /\ \A j \in 1 .. w : data[from + j] = <<v, w, j>>
    BY DEF HoldsAt
  <1>2. \A j \in 1 .. w : from + j \in 1 .. Len(data)
    BY <1>1
  <1>3. from + w <= Len(longer)
    BY <1>1
  <1> QED
    BY <1>1, <1>2, <1>3 DEF HoldsAt

LEMMA PlacedGrows ==
  ASSUME NEW items \in Seq(WrittenItem), NEW item \in WrittenItem,
         NEW s, StreamOK(s), NEW t, FieldAppended(t, s, item.kind, item.value, item.size),
         NEW pos, Placed(s.data, items, pos)
  PROVE  \E longer : Placed(t.data, Append(items, item), longer)
  <1> DEFINE more == Append(items, item)
             longer == [i \in 1 .. Len(items) + 2 |->
                          IF i <= Len(items) + 1 THEN pos[i]
                          ELSE Len(s.data) + Ahead(item.kind) + item.size]
  <1>1. PICK n \in Nat : n = Len(items)
    BY LenProperties
  <1>2. PICK len \in Nat : len = Len(s.data)
    BY LenProperties DEF StreamOK, Stream
  <1>3. PICK a \in Nat : a = Ahead(item.kind)
    BY AheadTypes
  <1>4. item.kind \in Kinds /\ item.size \in Nat /\ item.value \in Nat
    BY DEF WrittenItem
  <1>5. /\ Len(more) = n + 1 /\ more[n + 1] = item
        /\ \A i \in 1 .. n : more[i] = items[i]
    BY <1>1, AppendProperties
  <1> HIDE DEF more
  <1>6. /\ pos \in [1 .. n + 1 -> Nat] /\ pos[1] = 0 /\ pos[n + 1] = len
        /\ \A i \in 1 .. n :
             /\ pos[i + 1] = pos[i] + Ahead(items[i].kind) + items[i].size
             /\ HoldsAt(s.data, pos[i], items[i].size, Ahead(items[i].kind))
             /\ HoldsAt(s.data, pos[i] + Ahead(items[i].kind),
                        Held(items[i].kind, items[i].value), items[i].size)
    BY <1>1, <1>2 DEF Placed
  <1>7. /\ Len(t.data) = len + a + item.size
        /\ \A i \in 1 .. len : t.data[i] = s.data[i]
        /\ HoldsAt(t.data, len, item.size, a)
        /\ HoldsAt(t.data, len + a, Held(item.kind, item.value), item.size)
    BY <1>2, <1>3 DEF FieldAppended
  <1>8. /\ longer \in [1 .. n + 2 -> Nat]
        /\ \A i \in 1 .. n + 1 : longer[i] = pos[i]
        /\ longer[n + 2] = len + a + item.size
    <2>1. \A i \in 1 .. n + 1 : pos[i] \in Nat /\ i \in 1 .. n + 2 /\ i <= n + 1
      BY <1>6
    <2>2. len + a + item.size \in Nat
      BY <1>4
    <2>3. n + 2 \in 1 .. n + 2 /\ ~(n + 2 <= n + 1)
      OBVIOUS
    <2>4. \A i \in 1 .. n + 2 : i <= n + 1 => i \in 1 .. n + 1
      OBVIOUS
    <2> QED
      BY <1>1, <1>2, <1>3, <2>1, <2>2, <2>3, <2>4
  <1> HIDE DEF longer
  <1>9. \A i \in 1 .. n :
          /\ longer[i + 1] = longer[i] + Ahead(more[i].kind) + more[i].size
          /\ HoldsAt(t.data, longer[i], more[i].size, Ahead(more[i].kind))
          /\ HoldsAt(t.data, longer[i] + Ahead(more[i].kind),
                     Held(more[i].kind, more[i].value), more[i].size)
    <2> TAKE i \in 1 .. n
    <2>1. /\ longer[i] = pos[i] /\ longer[i + 1] = pos[i + 1] /\ more[i] = items[i]
          /\ pos[i] \in Nat
      <3>1. i \in 1 .. n + 1 /\ i + 1 \in 1 .. n + 1
        OBVIOUS
      <3> QED
        BY <1>5, <1>6, <1>8, <3>1
    <2>2. items[i] \in WrittenItem
      BY <1>1, ElementOfSeq
    <2>3. items[i].size \in Nat /\ Ahead(items[i].kind) \in Nat
      BY <2>2, AheadTypes DEF WrittenItem
    <2>4. Len(s.data) \in Nat /\ Len(t.data) \in Nat /\ Len(s.data) <= Len(t.data)
          /\ \A j \in 1 .. Len(s.data) : t.data[j] = s.data[j]
      BY <1>2, <1>4, <1>7
    <2>5. HoldsAt(t.data, pos[i], items[i].size, Ahead(items[i].kind))
      BY <1>6, <2>1, <2>3, <2>4, HoldsLonger
    <2>6. HoldsAt(t.data, pos[i] + Ahead(items[i].kind), Held(items[i].kind, items[i].value),
                  items[i].size)
      <3> DEFINE from == pos[i] + Ahead(items[i].kind)
                 v == Held(items[i].kind, items[i].value)
                 w == items[i].size
      <3>1. from \in Nat /\ w \in Nat
        BY <2>1, <2>3
      <3>2. HoldsAt(s.data, from, v, w)
        BY <1>6
      <3> HIDE DEF from, v, w
      <3>3. HoldsAt(t.data, from, v, w)
        BY <2>4, <3>1, <3>2, HoldsLonger
      <3> QED
        BY <3>3 DEF from, v, w
    <2> QED
      BY <1>6, <2>1, <2>5, <2>6
  <1>10. /\ longer[n + 1 + 1] = longer[n + 1] + Ahead(item.kind) + item.size
         /\ HoldsAt(t.data, longer[n + 1], item.size, Ahead(item.kind))
         /\ HoldsAt(t.data, longer[n + 1] + Ahead(item.kind),
                    Held(item.kind, item.value), item.size)
    <2>1. longer[n + 1] = len /\ n + 1 + 1 = n + 2
      BY <1>6, <1>8
    <2> QED
      BY <1>3, <1>7, <1>8, <2>1
  <1>11. Placed(t.data, more, longer)
    <2>1. longer[1] = 0
      <3>1. 1 \in 1 .. n + 1
        OBVIOUS
      <3> QED
        BY <1>6, <1>8, <3>1
    <2>2. longer[n + 1 + 1] = Len(t.data) /\ longer \in [1 .. n + 1 + 1 -> Nat]
      <3>1. n + 1 + 1 = n + 2
        OBVIOUS
      <3> QED
        BY <1>7, <1>8, <3>1
    <2>3. \A i \in 1 .. n + 1 : i \in 1 .. n \/ i = n + 1
      OBVIOUS
    <2>4. \A i \in 1 .. n + 1 :
            /\ longer[i + 1] = longer[i] + Ahead(more[i].kind) + more[i].size
            /\ HoldsAt(t.data, longer[i], more[i].size, Ahead(more[i].kind))
            /\ HoldsAt(t.data, longer[i] + Ahead(more[i].kind),
                       Held(more[i].kind, more[i].value), more[i].size)
      BY <1>5, <1>9, <1>10, <2>3
    <2> QED
      BY <1>5, <2>1, <2>2, <2>4 DEF Placed
  <1> QED
    BY <1>11 DEF more

LEMMA EmptyWritten ==
  ASSUME NEW t \in Types, NEW n \in Numbers(t)
  PROVE  0 <= Total(Written(n)[t])
  <1>1. n \in Nat
    BY NumbersAre
  <1> QED
    BY <1>1, WrittenTyped DEF FieldsTyped

LEMMA InvInit == Init => MessagesInv
  <1> SUFFICES ASSUME Init PROVE MessagesInv
    OBVIOUS
  <1>1. "PlayerQuit" \in Types /\ 0 \in Numbers("PlayerQuit")
    <2>1. "PlayerQuit" \in Types
      BY TypesAre DEF MessageTypes, PlayerQuitTypes
    <2>2. Written(0)["PlayerQuit"].head = <<>>
      <3>1. Written(0)["PlayerQuit"] = Plain(<<>>)
        BY WrittenLayouts
      <3> QED
        BY <3>1 DEF Plain
    <2> QED
      BY <2>1, <2>2 DEF Numbers
  <1>2. MessageInv
    BY <1>1, MessagesAssumption DEF Init, MessageInv
  <1>3. OutInv
    <2>1. out = NewOut /\ wrote = <<>> /\ <<>> \in Seq(WrittenItem) /\ Len(<<>>) = 0
      BY DEF Init
    <2>2. 0 <= Total(Written(number)[type])
      BY <1>2, EmptyWritten DEF MessageInv
    <2> QED
      BY <2>1, <2>2, NothingPlaced DEF OutInv
  <1>4. InInv
    BY DEF Init, InInv, InStream
  <1> QED
    BY <1>2, <1>3, <1>4 DEF Init, MessagesInv, ReadInv, ThrowsOnlyOnLongList

LEMMA CountedHead ==
  ASSUME NEW t \in {"ServerInfoRequest", "Notify"}, NEW n
  PROVE  Written(n)[t].head = <<"Count16">>
  <1>1. Written(n)[t] = Counted(CountKindOf[t], n, ElementOf[t], TailOf[t])
    BY CountedTypesTyped DEF CountedTypes
  <1>2. CountKindOf[t] = "Count16"
    BY CountedTypesTyped DEF CountedTypes
  <1> QED
    BY <1>1, <1>2 DEF Counted

LEMMA InvBegin ==
  ASSUME MessagesInv, NEW t \in Types, NEW n \in Numbers(t), Begin(t, n)
  PROVE  MessagesInv'
  <1>1. /\ sent < MaxMessages /\ sent' = sent + 1 /\ type' = t /\ number' = n /\ out' = NewOut
        /\ wrote' = <<>> /\ in' = in /\ got' = got /\ count' = count
        /\ phase' = IF \E i \in DOMAIN Written(n)[t].head : Refused(Written(n)[t].head[i], n)
                    THEN "refused" ELSE "writing"
    BY DEF Begin
  <1>2. phase' = "writing" => ListFits(t, n)
    <2> SUFFICES ASSUME phase' = "writing", t \in {"ServerInfoRequest", "Notify"}
                 PROVE  n < Short
      BY DEF ListFits
    <2>1. Written(n)[t].head = <<"Count16">>
      BY CountedHead
    <2>2. ~Refused("Count16", n)
      <3>1. 1 \in DOMAIN <<"Count16">> /\ <<"Count16">>[1] = "Count16"
        OBVIOUS
      <3> QED
        BY <1>1, <2>1, <3>1
    <2>3. n \in Nat
      BY NumbersAre
    <2> QED
      BY <2>2, <2>3, MessagesAssumption DEF Refused
  <1>3. MessageInv'
    BY <1>1, <1>2, MessagesAssumption DEF MessagesInv, MessageInv
  <1>4. OutInv'
    <2>1. <<>> \in Seq(WrittenItem) /\ Len(<<>>) = 0
      OBVIOUS
    <2>2. 0 <= Total(Written(n)[t])
      BY EmptyWritten
    <2>3. /\ StreamOK(out') /\ out'.cursor = Len(out'.data)
          /\ \E pos : Placed(out'.data, <<>>, pos)
      BY <1>1, NothingPlaced
    <2> QED
      BY <1>1, <2>1, <2>2, <2>3 DEF OutInv
  <1>5. InInv'
    BY <1>1 DEF MessagesInv, InInv
  <1> QED
    BY <1>1, <1>3, <1>4, <1>5 DEF MessagesInv, ReadInv, ThrowsOnlyOnLongList

LEMMA SizesAre ==
  ASSUME NEW kind \in Kinds, NEW n \in SizesOf(kind)
  PROVE  n \in Nat /\ (kind \notin DOMAIN Prefix => n = Width[kind])
  BY KindsAre, MessagesAssumption DEF SizesOf

LEMMA InvWrite ==
  ASSUME MessagesInv, WriteNext
  PROVE  MessagesInv'
  <1> DEFINE k == Len(wrote)
             kind == FieldAt(Written(number)[type], k + 1)
  <1>1. /\ phase = "writing" /\ k # Total(Written(number)[type])
        /\ type' = type /\ number' = number /\ in' = in /\ got' = got /\ count' = count
        /\ sent' = sent
    BY DEF WriteNext, AllWritten
  <1>2. /\ type \in Types /\ number \in Numbers(type) /\ number \in Nat
        /\ FieldsTyped(Written(number)[type])
    BY NumbersAre, WrittenTyped DEF MessagesInv, MessageInv
  <1>3. /\ StreamOK(out) /\ out.cursor = Len(out.data) /\ wrote \in Seq(WrittenItem)
        /\ k \in Nat /\ k <= Total(Written(number)[type])
        /\ \A i \in 1 .. k : ItemOK(wrote[i], FieldAt(Written(number)[type], i), number)
        /\ \E pos : Placed(out.data, wrote, pos)
    BY LenProperties DEF MessagesInv, OutInv
  <1>4. k + 1 \in 1 .. Total(Written(number)[type]) /\ kind \in Kinds
    BY <1>1, <1>2, <1>3 DEF FieldsTyped
  <1>5. PICK n \in SizesOf(kind) :
          LET value == IF Numeric(kind) THEN number ELSE IF n = 0 THEN 0 ELSE k + 1
          IN IF Refused(kind, n)
             THEN phase' = "refused" /\ UNCHANGED <<out, wrote>>
             ELSE /\ out' = WriteField(out, kind, value, n)
                  /\ wrote' = Append(wrote, [kind |-> kind, size |-> n, value |-> value])
                  /\ UNCHANGED phase
    BY DEF WriteNext
  <1> DEFINE value == IF Numeric(kind) THEN number ELSE IF n = 0 THEN 0 ELSE k + 1
             item == [kind |-> kind, size |-> n, value |-> value]
  <1>6. n \in Nat /\ (kind \notin DOMAIN Prefix => n = Width[kind])
    BY <1>4, SizesAre
  <1>7. InInv'
    BY <1>1 DEF MessagesInv, InInv
  <1>8. CASE Refused(kind, n)
    <2>1. phase' = "refused" /\ out' = out /\ wrote' = wrote
      BY <1>5, <1>8
    <2>2. MessageInv'
      BY <1>1, <2>1 DEF MessagesInv, MessageInv
    <2>3. OutInv'
      BY <1>1, <2>1 DEF MessagesInv, OutInv
    <2> QED
      BY <1>7, <2>1, <2>2, <2>3 DEF MessagesInv, ReadInv, ThrowsOnlyOnLongList
  <1>9. CASE ~Refused(kind, n)
    <2>1. /\ out' = WriteField(out, kind, value, n) /\ wrote' = Append(wrote, item)
          /\ phase' = "writing"
      BY <1>1, <1>5, <1>9
    <2>2. value \in Nat
      BY <1>2, <1>3
    <2>3. item \in WrittenItem /\ ItemOK(item, kind, number)
          /\ item.kind = kind /\ item.value = value /\ item.size = n
      <3>1. Numeric(kind) => n # 0
        BY <1>4, <1>6, KindsAre
      <3> QED
        BY <1>4, <1>6, <2>2, <3>1 DEF WrittenItem, ItemOK
    <2> HIDE DEF item, value, kind
    <2>4. FieldAppended(out', out, kind, value, n)
      BY <1>3, <1>4, <1>6, <2>1, <2>2, WriteFieldAppends
    <2>5. MessageInv'
      BY <1>1, <2>1 DEF MessagesInv, MessageInv
    <2>6. /\ wrote' \in Seq(WrittenItem) /\ Len(wrote') = k + 1 /\ wrote'[k + 1] = item
          /\ \A i \in 1 .. k : wrote'[i] = wrote[i]
      BY <1>3, <2>1, <2>3, AppendProperties
    <2>7. \A i \in 1 .. k + 1 : ItemOK(wrote'[i], FieldAt(Written(number)[type], i), number)
      <3> TAKE i \in 1 .. k + 1
      <3>1. i \in 1 .. k \/ i = k + 1
        BY <1>3
      <3>2. ItemOK(item, FieldAt(Written(number)[type], k + 1), number)
        BY <2>3 DEF kind
      <3> QED
        BY <1>3, <2>6, <3>1, <3>2
    <2>8. \E pos : Placed(out'.data, wrote', pos)
      <3>1. PICK pos : Placed(out.data, wrote, pos)
        BY <1>3
      <3>2. FieldAppended(out', out, item.kind, item.value, item.size)
        BY <2>3, <2>4
      <3> QED
        BY <1>3, <2>1, <2>3, <3>1, <3>2, PlacedGrows
    <2>9. OutInv'
      <3>1. StreamOK(out') /\ out'.cursor = Len(out'.data)
        BY <2>4 DEF FieldAppended
      <3>2. k + 1 <= Total(Written(number)[type])
        BY <1>2, <1>4 DEF FieldsTyped
      <3> QED
        BY <1>1, <2>6, <2>7, <2>8, <3>1, <3>2 DEF OutInv
    <2> QED
      BY <1>7, <2>1, <2>5, <2>9 DEF MessagesInv, ReadInv, ThrowsOnlyOnLongList
  <1> QED
    BY <1>8, <1>9

LEMMA InvSend ==
  ASSUME MessagesInv, Send
  PROVE  MessagesInv'
  <1>1. /\ phase = "writing" /\ Len(wrote) = Total(Written(number)[type])
        /\ in' = [in EXCEPT !.data = out.data, !.cursor = 0]
        /\ phase' \in {"reading", "idle"} /\ got' = <<>> /\ count' = 0
        /\ type' = type /\ number' = number /\ out' = out /\ wrote' = wrote /\ sent' = sent
    BY DEF Send, FromData, AllWritten
  <1>2. MessageInv'
    BY <1>1 DEF MessagesInv, MessageInv
  <1>3. OutInv'
    BY <1>1 DEF MessagesInv, OutInv
  <1>4. /\ in \in InStream /\ out.data \in Seq(Cell) /\ Len(out.data) \in Nat
        /\ wrote \in Seq(WrittenItem) /\ Len(wrote) \in Nat
    BY LenProperties DEF MessagesInv, InInv, OutInv, StreamOK, Stream
  <1>5. in' \in InStream /\ in'.data = out.data /\ in'.cursor = 0
    BY <1>1, <1>4 DEF InStream
  <1>6. InInv'
    <2>1. got' \in Seq(Item) /\ count' \in Nat
      BY <1>1
    <2> QED
      BY <1>4, <1>5, <2>1 DEF InInv
  <1>7. ReadInv'
    <2>1. ReaderFits(type, number, 0, 0)
      <3>1. /\ type \in Types /\ number \in Numbers(type) /\ ListFits(type, number)
            /\ 0 \in 0 .. Total(Written(number)[type])
        BY <1>1, <1>4 DEF MessagesInv, MessageInv
      <3>2. 0 = CountRead(type, number, 0)
        BY DEF CountRead
      <3> QED
        BY <3>1, <3>2, ReaderLayout
    <2>2. Total(Read(0)[type]) \in Nat
      BY <2>1 DEF ReaderFits
    <2>3. Len(got') = 0 /\ count' = 0
      BY <1>1
    <2>4. \A pos : Placed(out.data, wrote, pos) => pos[1] = 0
      BY DEF Placed
    <2>5. count' = CountRead(type, number, 0)
      BY <2>3 DEF CountRead
    <2>6. Len(got') <= Len(wrote) /\ Len(got') <= Total(Read(count')[type])
      BY <1>4, <2>2, <2>3
    <2>7. \A i \in 1 .. Len(got') : got'[i] = Back(wrote[i])
      BY <2>3
    <2>8. Len(got') + 1 = 1
      BY <2>3
    <2> QED
      BY <1>1, <1>5, <2>3, <2>4, <2>5, <2>6, <2>7, <2>8 DEF ReadInv
  <1> QED
    BY <1>1, <1>2, <1>3, <1>6, <1>7 DEF MessagesInv, ThrowsOnlyOnLongList

LEMMA CountReadNext ==
  ASSUME NEW t, NEW n, NEW k \in Nat
  PROVE  CountRead(t, n, k + 1) =
           IF k = 0 /\ Numeric(FieldAt(Written(n)[t], 1)) THEN Held(FieldAt(Written(n)[t], 1), n)
           ELSE CountRead(t, n, k)
  BY DEF CountRead

(* Two bytes of four decode to something, if not to what they are half of. *)
HoldsHalf(data, from, v) ==
  from + 4 <= Len(data) /\ \A j \in 1 .. 4 : data[from + j] = <<v, 4, j>>

LEMMA SecondAppended ==
  ASSUME NEW g \in Seq(Item), Len(g) = 1, NEW e \in Item
  PROVE  Append(g, e) \in Seq(Item) /\ Len(Append(g, e)) = 2 /\ Append(g, e)[1] = g[1]
  <1> DEFINE S == Item
             h == Append(g, e)
  <1>1. g \in Seq(S) /\ e \in S
    OBVIOUS
  <1> HIDE DEF S
  <1>2. h \in Seq(S) /\ Len(h) = Len(g) + 1 /\ \A i \in 1 .. Len(g) : h[i] = g[i]
    BY <1>1, AppendProperties
  <1> HIDE DEF h
  <1>3. Len(h) = 2 /\ h[1] = g[1]
    BY <1>2
  <1> QED
    BY <1>2, <1>3 DEF h, S

LEMMA HalfDecodes ==
  ASSUME NEW s, s.data \in Seq(Cell), s.cursor \in Nat, NEW v \in Nat,
         HoldsHalf(s.data, s.cursor, v)
  PROVE  Decode(BytesAt(s, 0, 2)) \in Int
  <1> DEFINE q == SubSeq(s.data, s.cursor + 0 + 1, s.cursor + 0 + 2)
  <1>1. s.cursor + 4 <= Len(s.data) /\ s.data[s.cursor + 1] = <<v, 4, 1>> /\ Len(s.data) \in Nat
    BY LenProperties DEF HoldsHalf
  <1>2. \A i \in s.cursor + 0 + 1 .. s.cursor + 0 + 2 : s.data[i] \in Cell
    <2> TAKE i \in s.cursor + 0 + 1 .. s.cursor + 0 + 2
    <2>1. i \in 1 .. Len(s.data)
      BY <1>1
    <2> QED
      BY <2>1, ElementOfSeq
  <1>3. /\ q \in Seq(Cell) /\ Len(q) = 2 /\ q[1] = s.data[s.cursor + 1]
    <2>1. PICK c \in Nat : c = s.cursor
      OBVIOUS
    <2>2. /\ c + 0 + 1 \in Int /\ c + 0 + 2 \in Int /\ c + 0 + 1 <= c + 0 + 2
          /\ c + 0 + 2 - (c + 0 + 1) + 1 = 2 /\ c + 0 + 1 + 1 - 1 = c + 1
      OBVIOUS
    <2>3. PICK m, n : m = c + 0 + 1 /\ n = c + 0 + 2
      OBVIOUS
    <2>7. m \in Int /\ n \in Int /\ m <= n /\ n - m + 1 = 2 /\ m + 1 - 1 = c + 1
      <3> HIDE DEF q
      <3> QED
        BY <2>2, <2>3
    <2>8. q = SubSeq(s.data, m, n) /\ \A i \in m .. n : s.data[i] \in Cell
      BY <1>2, <2>1, <2>3, Zenon
    <2>4. /\ m \in Int /\ n \in Int /\ m <= n /\ n - m + 1 = 2 /\ m + 1 - 1 = c + 1
          /\ q = SubSeq(s.data, m, n) /\ \A i \in m .. n : s.data[i] \in Cell
      BY <2>7, <2>8, Zenon
    <2> HIDE DEF q
    <2>5. /\ q \in Seq(Cell) /\ Len(q) = IF m <= n THEN n - m + 1 ELSE 0
          /\ \A i \in 1 .. n - m + 1 : q[i] = s.data[m + i - 1]
      BY <2>4, SubSeqProperties
    <2>6. q[1] = s.data[m + 1 - 1]
      BY <2>4, <2>5
    <2> QED
      BY <2>1, <2>4, <2>5, <2>6
  <1>4. BytesAt(s, 0, 2) = q
    BY DEF BytesAt
  <1> HIDE DEF q
  <1>5. q[1][1] = v /\ q # <<>>
    <2>1. q[1] = <<v, 4, 1>>
      BY <1>1, <1>3
    <2>2. <<v, 4, 1>>[1] = v
      OBVIOUS
    <2>3. q # <<>>
      <3>1. Len(<<>>) = 0 /\ 2 # 0
        OBVIOUS
      <3> QED
        BY <1>3, <3>1, Zenon
    <2> QED
      BY <2>1, <2>2, <2>3, Zenon
  <1>6. Decode(q) \in {v, Garbled}
    BY <1>5 DEF Decode
  <1> QED
    BY <1>4, <1>6 DEF Garbled

LEMMA InvRead ==
  ASSUME MessagesInv, ReadNext
  PROVE  MessagesInv'
  <1> DEFINE k == Len(got)
             kind == FieldAt(Read(count)[type], k + 1)
  <1>1. /\ phase = "reading" /\ k # Total(Read(count)[type])
        /\ type' = type /\ number' = number /\ out' = out /\ wrote' = wrote /\ sent' = sent
    BY DEF ReadNext, AllRead
  <1>2. /\ type \in Types /\ number \in Numbers(type) /\ number \in Nat
        /\ ListFits(type, number) /\ FieldsTyped(Written(number)[type])
    BY <1>1, NumbersAre, WrittenTyped DEF MessagesInv, MessageInv
  <1>3. /\ wrote \in Seq(WrittenItem) /\ Len(wrote) \in Nat
        /\ out.data \in Seq(Cell) /\ Len(out.data) \in Nat
        /\ \A i \in 1 .. Len(wrote) : ItemOK(wrote[i], FieldAt(Written(number)[type], i), number)
    BY LenProperties DEF MessagesInv, OutInv, StreamOK, Stream
  <1>4. PICK pos : Placed(out.data, wrote, pos)
    BY DEF MessagesInv, OutInv
  <1>5. /\ in \in InStream /\ in.data \in Seq(Cell) /\ in.cursor \in Nat /\ count \in Nat
        /\ in.cursor <= Len(in.data) /\ got \in Seq(Item) /\ k \in Nat
    BY LenProperties DEF MessagesInv, InInv, InStream
  <1>6. /\ in.data = out.data
        /\ Len(wrote) = Total(Written(number)[type])
        /\ k <= Len(wrote) /\ k <= Total(Read(count)[type])
        /\ \A i \in 1 .. k : got[i] = Back(wrote[i]) \/ HalfRead(type, i)
        /\ count = CountRead(type, number, k)
        /\ \A p : Placed(out.data, wrote, p) => in.cursor = p[k + 1] \/ HalfRead(type, k)
    BY <1>1 DEF MessagesInv, ReadInv
  <1>7. ReaderFits(type, number, k, count)
    <2>1. k \in 0 .. Total(Written(number)[type])
      BY <1>2, <1>5, <1>6 DEF FieldsTyped
    <2> QED
      BY <1>2, <1>6, <2>1, ReaderLayout
  <1>8. Total(Read(count)[type]) \in Nat /\ k < Total(Read(count)[type]) /\ kind \in Kinds
    BY <1>1, <1>5, <1>6, <1>7 DEF ReaderFits
  <1>13. /\ ~HalfRead(type, k)
         /\ in.cursor = pos[k + 1] /\ \A p : Placed(out.data, wrote, p) => in.cursor = p[k + 1]
    <2>1. ~HalfRead(type, k)
      <3>1. type = "JoinSuccess" => Total(Read(count)[type]) = 2
        BY PartLayout
      <3>2. ~(2 < 2)
        OBVIOUS
      <3> QED
        BY <1>8, <3>1, <3>2, Zenon DEF HalfRead
    <2> QED
      BY <1>4, <1>6, <2>1
  <1>9. phase' = phase => MessageInv'
    BY <1>1 DEF MessagesInv, MessageInv
  <1>10. OutInv'
    BY <1>1 DEF MessagesInv, OutInv
  <1>11. CASE k = Len(wrote)
    <2>1. type = "Notify" /\ ~(number < Byte)
      BY <1>6, <1>7, <1>8, <1>11 DEF ReaderFits
    <2>2. in.cursor = Len(in.data)
      BY <1>4, <1>6, <1>11, <1>13 DEF Placed
    <2>3. ~CanRead(in, kind)
      BY <1>5, <1>8, <2>2, NoFieldAtEnd
    <2>4. phase' = "thrown" /\ got' = got /\ in' = in /\ count' = count
      BY <2>3 DEF ReadNext
    <2>5. number >= Byte
      BY <1>2, <2>1, MessagesAssumption
    <2>6. MessageInv'
      BY <1>1, <2>4 DEF MessagesInv, MessageInv
    <2>7. InInv'
      BY <2>4 DEF MessagesInv, InInv
    <2> QED
      BY <1>1, <1>10, <2>1, <2>4, <2>5, <2>6, <2>7 DEF MessagesInv, ReadInv, ThrowsOnlyOnLongList
  <1>14. CASE k # Len(wrote) /\ HalfRead(type, k + 1)
    <2>1. k = 1 /\ type = "JoinSuccess" /\ kind = "I16" /\ FieldAt(Written(number)[type], 2) = "I32"
          /\ Total(Read(count)[type]) = 2 /\ Len(wrote) = 2
      <3>1. k = 1 /\ k + 1 = 2 /\ type = "JoinSuccess"
        <4>1. k \in Nat /\ k + 1 = 2 /\ type = "JoinSuccess"
          BY <1>5, <1>14, Zenon DEF HalfRead
        <4> HIDE DEF k
        <4> QED
          BY <4>1
      <3>2. /\ FieldAt(Read(count)["JoinSuccess"], 2) = "I16"
            /\ FieldAt(Written(number)["JoinSuccess"], 2) = "I32"
            /\ Total(Read(count)["JoinSuccess"]) = 2 /\ Total(Written(number)["JoinSuccess"]) = 2
        BY PartLayout
      <3> HIDE DEF k
      <3> QED
        BY <1>6, <3>1, <3>2
    <2> DEFINE w == wrote[2]
               v == Held(w.kind, w.value)
    <2>2. w.kind = "I32" /\ w.size = 4 /\ w.value \in Nat
      <3>1. ItemOK(w, "I32", number) /\ w \in WrittenItem
        BY <1>3, <2>1, ElementOfSeq
      <3>2. "I32" \notin DOMAIN Prefix /\ Width["I32"] = 4
        BY DEF Prefix, Width
      <3> QED
        BY <3>1, <3>2 DEF ItemOK, WrittenItem
    <2>3. /\ in.cursor \in Nat /\ in.cursor + 4 <= Len(in.data)
          /\ \A j \in 1 .. 4 : in.data[in.cursor + j] = <<v, 4, j>>
      <3>1. Ahead("I32") = 0
        BY DEF Ahead, Prefix
      <3>2. pos[2] \in Nat /\ HoldsAt(out.data, pos[2] + Ahead(w.kind), v, w.size)
        <4>1. 2 \in 1 .. Len(wrote) /\ 2 \in 1 .. Len(wrote) + 1
          BY <2>1
        <4> QED
          BY <1>4, <4>1 DEF Placed
      <3>3. in.cursor = pos[2] /\ in.data = out.data
        BY <1>6, <1>13, <2>1
      <3>4. HoldsAt(in.data, in.cursor, v, 4)
        BY <2>2, <3>1, <3>2, <3>3
      <3> HIDE DEF v
      <3> QED
        BY <1>5, <3>4 DEF HoldsAt
    <2>4. Ahead("I16") = 0 /\ LengthAt(in, "I16") = 2 /\ "I16" # "Chunk" /\ ~Numeric("I16")
          /\ "I16" \in Kinds
      BY KindsAre DEF Ahead, LengthAt, Prefix, Width, ValueKinds
    <2>5. CanRead(in, kind)
      <3>1. Available(in, 0) /\ Available(in, 0 + 2)
        BY <2>3, <1>5 DEF Available
      <3> QED
        BY <2>1, <2>4, <3>1 DEF CanRead
    <2> DEFINE bytes == BytesAt(in, 0, 2)
    <2>6. ReadItem(in, kind) = [kind |-> "I16", size |-> 2, value |-> Decode(bytes)]
      <3>1. Available(in, 0 + 2)
        BY <2>3, <1>5 DEF Available
      <3> QED
        BY <2>1, <2>4, <3>1 DEF ReadItem
    <2>7. Decode(bytes) \in Int
      <3>1. v \in Nat
        BY <2>2, HeldTypes
      <3> HIDE DEF v
      <3>2. HoldsHalf(in.data, in.cursor, v)
        BY <2>3 DEF HoldsHalf
      <3> QED
        BY <1>5, <3>1, <3>2, HalfDecodes
    <2> HIDE DEF bytes, kind, w
    <2>8. /\ got' = Append(got, [kind |-> "I16", size |-> 2, value |-> Decode(bytes)])
          /\ in' = [in EXCEPT !.cursor = @ + 0 + 2] /\ count' = count /\ phase' = phase
      <3>1. ~Numeric(kind) /\ Ahead(kind) = 0
        BY <2>1, <2>4
      <3> QED
        BY <2>5, <2>6, <3>1 DEF ReadNext, kind
    <2>9. /\ got' \in Seq(Item) /\ Len(got') = 2 /\ got'[1] = got[1]
      <3>1. [kind |-> "I16", size |-> 2, value |-> Decode(bytes)] \in Item
        BY <2>4, <2>7 DEF Item
      <3> QED
        <4>1. PICK g \in Seq(Item) : g = got /\ Len(g) = 1
          BY <1>5, <2>1
        <4>2. PICK e \in Item : e = [kind |-> "I16", size |-> 2, value |-> Decode(bytes)]
          BY <3>1
        <4>3. got' = Append(g, e)
          BY <2>8, <4>1, <4>2
        <4> QED
          BY <4>1, <4>3, SecondAppended
    <2>10. in' \in InStream /\ in'.data = out.data /\ in'.cursor <= Len(in'.data)
      <3>1. PICK c \in Nat : c = in.cursor
        BY <2>3
      <3>0. PICK l \in Nat : l = Len(in.data)
        BY <1>5 DEF InStream
      <3>2. c + 0 + 2 \in Nat /\ c + 0 + 2 <= Len(in.data)
        <4>1. c + 4 <= l
          BY <2>3, <3>0, <3>1
        <4>2. c + 0 + 2 \in Nat /\ c + 0 + 2 <= l
          BY <4>1
        <4> QED
          BY <3>0, <4>2
      <3>3. in'.cursor = c + 0 + 2 /\ in'.data = in.data
            /\ in' = [data |-> in.data, cursor |-> c + 0 + 2]
        BY <1>5, <2>8, <3>1 DEF InStream
      <3> QED
        BY <1>5, <1>6, <3>2, <3>3 DEF InStream
    <2>11. InInv'
      BY <1>5, <2>8, <2>9, <2>10 DEF InInv
    <2>12. ReadInv'
      <3>1. CountRead(type, number, 2) = CountRead(type, number, 1)
        BY DEF CountRead
      <3>2. \A i \in 1 .. 2 : got'[i] = Back(wrote[i]) \/ HalfRead(type, i)
        <4> TAKE i \in 1 .. 2
        <4>1. i = 1 \/ i = 2
          OBVIOUS
        <4> QED
          BY <1>6, <2>1, <2>9, <4>1 DEF HalfRead
      <3>3. HalfRead(type, Len(got'))
        BY <2>1, <2>9 DEF HalfRead
      <3> QED
        BY <1>1, <1>6, <2>1, <2>8, <2>9, <2>10, <3>1, <3>2, <3>3 DEF ReadInv
    <2>13. MessageInv'
      BY <1>9, <2>8
    <2> QED
      BY <1>1, <1>10, <2>8, <2>11, <2>12, <2>13 DEF MessagesInv, ThrowsOnlyOnLongList
  <1>12. CASE k # Len(wrote) /\ ~HalfRead(type, k + 1)
    <2> DEFINE w == wrote[k + 1]
               item == Back(w)
    <2>1. k + 1 \in 1 .. Len(wrote) /\ k < Total(Written(number)[type])
      BY <1>3, <1>5, <1>6, <1>12
    <2>2. /\ w \in WrittenItem /\ item \in WrittenItem /\ w.kind \in Kinds /\ w.size \in Nat
          /\ w.value \in Nat
      <3>1. w \in WrittenItem
        BY <1>3, <2>1, ElementOfSeq
      <3> HIDE DEF w
      <3> QED
        BY <3>1, BackTypes DEF WrittenItem
    <2>3. kind = FieldAt(Written(number)[type], k + 1)
      BY <1>7, <1>8, <1>12, <2>1 DEF ReaderFits
    <2>4. ItemOK(w, kind, number)
      BY <1>3, <2>1, <2>3
    <2>5. /\ pos[k + 1] \in Nat
          /\ HoldsAt(out.data, pos[k + 1], w.size, Ahead(w.kind))
          /\ HoldsAt(out.data, pos[k + 1] + Ahead(w.kind), Held(w.kind, w.value), w.size)
      <3>1. k + 1 \in 1 .. Len(wrote) + 1
        BY <2>1
      <3> QED
        BY <1>4, <2>1, <3>1 DEF Placed
    <2> HIDE DEF kind
    <2>6. w.kind = kind /\ (kind \notin DOMAIN Prefix => w.size = Width[kind])
          /\ (Numeric(kind) => w.value = number)
      BY <2>4 DEF ItemOK
    <2>7. CanRead(in, kind) /\ ReadItem(in, kind) = item
      <3> DEFINE v == Held(kind, w.value)
      <3>1. v \in Nat
        BY <2>2, HeldTypes
      <3>2. w.size = 0 => v = 0
        <4>1. w.size = 0 => ~Numeric(kind)
          BY <1>8, <2>6, KindsAre
        <4>2. ~Numeric(kind) => v = w.value
          BY DEF Numeric, CountKinds, Held
        <4>3. w.size = 0 => w.value = 0
          BY <2>4 DEF ItemOK
        <4> QED
          BY <4>1, <4>2, <4>3
      <3>3. HoldsAt(in.data, in.cursor, w.size, Ahead(kind))
            /\ HoldsAt(in.data, in.cursor + Ahead(kind), v, w.size)
        BY <1>6, <1>13, <2>5, <2>6
      <3>4. item = [kind |-> kind, size |-> w.size, value |-> v]
        BY <2>6 DEF Back
      <3> HIDE DEF v, w, item
      <3>5. /\ CanRead(in, kind)
            /\ ReadItem(in, kind) = [kind |-> kind, size |-> w.size, value |-> v]
        BY <1>5, <1>8, <2>2, <2>6, <3>1, <3>2, <3>3, ReadsField
      <3> QED
        BY <3>4, <3>5
    <2>8. /\ got' = Append(got, item)
          /\ in' = [in EXCEPT !.cursor = @ + Ahead(kind) + item.size]
          /\ count' = IF Numeric(kind) THEN item.value ELSE count
          /\ phase' = phase
      BY <2>7 DEF ReadNext, kind
    <2>9. item.size = w.size /\ item.value = Held(kind, w.value)
      BY <2>6 DEF Back
    <2> HIDE DEF item
    <2>10. /\ in' \in InStream /\ in'.data = out.data
           /\ in'.cursor = pos[k + 1] + Ahead(kind) + w.size
           /\ in'.cursor \in Nat /\ in'.cursor <= Len(out.data)
      <3>1. PICK a \in Nat : a = Ahead(kind)
        BY AheadTypes
      <3>2. pos[k + 1] + a + w.size <= Len(out.data)
        BY <2>5, <2>6, <3>1 DEF HoldsAt
      <3>3. pos[k + 1] + a + w.size \in Nat
        BY <2>2, <2>5, <3>1
      <3> QED
        BY <1>5, <1>6, <1>13, <2>8, <2>9, <3>1, <3>2, <3>3 DEF InStream
    <2>11. /\ got' \in Seq(Item) /\ Len(got') = k + 1 /\ got'[k + 1] = item
           /\ \A i \in 1 .. k : got'[i] = got[i]
      <3>1. item \in Item
        BY <2>2 DEF WrittenItem, Item
      <3> QED
        BY <1>5, <2>8, <3>1, AppendProperties
    <2>12. MessageInv'
      BY <1>9, <2>8
    <2>13. count' \in Nat /\ count' = CountRead(type, number, k + 1)
      <3>1. CASE Numeric(kind)
        <4>1. k = 0
          <5>1. k + 1 \in 1 .. Total(Written(number)[type])
            BY <1>6, <2>1
          <5>2. k + 1 = 1
            BY <1>2, <2>3, <3>1, <5>1 DEF FieldsTyped
          <5> QED
            BY <1>5, <5>2
        <4>2. kind = FieldAt(Written(number)[type], 1)
          BY <2>3, <4>1
        <4>3. CountRead(type, number, k + 1) = Held(kind, number)
          BY <1>5, <3>1, <4>1, <4>2, CountReadNext
        <4> QED
          BY <1>2, <2>6, <2>8, <2>9, <3>1, <4>3, HeldTypes
      <3>2. CASE ~Numeric(kind)
        <4>1. k = 0 => ~Numeric(FieldAt(Written(number)[type], 1))
          BY <2>3, <3>2
        <4>2. CountRead(type, number, k + 1) = CountRead(type, number, k)
          BY <1>5, <4>1, CountReadNext
        <4> QED
          BY <1>5, <1>6, <2>8, <3>2, <4>2
      <3> QED
        BY <3>1, <3>2
    <2>14. InInv'
      BY <2>10, <2>11, <2>13 DEF InInv
    <2>15. \A i \in 1 .. k + 1 : got'[i] = Back(wrote[i]) \/ HalfRead(type, i)
      <3> TAKE i \in 1 .. k + 1
      <3>1. i \in 1 .. k \/ i = k + 1
        BY <1>5
      <3> QED
        BY <1>6, <2>11, <3>1 DEF item
    <2>16. k + 1 <= Total(Read(count')[type])
      <3>1. CASE count' = count
        BY <1>5, <1>8, <3>1
      <3>2. CASE count' # count
        <4>1. k = 0
          <5>1. k # 0 => CountRead(type, number, k + 1) = CountRead(type, number, k)
            BY <1>5, CountReadNext
          <5> QED
            BY <1>6, <2>13, <3>2, <5>1
        <4>2. ReaderFits(type, number, k + 1, count')
          <5>1. k + 1 \in 0 .. Total(Written(number)[type])
            BY <1>6, <2>1
          <5>2. PICK c : c = count' /\ c = CountRead(type, number, k + 1)
            BY <2>13
          <5>3. ReaderFits(type, number, k + 1, c)
            BY <1>2, <5>1, <5>2, ReaderLayout
          <5> QED
            BY <5>2, <5>3
        <4>3. Numeric(FieldAt(Written(number)[type], 1))
          BY <1>6, <2>13, <3>2, <4>1 DEF CountRead
        <4> QED
          BY <4>1, <4>2, <4>3 DEF ReaderFits
      <3> QED
        BY <3>1, <3>2
    <2>17. \A p : Placed(out.data, wrote, p) => in'.cursor = p[k + 1 + 1]
      <3> SUFFICES ASSUME NEW p, Placed(out.data, wrote, p) PROVE in'.cursor = p[k + 1 + 1]
        OBVIOUS
      <3>1. p[k + 1 + 1] = p[k + 1] + Ahead(w.kind) + w.size
        BY <2>1 DEF Placed
      <3>2. p[k + 1] = pos[k + 1]
        BY <1>13
      <3> QED
        BY <2>6, <2>10, <3>1, <3>2
    <2>18. ReadInv'
      <3>1. k + 1 <= Len(wrote)
        BY <2>1
      <3> HIDE DEF k
      <3>2. Len(got') = k + 1
        BY <2>11
      <3> QED
        BY <1>1, <1>6, <2>10, <2>13, <2>15, <2>16, <2>17, <3>1, <3>2 DEF ReadInv
    <2> QED
      BY <1>1, <1>10, <2>8, <2>12, <2>14, <2>18 DEF MessagesInv, ThrowsOnlyOnLongList
  <1> QED
    BY <1>11, <1>12, <1>14

LEMMA InvDone ==
  ASSUME MessagesInv, Done
  PROVE  MessagesInv'
  <1>1. /\ phase' = "idle" /\ type' = type /\ number' = number /\ out' = out /\ wrote' = wrote
        /\ in' = in /\ got' = got /\ count' = count /\ sent' = sent
    BY DEF Done
  <1> QED
    BY <1>1 DEF MessagesInv, MessageInv, OutInv, InInv, ReadInv, ThrowsOnlyOnLongList

LEMMA InvStutters ==
  ASSUME MessagesInv, UNCHANGED vars
  PROVE  MessagesInv'
  <1>1. /\ phase' = phase /\ type' = type /\ number' = number /\ out' = out /\ wrote' = wrote
        /\ in' = in /\ got' = got /\ count' = count /\ sent' = sent
    BY DEF vars
  <1> QED
    BY <1>1 DEF MessagesInv, MessageInv, OutInv, InInv, ReadInv, ThrowsOnlyOnLongList

LEMMA MessagesInvariant == Spec => []MessagesInv
  <1>1. MessagesInv /\ [Next]_vars => MessagesInv'
    BY InvBegin, InvWrite, InvSend, InvRead, InvDone, InvStutters DEF Next
  <1> QED
    BY InvInit, <1>1, PTL DEF Spec

----------------------------------------------------------------------------
(* The theorems. *)

LEMMA InvTypes == MessagesInv => TypeOK
  <1> SUFFICES ASSUME MessagesInv PROVE TypeOK
    OBVIOUS
  <1>1. WrittenItem \subseteq Item
    BY DEF WrittenItem, Item
  <1>2. wrote \in Seq(Item) /\ got \in Seq(Item)
    BY <1>1, SeqMonotonic DEF MessagesInv, OutInv, InInv
  <1>3. /\ out.data \in Seq(Cell) /\ out.allocated \in Nat /\ out.cursor \in 0 .. Len(out.data)
        /\ Len(out.data) <= out.allocated /\ out.allocated % AllocStep = 0
    BY DEF MessagesInv, OutInv, StreamOK, Stream
  <1>4. in.data \in Seq(Cell) /\ in.cursor \in 0 .. Len(in.data) /\ count \in Nat
    BY LenProperties DEF MessagesInv, InInv, InStream
  <1>5. number \in Nat
    BY NumbersAre DEF MessagesInv, MessageInv
  <1> QED
    BY <1>2, <1>3, <1>4, <1>5 DEF MessagesInv, MessageInv, TypeOK

(* Only a list has a count of two bytes. *)
LEMMA ShortCounts ==
  ASSUME NEW t \in Types, NEW n \in Nat, Total(Written(n)[t]) # 0,
         FieldAt(Written(n)[t], 1) = "Count16"
  PROVE  t \in {"ServerInfoRequest", "Notify"}
  <1>1. "Count16" # "Flags" /\ Numeric("Count16")
    BY DEF Numeric, CountKinds
  <1>2. t \notin PlainTypes
    <2> SUFFICES ASSUME t \in PlainTypes PROVE FALSE
      OBVIOUS
    <2>1. 1 \in 1 .. Total(Written(n)[t])
      BY WrittenTyped DEF FieldsTyped
    <2> QED
      BY <1>1, <2>1, PlainTypesTyped
  <1>3. t # "Move"
    BY <1>1, MoveLayout
  <1>4. t \in CountedTypes
    BY <1>2, <1>3, TypesAre
  <1> QED
    BY <1>4, CountedWritten, CountedTypesTyped

LEMMA InvReadsBack == MessagesInv => ReadsBack
  <1> SUFFICES ASSUME MessagesInv, phase = "reading", CountFits
               PROVE  /\ Len(got) <= Len(wrote)
                      /\ \A i \in 1 .. Len(got) : got[i] = wrote[i] \/ HalfRead(type, i)
                      /\ AllRead /\ type \notin ReadInPart =>
                           got = wrote /\ in.cursor = Len(in.data)
    BY DEF ReadsBack
  <1> DEFINE k == Len(got)
  <1>1. /\ type \in Types /\ number \in Numbers(type) /\ number \in Nat
        /\ ListFits(type, number) /\ FieldsTyped(Written(number)[type])
    BY NumbersAre, WrittenTyped DEF MessagesInv, MessageInv
  <1>2. /\ wrote \in Seq(WrittenItem) /\ got \in Seq(Item) /\ Len(wrote) \in Nat /\ k \in Nat
        /\ \A i \in 1 .. Len(wrote) : ItemOK(wrote[i], FieldAt(Written(number)[type], i), number)
    BY LenProperties DEF MessagesInv, OutInv, InInv
  <1>3. /\ in.data = out.data /\ Len(wrote) = Total(Written(number)[type])
        /\ k <= Len(wrote)
        /\ \A i \in 1 .. k : got[i] = Back(wrote[i]) \/ HalfRead(type, i)
        /\ count = CountRead(type, number, k)
        /\ \A pos : Placed(out.data, wrote, pos) => in.cursor = pos[k + 1] \/ HalfRead(type, k)
    BY DEF MessagesInv, ReadInv
  <1>4. \A i \in 1 .. Len(wrote) : Back(wrote[i]) = wrote[i]
    <2> TAKE i \in 1 .. Len(wrote)
    <2>1. PICK kind : kind = FieldAt(Written(number)[type], i)
      OBVIOUS
    <2>2. /\ wrote[i] \in WrittenItem /\ wrote[i].kind = kind
          /\ (Numeric(kind) => wrote[i].value = number /\ i = 1)
      BY <1>1, <1>2, <1>3, <2>1, ElementOfSeq DEF ItemOK, FieldsTyped
    <2>3. Held(kind, wrote[i].value) = wrote[i].value
      <3>1. CASE kind = "Count8"
        <4>1. i = 1 /\ wrote[i].value = number
          BY <2>2, <3>1 DEF Numeric, CountKinds
        <4>2. wrote # <<>> /\ wrote[1].kind = "Count8"
          BY <2>2, <3>1, <4>1
        <4>3. number < Byte
          BY <4>2 DEF CountFits
        <4>4. number % Byte = number
          BY <1>1, <4>3, MessagesAssumption, SMTT(30)
        <4> QED
          BY <3>1, <4>1, <4>4 DEF Held
      <3>2. CASE kind = "Count16"
        <4>1. i = 1 /\ wrote[i].value = number
          BY <2>2, <3>2 DEF Numeric, CountKinds
        <4>2. type \in {"ServerInfoRequest", "Notify"}
          <5>1. Total(Written(number)[type]) # 0
            BY <1>2, <1>3
          <5>2. FieldAt(Written(number)[type], 1) = "Count16"
            BY <2>1, <3>2, <4>1
          <5> QED
            BY <1>1, <5>1, <5>2, ShortCounts
        <4>3. number < Short
          BY <1>1, <4>2 DEF ListFits
        <4>4. number % Short = number
          BY <1>1, <4>3, MessagesAssumption, SMTT(30)
        <4> QED
          BY <3>2, <4>1, <4>4 DEF Held
      <3>3. CASE kind \notin {"Count8", "Count16"}
        BY <3>3 DEF Held
      <3> QED
        BY <3>1, <3>2, <3>3
    <2> QED
      BY <2>2, <2>3 DEF Back, WrittenItem
  <1>5. \A i \in 1 .. k : got[i] = wrote[i] \/ HalfRead(type, i)
    BY <1>2, <1>3, <1>4
  <1>6. type \notin ReadInPart => \A i \in Nat : ~HalfRead(type, i)
    BY DEF ReadInPart, HalfRead
  <1>7. ASSUME AllRead, type \notin ReadInPart PROVE got = wrote /\ in.cursor = Len(in.data)
    <2>1. k = Total(Read(count)[type])
      BY <1>7 DEF AllRead
    <2>2. k = Len(wrote)
      <3> SUFFICES ASSUME Len(wrote) # 0 PROVE k = Len(wrote)
        BY <1>2, <1>3
      <3>1. 1 \in 1 .. Len(wrote) /\ wrote # <<>>
        BY <1>2
      <3>2. wrote[1].kind = FieldAt(Written(number)[type], 1)
        BY <1>2, <3>1 DEF ItemOK
      <3>3. FieldAt(Written(number)[type], 1) = "Count8" => number < Byte
        BY <3>1, <3>2 DEF CountFits
      <3>4. ReaderFits(type, number, k, count)
        <4>1. k \in 0 .. Total(Written(number)[type])
          BY <1>2, <1>3
        <4> QED
          BY <1>1, <1>3, <4>1, ReaderLayout
      <3> QED
        BY <1>3, <1>7, <2>1, <3>3, <3>4 DEF ReaderFits
    <2>3. got = wrote
      <3>1. \A i \in 1 .. k : got[i] = wrote[i]
        BY <1>2, <1>5, <1>6, <1>7
      <3>2. wrote \in Seq(Item)
        <4>1. WrittenItem \subseteq Item
          BY DEF WrittenItem, Item
        <4> QED
          BY <1>2, <4>1, SeqMonotonic
      <3> QED
        BY <1>2, <2>2, <3>1, <3>2, SeqEqual
    <2>4. PICK pos : Placed(out.data, wrote, pos)
      BY DEF MessagesInv, OutInv
    <2>5. in.cursor = pos[k + 1]
      BY <1>2, <1>3, <1>6, <1>7, <2>4
    <2>6. in.cursor = Len(in.data)
      BY <1>3, <2>2, <2>4, <2>5 DEF Placed
    <2> QED
      BY <2>3, <2>6
  <1> QED
    BY <1>3, <1>5, <1>7

(* Type correctness of the messages: a buffer is never fuller than its memory, which is
   allocated in whole steps, and neither stream's cursor leaves its data. *)
THEOREM MessagesTyped == Spec => []TypeOK
  BY MessagesInvariant, InvTypes, PTL

(* Whoever reads a message gets what its writer put in, whatever the sizes of its strings and
   objects and however many elements its list has, and leaves nothing: but for the low half of
   the world's id in the answer to a join, for what the readers of three types leave, and for
   a list longer than its one-byte count says. *)
THEOREM MessagesReadBack == Spec => []ReadsBack
  BY MessagesInvariant, InvReadsBack, PTL

(* No message makes its reader throw, but for a list of block updates with more of them than
   the one-byte index of readFromMsg counts. *)
THEOREM MessagesThrowOnlyOnLongList == Spec => []ThrowsOnlyOnLongList
  <1>1. MessagesInv => ThrowsOnlyOnLongList
    BY DEF MessagesInv
  <1> QED
    BY MessagesInvariant, <1>1, PTL
=============================================================================
