---------------------------- MODULE SignonProofs ----------------------------
(***************************************************************************)
(* What the signon keeps for any number of map changes, connections and     *)
(* packets: the types, the map that a client in the game knows, and when a    *)
(* healthy client may be thrown back to a new connection.                    *)
(***************************************************************************)
EXTENDS Signon, TLAPS

\* The values of the records.
ClientType == [state : NONE..CHANGELEVEL, count : -1..MaxSpawn, updating : BOOLEAN, retry : BOOLEAN]
SlotStates == {NONE} \cup CONNECTED..FULL
SlotType   == [state : SlotStates, sendInfo : BOOLEAN, full : BOOLEAN]
SlotOK     == slot \in SlotType /\ (slot.sendInfo => slot.state = CONNECTED)
LooseType  == [Loose -> 0..MaxLoose]

LEMMA States ==
  /\ NONE = 0 /\ CHALLENGE = 1 /\ CONNECTED = 2 /\ NEW_MAP = 3 /\ PRESPAWN = 4
  /\ SPAWN = 5 /\ FULL = 6 /\ CHANGELEVEL = 7
BY DEF NONE, CHALLENGE, CONNECTED, NEW_MAP, PRESPAWN, SPAWN, FULL, CHANGELEVEL

LEMMA Bounds == MaxRetry \in Nat /\ MaxConnect \in Nat /\ MaxSpawn \in Nat \ {0} /\ MaxLoose \in Nat \ {0}
BY SignonAssumption

-----------------------------------------------------------------------------
(* Queues of messages and of packets.                                      *)

\* A message of a state of the signon is a message.
LEMMA MsgType ==
  ASSUME NEW s \in {NONE} \cup CONNECTED..CHANGELEVEL, NEW c \in -1..MaxSpawn
  PROVE  Msg(s, c) \in Messages /\ Msg(s, c).state = s /\ Msg(s, c).count = c
BY DEF Msg, Messages

\* The messages that are sent.
LEMMA Sent ==
  /\ Msg(NONE, -1) \in Messages /\ Msg(CONNECTED, -1) \in Messages /\ Msg(FULL, -1) \in Messages
  /\ \A c \in -1..MaxSpawn : \A s \in CONNECTED..CHANGELEVEL : Msg(s, c) \in Messages
BY Bounds, States DEF Msg, Messages

\* r is what comes of q when d messages of its front, and some of its end, are gone.
Shift(r, q, d) ==
  /\ r \in Seq(Messages) /\ Len(r) + d <= Len(q)
  /\ \A i \in 1..Len(r) : r[i] = q[i + d]
Part(r, q) == \E d \in Nat : Shift(r, q, d)

LEMMA KeptIsPart ==
  ASSUME NEW q \in Seq(Messages), NEW k \in Kept(q) PROVE Part(k, q) /\ Shift(k, q, 0)
<1>1. PICK n \in 0..Len(q) : k = SubSeq(q, 1, n)
  BY DEF Kept
<1>2. k \in Seq(Messages) /\ Len(k) = n /\ \A i \in 1..n : k[i] = q[i]
  BY <1>1
<1>3. Shift(k, q, 0)
  BY <1>1, <1>2 DEF Shift
<1> QED BY <1>3 DEF Part

LEMMA RestIsPart ==
  ASSUME NEW q \in Seq(Messages), q # <<>>, NEW r \in Rest(q) PROVE Part(r, q)
<1>1. PICK n \in 2..Len(q) + 1 : r = SubSeq(q, n, Len(q))
  BY DEF Rest
<1>2. n - 1 \in Nat /\ Len(q) \in Nat
  BY <1>1
<1>3. r \in Seq(Messages) /\ Len(r) = Len(q) - n + 1 /\ \A i \in 1..Len(r) : r[i] = q[i + n - 1]
  BY <1>1, <1>2
<1>4. Shift(r, q, n - 1)
  BY <1>2, <1>3 DEF Shift
<1> QED BY <1>2, <1>4 DEF Part

LEMMA TailIsPart ==
  ASSUME NEW q \in Seq(Messages), q # <<>> PROVE Part(Tail(q), q) /\ Shift(Tail(q), q, 1)
<1>1. Tail(q) \in Seq(Messages) /\ Len(Tail(q)) = Len(q) - 1 /\ \A i \in 1..Len(Tail(q)) : Tail(q)[i] = q[i + 1]
  OBVIOUS
<1>2. Shift(Tail(q), q, 1)
  BY <1>1 DEF Shift
<1> QED BY <1>2 DEF Part

LEMMA Whole == ASSUME NEW q \in Seq(Messages) PROVE Shift(q, q, 0) /\ Part(q, q)
<1>1. Len(q) + 0 <= Len(q) /\ \A i \in 1..Len(q) : i + 0 = i
  OBVIOUS
<1>2. Shift(q, q, 0)
  BY <1>1 DEF Shift
<1> QED BY <1>2 DEF Part

LEMMA PartType ==
  ASSUME NEW q, NEW r, Part(r, q) PROVE r \in Seq(Messages)
BY DEF Part, Shift

LEMMA Appended ==
  ASSUME NEW q \in Seq(Messages), NEW m \in Messages
  PROVE  /\ Append(q, m) \in Seq(Messages) /\ Len(Append(q, m)) = Len(q) + 1
         /\ Append(q, m)[Len(q) + 1] = m /\ \A i \in 1..Len(q) : Append(q, m)[i] = q[i]
OBVIOUS

LEMMA HeadType ==
  ASSUME NEW q \in Seq(Messages), q # <<>>
  PROVE  Head(q) \in Messages /\ Head(q) = q[1] /\ Len(q) >= 1
OBVIOUS

LEMMA LooseChanges ==
  ASSUME NEW b \in LooseType, NEW k \in Loose
  PROVE  /\ With(b, k) \in LooseType
         /\ b[k] > 0 => Without(b, k) \in LooseType
         /\ Superseded(b) \in LooseType
<1>1. With(b, k) \in LooseType
  BY Bounds DEF With, LooseType
<1>2. b[k] > 0 => Without(b, k) \in LooseType
  BY Bounds DEF Without, LooseType
<1>3. Superseded(b) \in LooseType
  BY Bounds DEF Superseded, LooseType, Loose
<1> QED BY <1>1, <1>2, <1>3

-----------------------------------------------------------------------------
(* Types.                                                                  *)

LEMMA TypeParts ==
  TypeOK <=> /\ client \in ClientType /\ tries \in 0..MaxRetry /\ SlotOK
             /\ spawnCount \in 1..MaxSpawn /\ loose \in LooseType
             /\ toClient \in Seq(Messages) /\ toServer \in Seq(Messages)
             /\ linked \in BOOLEAN /\ fresh \in BOOLEAN /\ connects \in 0..MaxConnect
BY DEF TypeOK, ClientType, SlotOK, SlotType, SlotStates, LooseType

\* The same, a variable at a time.
LEMMA TypeNext ==
  ASSUME client' \in ClientType, tries' \in 0..MaxRetry, SlotOK', spawnCount' \in 1..MaxSpawn,
         loose' \in LooseType, toClient' \in Seq(Messages), toServer' \in Seq(Messages),
         linked' \in BOOLEAN, fresh' \in BOOLEAN, connects' \in 0..MaxConnect
  PROVE  TypeOK'
BY DEF TypeOK, ClientType, SlotOK, SlotType, SlotStates, LooseType

\* What the client leaves behind when it goes: a shorter queue with its NETMsg_Disconnect.
LEMMA Leaves ==
  ASSUME TypeOK, \E k \in Kept(toServer) : toServer' = Append(k, Msg(NONE, -1))
  PROVE  toServer' \in Seq(Messages)
<1>1. PICK k \in Kept(toServer) : toServer' = Append(k, Msg(NONE, -1))
  OBVIOUS
<1>2. toServer \in Seq(Messages)
  BY TypeParts
<1>3. k \in Seq(Messages)
  BY <1>1, <1>2, KeptIsPart DEF Shift
<1>4. Append(k, Msg(NONE, -1)) \in Seq(Messages)
  BY <1>3, Sent
<1> QED BY <1>1, <1>4

LEMMA ClearedType == \A c \in ClientType : Cleared(c) \in ClientType
<1>1. -1 \in -1..MaxSpawn
  BY Bounds
<1> QED BY <1>1 DEF Cleared, ClientType

LEMMA DisconnectType ==
  ASSUME TypeOK, NEW c \in ClientType, Disconnect(c)
  PROVE  client' \in ClientType /\ tries' \in 0..MaxRetry /\ toServer' \in Seq(Messages) /\ linked' \in BOOLEAN /\ fresh' \in BOOLEAN
<1>1. toServer' \in Seq(Messages)
  BY Leaves, TypeParts DEF Disconnect, CloseChannel
<1>2. client' \in ClientType
  BY States, ClearedType DEF Disconnect, ClientType
<1>3. tries' \in 0..MaxRetry
  BY Bounds DEF Disconnect, CloseChannel
<1>4. linked' \in BOOLEAN /\ fresh' \in BOOLEAN
  BY TypeParts, Zenon DEF Disconnect, CloseChannel
<1> QED BY <1>1, <1>2, <1>3, <1>4

LEMMA ConnectType ==
  ASSUME TypeOK, NEW c \in ClientType, Connect(c), connects' \in 0..MaxConnect PROVE TypeOK'
<1>1. toServer' \in Seq(Messages)
  BY Leaves, TypeParts DEF Connect, CloseChannel
<1>2. client' \in ClientType
  BY States, ClearedType DEF Connect, ClientType
<1>3. UNCHANGED <<slot, spawnCount, loose, toClient, fresh>> /\ tries' = 0 /\ linked' = FALSE
  BY DEF Connect, CloseChannel
<1>4. SlotOK' /\ spawnCount' \in 1..MaxSpawn /\ loose' \in LooseType /\ toClient' \in Seq(Messages) /\ fresh' \in BOOLEAN
  BY <1>3, TypeParts DEF SlotOK
<1>5. tries' \in 0..MaxRetry
  BY <1>3, Bounds
<1>6. linked' \in BOOLEAN
  BY <1>3
<1> QED BY <1>1, <1>2, <1>4, <1>5, <1>6, TypeNext

LEMMA UserConnectsType == ASSUME TypeOK, UserConnects PROVE TypeOK'
<1>1. connects' \in 0..MaxConnect
  BY TypeParts, Bounds DEF UserConnects
<1> QED BY <1>1, ConnectType, TypeParts DEF UserConnects

LEMMA RetryType == ASSUME TypeOK, Retry PROVE TypeOK'
<1>1. [client EXCEPT !.retry = FALSE] \in ClientType /\ connects' \in 0..MaxConnect
  BY TypeParts DEF Retry, ClientType
<1> QED BY <1>1, ConnectType DEF Retry

LEMMA ClientLeavesType == ASSUME TypeOK, ClientLeaves PROVE TypeOK'
<1>1. client' \in ClientType /\ tries' \in 0..MaxRetry /\ toServer' \in Seq(Messages) /\ linked' \in BOOLEAN /\ fresh' \in BOOLEAN
  BY DisconnectType, TypeParts DEF ClientLeaves
<1>2. UNCHANGED <<slot, spawnCount, loose, toClient, connects>>
  BY DEF ClientLeaves
<1>3. SlotOK' /\ spawnCount' \in 1..MaxSpawn /\ loose' \in LooseType /\ toClient' \in Seq(Messages)
      /\ connects' \in 0..MaxConnect
  BY <1>2, TypeParts DEF SlotOK
<1> QED BY <1>1, <1>3, TypeNext

LEMMA CheckForResendType == ASSUME TypeOK, CheckForResend PROVE TypeOK'
<1>1. UNCHANGED <<slot, spawnCount, toClient, connects>>
  BY DEF CheckForResend
<1>2. SlotOK' /\ spawnCount' \in 1..MaxSpawn /\ toClient' \in Seq(Messages) /\ connects' \in 0..MaxConnect
  BY <1>1, TypeParts DEF SlotOK
<1>3. CASE Disconnect(client) /\ UNCHANGED loose
  <2>1. client' \in ClientType /\ tries' \in 0..MaxRetry /\ toServer' \in Seq(Messages) /\ linked' \in BOOLEAN /\ fresh' \in BOOLEAN
    BY <1>3, DisconnectType, TypeParts
  <2>2. loose' \in LooseType
    BY <1>3, TypeParts
  <2> QED BY <1>2, <2>1, <2>2, TypeNext
<1>4. CASE tries < MaxRetry /\ loose' = With(loose, "getchallenge") /\ tries' = tries + 1
           /\ UNCHANGED <<client, toServer, histories>>
  <2>1. loose' \in LooseType
    BY <1>4, LooseChanges, TypeParts DEF Loose
  <2>2. tries' \in 0..MaxRetry
    BY <1>4, TypeParts, Bounds
  <2>3. client' \in ClientType /\ toServer' \in Seq(Messages) /\ linked' \in BOOLEAN /\ fresh' \in BOOLEAN
    BY <1>4, TypeParts DEF histories
  <2> QED BY <1>2, <2>1, <2>2, <2>3, TypeNext
<1> QED BY <1>3, <1>4, TypeParts, Bounds DEF CheckForResend

LEMMA LooseOnlyType ==
  ASSUME TypeOK, loose' \in LooseType,
         UNCHANGED <<client, tries, slot, spawnCount, channels, histories, connects>>
  PROVE  TypeOK'
<1>1. client' \in ClientType /\ tries' \in 0..MaxRetry /\ SlotOK' /\ spawnCount' \in 1..MaxSpawn /\ connects' \in 0..MaxConnect
  BY TypeParts DEF SlotOK
<1>2. toClient' \in Seq(Messages) /\ toServer' \in Seq(Messages) /\ linked' \in BOOLEAN /\ fresh' \in BOOLEAN
  BY TypeParts DEF channels, histories
<1> QED BY <1>1, <1>2, TypeNext

LEMMA ReadChallengeType == ASSUME TypeOK, ReadChallenge PROVE TypeOK'
<1>1. Without(loose, "challenge") \in LooseType
  BY LooseChanges, TypeParts DEF ReadChallenge, Loose
<1>2. loose' \in LooseType
  BY <1>1, LooseChanges DEF ReadChallenge, Loose
<1> QED BY <1>2, LooseOnlyType DEF ReadChallenge

LEMMA ReplyChallengeType == ASSUME TypeOK, ReplyChallenge PROVE TypeOK'
<1>1. Without(loose, "getchallenge") \in LooseType
  BY LooseChanges, TypeParts DEF ReplyChallenge, Loose
<1>2. loose' \in LooseType
  BY <1>1, LooseChanges DEF ReplyChallenge, Loose
<1> QED BY <1>2, LooseOnlyType DEF ReplyChallenge

LEMMA LoseLooseType == ASSUME TypeOK, LoseLoose PROVE TypeOK'
<1>1. loose' \in LooseType
  BY LooseChanges, TypeParts DEF LoseLoose
<1> QED BY <1>1, LooseOnlyType DEF LoseLoose

LEMMA ReadConnectionType ==
  ASSUME TypeOK, NEW k \in {"connection", "former"}, ReadConnection(k) PROVE TypeOK'
<1>1. loose' \in LooseType
  BY LooseChanges, TypeParts DEF ReadConnection, Loose
<1>2. UNCHANGED <<tries, slot, spawnCount, toClient, connects>>
  BY DEF ReadConnection
<1>3. tries' \in 0..MaxRetry /\ SlotOK' /\ spawnCount' \in 1..MaxSpawn /\ toClient' \in Seq(Messages) /\ connects' \in 0..MaxConnect
  BY <1>2, TypeParts DEF SlotOK
<1>4. client' \in ClientType
  <2>1. client' = [client EXCEPT !.state = CONNECTED] \/ client' = client
    BY Zenon DEF ReadConnection
  <2> QED BY <2>1, TypeParts, States DEF ClientType
<1>5. toServer' \in Seq(Messages)
  <2>1. toServer' = <<Msg(CONNECTED, -1)>> \/ toServer' = toServer
    BY Zenon DEF ReadConnection
  <2>2. <<Msg(CONNECTED, -1)>> \in Seq(Messages)
    BY Sent
  <2> QED BY <2>1, <2>2, TypeParts
<1>6. linked' \in BOOLEAN /\ fresh' \in BOOLEAN
  BY TypeParts, Zenon DEF ReadConnection, histories
<1> QED BY <1>1, <1>3, <1>4, <1>5, <1>6, TypeNext

\* What the client does with a message, apart from what is common to the messages.
LEMMA ClientReadType == ASSUME TypeOK, ClientRead PROVE TypeOK'
<1> DEFINE m == Head(toClient)
<1>1. toClient \in Seq(Messages) /\ toServer \in Seq(Messages) /\ toClient # <<>> /\ client \in ClientType /\ spawnCount \in 1..MaxSpawn
  BY TypeParts DEF ClientRead
<1>2. m \in Messages
  BY <1>1, HeadType
<1>3. m.state \in {NONE} \cup CONNECTED..CHANGELEVEL /\ m.count \in -1..MaxSpawn
  BY <1>2 DEF Messages
<1>4. \A r \in Rest(toClient) : r \in Seq(Messages)
  BY <1>1, RestIsPart DEF Part, Shift
<1>5. Tail(toClient) \in Seq(Messages)
  BY <1>1
<1>6. \A k \in Kept(toServer) : k \in Seq(Messages)
  BY <1>1, KeptIsPart DEF Shift
<1>7. UNCHANGED <<slot, spawnCount, loose, connects>>
  BY DEF ClientRead
<1>8. SlotOK' /\ spawnCount' \in 1..MaxSpawn /\ loose' \in LooseType /\ connects' \in 0..MaxConnect
  BY <1>7, TypeParts DEF SlotOK
<1>9. ReadDisconnect(m) \/ ReadConnected(m) \/ ReadServerInfo(m) \/ ReadSignonState(m) \/ ReadFullUpdate(m)
  BY DEF ClientRead
<1> HIDE DEF m
<1>10. CASE ReadDisconnect(m)
  <2>1. client' \in ClientType /\ tries' \in 0..MaxRetry /\ toServer' \in Seq(Messages) /\ linked' \in BOOLEAN /\ fresh' \in BOOLEAN
    BY <1>10, <1>1, DisconnectType DEF ReadDisconnect
  <2>2. toClient' \in Seq(Messages)
    BY <1>10, <1>4 DEF ReadDisconnect
  <2> QED BY <1>8, <2>1, <2>2, TypeNext
<1>11. CASE UNCHANGED <<tries, histories>> /\ ~ReadDisconnect(m)
  <2>1. tries' \in 0..MaxRetry /\ linked' \in BOOLEAN /\ fresh' \in BOOLEAN
    BY <1>11, TypeParts DEF histories
  <2>2. toClient' \in Seq(Messages)
    BY <1>9, <1>11, <1>4, <1>5 DEF ReadConnected, ReadServerInfo, ReadSignonState, ReadFullUpdate, m
  <2>3. client' \in ClientType
    <3>1. \A s \in NONE..CHANGELEVEL : [client EXCEPT !.state = s] \in ClientType
      BY <1>1 DEF ClientType
    <3>2. [client EXCEPT !.state = NEW_MAP, !.count = m.count, !.updating = TRUE] \in ClientType
      <4>1. NEW_MAP \in NONE..CHANGELEVEL
        BY States
      <4> QED BY <1>1, <1>3, <4>1 DEF ClientType
    <3>3. [client EXCEPT !.retry = TRUE] \in ClientType
      BY <1>1 DEF ClientType
    <3>4. m.state \in NONE..CHANGELEVEL /\ CONNECTED \in NONE..CHANGELEVEL /\ FULL \in NONE..CHANGELEVEL
      BY <1>3, States
    <3> QED BY <1>9, <1>11, <1>1, <3>1, <3>2, <3>3, <3>4 DEF ReadConnected, ReadServerInfo, ReadSignonState, ReadFullUpdate
  <2>4. toServer' \in Seq(Messages)
    <3>1. CASE ReadConnected(m)
      <4>1. \A k \in Kept(toServer) : Append(k, m) \in Seq(Messages)
        BY <1>2, <1>6
      <4> QED BY <3>1, <4>1 DEF ReadConnected
    <3>2. CASE ReadServerInfo(m)
      BY <3>2, <1>6 DEF ReadServerInfo
    <3>3. CASE ReadSignonState(m)
      <4>1. Append(toServer, m) \in Seq(Messages)
        BY <1>1, <1>2
      <4> QED BY <3>3, <4>1, <1>1 DEF ReadSignonState
    <3>4. CASE ReadFullUpdate(m)
      <4>1. client.count \in -1..MaxSpawn
        BY <1>1 DEF ClientType
      <4>2. Reply(FULL) \in Messages
        BY <4>1, Sent, States DEF Reply
      <4>3. Append(toServer, Reply(FULL)) \in Seq(Messages)
        BY <4>2, <1>1
      <4> QED BY <3>4, <4>3, <1>1 DEF ReadFullUpdate
    <3> QED BY <1>9, <1>11, <3>1, <3>2, <3>3, <3>4
  <2> QED BY <1>8, <2>1, <2>2, <2>3, <2>4, TypeNext
<1> QED BY <1>9, <1>10, <1>11 DEF ReadConnected, ReadServerInfo, ReadSignonState, ReadFullUpdate

LEMMA FinishUpdatingType == ASSUME TypeOK, FinishUpdating PROVE TypeOK'
<1>1. client \in ClientType /\ client.count \in -1..MaxSpawn /\ toServer \in Seq(Messages)
  BY TypeParts DEF ClientType
<1>2. client' \in ClientType
  BY <1>1 DEF FinishUpdating, ClientType
<1>3. Reply(NEW_MAP) \in Messages
  BY <1>1, Sent, States DEF Reply
<1>4. toServer' \in Seq(Messages)
  BY <1>1, <1>3 DEF FinishUpdating
<1>5. UNCHANGED <<tries, slot, spawnCount, loose, toClient, linked, fresh, connects>>
  BY DEF FinishUpdating, histories
<1>6. tries' \in 0..MaxRetry /\ SlotOK' /\ spawnCount' \in 1..MaxSpawn /\ loose' \in LooseType /\ toClient' \in Seq(Messages)
      /\ linked' \in BOOLEAN /\ fresh' \in BOOLEAN /\ connects' \in 0..MaxConnect
  BY <1>5, TypeParts DEF SlotOK
<1> QED BY <1>2, <1>4, <1>6, TypeNext

\* What a step of the server leaves alone.
LEMMA ServerTypeNext ==
  ASSUME TypeOK, UNCHANGED <<client, tries, connects>>, SlotOK', spawnCount' \in 1..MaxSpawn,
         loose' \in LooseType, toClient' \in Seq(Messages), toServer' \in Seq(Messages),
         linked' \in BOOLEAN, fresh' \in BOOLEAN
  PROVE  TypeOK'
<1>1. client' \in ClientType /\ tries' \in 0..MaxRetry /\ connects' \in 0..MaxConnect
  BY TypeParts
<1> QED BY <1>1, TypeNext

LEMMA FreeType ==
  /\ Free \in SlotType /\ [Free EXCEPT !.state = CONNECTED] \in SlotType
  /\ [Free EXCEPT !.state = CONNECTED].state = CONNECTED /\ Free.state = NONE
  /\ ~Free.sendInfo /\ ~[Free EXCEPT !.state = CONNECTED].sendInfo
  /\ ~[Free EXCEPT !.state = CONNECTED].full
<1>1. NONE \in SlotStates /\ CONNECTED \in SlotStates
  BY States DEF SlotStates
<1>2. Free \in SlotType
  BY <1>1 DEF Free, SlotType
<1>3. [Free EXCEPT !.state = CONNECTED] \in SlotType
  BY <1>1, <1>2 DEF SlotType
<1>4. [Free EXCEPT !.state = CONNECTED].state = CONNECTED /\ Free.state = NONE
  BY <1>2 DEF Free
<1>5. ~Free.sendInfo /\ ~[Free EXCEPT !.state = CONNECTED].sendInfo /\ ~[Free EXCEPT !.state = CONNECTED].full
  BY DEF Free
<1> QED BY <1>2, <1>3, <1>4, <1>5

LEMMA ConnectClientType == ASSUME TypeOK, ConnectClient PROVE TypeOK'
<1>1. Without(loose, "connect") \in LooseType
  BY LooseChanges, TypeParts DEF ConnectClient, Loose
<1>2. Superseded(Without(loose, "connect")) \in LooseType
  BY <1>1, LooseChanges DEF Loose
<1>3. loose' \in LooseType
  BY <1>2, LooseChanges DEF ConnectClient, Loose
<1>4. SlotOK'
  BY FreeType DEF ConnectClient, SlotOK
<1>5. linked' \in BOOLEAN /\ fresh' \in BOOLEAN
  BY Zenon DEF ConnectClient
<1>6. toClient' \in Seq(Messages)
  BY DEF ConnectClient
<1>7. spawnCount' \in 1..MaxSpawn /\ toServer' \in Seq(Messages)
  BY TypeParts DEF ConnectClient
<1> QED BY <1>3, <1>4, <1>5, <1>6, <1>7, ServerTypeNext DEF ConnectClient

LEMMA DropType ==
  ASSUME TypeOK, Drop
  PROVE  SlotOK' /\ toClient' \in Seq(Messages) /\ loose' \in LooseType /\ linked' = FALSE /\ fresh' = FALSE
<1>1. SlotOK'
  BY FreeType DEF Drop, SlotOK
<1>2. toClient \in Seq(Messages)
  BY TypeParts
<1>3. \A k \in Kept(toClient) : k \in Seq(Messages)
  BY <1>2, KeptIsPart DEF Shift
<1>4. toClient' \in Seq(Messages)
  BY <1>3, Sent DEF Drop
<1>5. loose' \in LooseType
  BY LooseChanges, TypeParts DEF Drop, Loose
<1> QED BY <1>1, <1>4, <1>5 DEF Drop

LEMMA ServerDropsType == ASSUME TypeOK, ServerDrops PROVE TypeOK'
<1>1. SlotOK' /\ toClient' \in Seq(Messages) /\ loose' \in LooseType /\ linked' = FALSE /\ fresh' = FALSE
  BY DropType DEF ServerDrops
<1>2. spawnCount' \in 1..MaxSpawn /\ toServer' \in Seq(Messages)
  BY TypeParts DEF ServerDrops
<1> QED BY <1>1, <1>2, ServerTypeNext DEF ServerDrops

LEMMA ReconnectType ==
  ASSUME TypeOK, toServer # <<>>, Reconnect
  PROVE  SlotOK' /\ toClient' \in Seq(Messages) /\ toServer' \in Seq(Messages)
<1>1. slot \in SlotType /\ toClient \in Seq(Messages) /\ toServer \in Seq(Messages)
  BY TypeParts DEF SlotOK
<1>2. slot' \in SlotType /\ slot'.state = CONNECTED
  <2>1. CONNECTED \in SlotStates
    BY States DEF SlotStates
  <2> QED BY <1>1, <2>1 DEF Reconnect, SlotType
<1>3. \A k \in Kept(toClient) : k \in Seq(Messages)
  BY <1>1, KeptIsPart DEF Shift
<1>4. \A r \in Rest(toServer) : r \in Seq(Messages)
  BY <1>1, RestIsPart DEF Part, Shift
<1>5. toClient' \in Seq(Messages)
  BY <1>3, Sent DEF Reconnect
<1>6. toServer' \in Seq(Messages)
  BY <1>4 DEF Reconnect
<1> QED BY <1>2, <1>5, <1>6 DEF SlotOK

\* What ProcessSignonStateMsg makes of the slot.
LEMMA Proceeds ==
  ASSUME slot \in SlotType, ProcessSignonStateMsg
  PROVE  /\ slot' \in SlotType /\ slot'.full = slot.full
         /\ slot.state = CONNECTED => slot'.state = CONNECTED /\ slot'.sendInfo
         /\ slot.state \in {NEW_MAP, PRESPAWN, SPAWN} => slot'.state = slot.state + 1 /\ slot'.sendInfo = slot.sendInfo
         /\ slot.state \notin {CONNECTED, NEW_MAP, PRESPAWN, SPAWN} => slot' = slot
<1>1. slot' = CASE slot.state = CONNECTED -> [slot EXCEPT !.sendInfo = TRUE]
                 [] slot.state \in {NEW_MAP, PRESPAWN, SPAWN} -> [slot EXCEPT !.state = @ + 1]
                 [] OTHER -> slot
  BY DEF ProcessSignonStateMsg
<1>2. CASE slot.state = CONNECTED
  <2>1. slot.state \notin {NEW_MAP, PRESPAWN, SPAWN}
    BY <1>2, States
  <2>2. slot' = [slot EXCEPT !.sendInfo = TRUE]
    BY <1>1, <1>2, <2>1, Zenon
  <2> QED BY <1>2, <2>1, <2>2 DEF SlotType
<1>3. CASE slot.state \in {NEW_MAP, PRESPAWN, SPAWN}
  <2>1. slot.state # CONNECTED
    BY <1>3, States
  <2>2. slot' = [slot EXCEPT !.state = slot.state + 1]
    BY <1>1, <1>3, <2>1, Zenon
  <2>3. slot.state + 1 \in SlotStates
    BY <1>3, States DEF SlotStates
  <2> QED BY <1>3, <2>1, <2>2, <2>3 DEF SlotType
<1>4. CASE slot.state \notin {CONNECTED, NEW_MAP, PRESPAWN, SPAWN}
  <2>1. slot' = slot
    BY <1>1, <1>4, Zenon
  <2> QED BY <1>4, <2>1
<1> QED BY <1>2, <1>3, <1>4

LEMMA ProcessType ==
  ASSUME TypeOK, toServer # <<>>, ProcessSignonStateMsg
  PROVE  SlotOK' /\ toClient' \in Seq(Messages) /\ toServer' \in Seq(Messages)
<1>1. slot \in SlotType /\ SlotOK /\ spawnCount \in 1..MaxSpawn /\ toClient \in Seq(Messages) /\ toServer \in Seq(Messages)
  BY TypeParts DEF SlotOK
<1>2. SlotOK'
  BY <1>1, Proceeds, States DEF SlotOK
<1>3. spawnCount \in -1..MaxSpawn /\ (slot.state \in {NEW_MAP, PRESPAWN} => slot.state + 1 \in CONNECTED..CHANGELEVEL)
  BY <1>1, Bounds, States
<1>4. toClient' \in Seq(Messages)
  BY <1>1, <1>3, Sent DEF ProcessSignonStateMsg
<1>5. toServer' \in Seq(Messages)
  BY <1>1 DEF ProcessSignonStateMsg
<1> QED BY <1>2, <1>4, <1>5

LEMMA ServerReadType == ASSUME TypeOK, ServerRead PROVE TypeOK'
<1> DEFINE m == Head(toServer)
<1>1. toServer \in Seq(Messages) /\ toServer # <<>> /\ UNCHANGED <<client, tries, spawnCount, connects>>
  BY TypeParts DEF ServerRead
<1>2. Tail(toServer) \in Seq(Messages) /\ spawnCount' \in 1..MaxSpawn
  BY <1>1, TypeParts
<1>3. CASE Drop /\ toServer' = Tail(toServer)
  <2>1. SlotOK' /\ toClient' \in Seq(Messages) /\ loose' \in LooseType /\ linked' = FALSE /\ fresh' = FALSE
    BY <1>3, DropType
  <2> QED BY <1>1, <1>2, <1>3, <2>1, ServerTypeNext
<1>4. CASE toServer' = Tail(toServer) /\ fresh' = FALSE /\ UNCHANGED <<slot, toClient, loose, linked>>
  <2>1. SlotOK' /\ toClient' \in Seq(Messages) /\ loose' \in LooseType /\ linked' \in BOOLEAN /\ fresh' \in BOOLEAN
    BY <1>4, TypeParts DEF SlotOK
  <2> QED BY <1>1, <1>2, <1>4, <2>1, ServerTypeNext
<1>5. CASE (Reconnect \/ ProcessSignonStateMsg) /\ fresh' = FALSE /\ UNCHANGED <<loose, linked>>
  <2>1. SlotOK' /\ toClient' \in Seq(Messages) /\ toServer' \in Seq(Messages)
    BY <1>1, <1>5, ReconnectType, ProcessType
  <2>2. loose' \in LooseType /\ linked' \in BOOLEAN /\ fresh' \in BOOLEAN
    BY <1>5, TypeParts
  <2> QED BY <1>1, <1>2, <2>1, <2>2, ServerTypeNext
<1> QED BY <1>3, <1>4, <1>5 DEF ServerRead

LEMMA SendServerInfoType == ASSUME TypeOK, SendServerInfo PROVE TypeOK'
<1>1. slot \in SlotType /\ spawnCount \in 1..MaxSpawn /\ toClient \in Seq(Messages)
  BY TypeParts DEF SlotOK
<1>2. SlotOK'
  <2>1. NEW_MAP \in SlotStates
    BY States DEF SlotStates
  <2> QED BY <1>1, <2>1 DEF SendServerInfo, SlotType, SlotOK
<1>3. spawnCount \in -1..MaxSpawn /\ NEW_MAP \in CONNECTED..CHANGELEVEL
  BY <1>1, Bounds, States
<1>4. toClient' \in Seq(Messages)
  BY <1>1, <1>3, Sent DEF SendServerInfo
<1>5. spawnCount' \in 1..MaxSpawn /\ loose' \in LooseType /\ toServer' \in Seq(Messages) /\ linked' \in BOOLEAN /\ fresh' \in BOOLEAN
  BY TypeParts DEF SendServerInfo, histories
<1> QED BY <1>2, <1>4, <1>5, ServerTypeNext DEF SendServerInfo

LEMMA SendFullUpdateType == ASSUME TypeOK, SendFullUpdate PROVE TypeOK'
<1>1. slot \in SlotType /\ SlotOK /\ toClient \in Seq(Messages)
  BY TypeParts DEF SlotOK
<1>2. SlotOK'
  BY <1>1, States DEF SendFullUpdate, SlotType, SlotOK
<1>3. toClient' \in Seq(Messages)
  BY <1>1, Sent DEF SendFullUpdate
<1>4. spawnCount' \in 1..MaxSpawn /\ loose' \in LooseType /\ toServer' \in Seq(Messages) /\ linked' \in BOOLEAN /\ fresh' \in BOOLEAN
  BY TypeParts DEF SendFullUpdate, histories
<1> QED BY <1>2, <1>3, <1>4, ServerTypeNext DEF SendFullUpdate

\* What Host_Changelevel makes of a slot and of the queue.
LEMMA Inactivates ==
  ASSUME NEW s \in SlotType
  PROVE  /\ [Inactivated(s) EXCEPT !.state = CONNECTED] \in SlotType
         /\ [Inactivated(s) EXCEPT !.state = CONNECTED].state = CONNECTED
         /\ [Inactivated(s) EXCEPT !.state = CONNECTED].sendInfo = s.sendInfo
         /\ [Inactivated(s) EXCEPT !.state = CONNECTED].full = FALSE
<1>1. CONNECTED \in SlotStates
  BY States DEF SlotStates
<1> QED BY <1>1 DEF Inactivated, SlotType

LEMMA ChangeLevelType == ASSUME TypeOK, ChangeLevel PROVE TypeOK'
<1>1. slot \in SlotType /\ SlotOK /\ spawnCount \in 1..MaxSpawn /\ toClient \in Seq(Messages)
  BY TypeParts DEF SlotOK
<1>2. spawnCount' \in 1..MaxSpawn
  BY <1>1, Bounds DEF ChangeLevel
<1>3. \A k \in Kept(toClient) : k \in Seq(Messages)
  BY <1>1, KeptIsPart DEF Shift
<1>4. Notice \in Messages /\ Msg(CONNECTED, -1) \in Messages
  <2>1. spawnCount \in -1..MaxSpawn /\ CHANGELEVEL \in CONNECTED..CHANGELEVEL
    BY <1>1, Bounds, States
  <2> QED BY <2>1, Sent DEF Notice
<1>5. <<Notice, Msg(CONNECTED, -1)>> \in Seq(Messages)
  BY <1>4
<1>6. toClient' \in Seq(Messages)
  <2>1. \A k \in Kept(toClient) : k \o <<Notice, Msg(CONNECTED, -1)>> \in Seq(Messages)
    BY <1>3, <1>5
  <2> QED BY <1>1, <2>1 DEF ChangeLevel
<1>7. SlotOK'
  <2>1. CASE slot.state = NONE
    BY <2>1, <1>1 DEF ChangeLevel, SlotOK
  <2>2. CASE slot.state # NONE
    BY <2>2, <1>1, Inactivates DEF ChangeLevel, SlotOK
  <2> QED BY <2>1, <2>2
<1>8. loose' \in LooseType /\ toServer' \in Seq(Messages) /\ linked' \in BOOLEAN /\ fresh' \in BOOLEAN
  BY TypeParts DEF ChangeLevel, histories
<1> QED BY <1>2, <1>6, <1>7, <1>8, ServerTypeNext DEF ChangeLevel

LEMMA LoseMessageType == ASSUME TypeOK, LoseMessage PROVE TypeOK'
<1>1. toClient \in Seq(Messages) /\ toServer \in Seq(Messages)
  BY TypeParts
<1>2. toClient' \in Seq(Messages) /\ toServer' \in Seq(Messages)
  <2>1. (toClient # <<>> => Tail(toClient) \in Seq(Messages)) /\ (toServer # <<>> => Tail(toServer) \in Seq(Messages))
    BY <1>1
  <2> QED BY <1>1, <2>1, Zenon DEF LoseMessage
<1>3. SlotOK' /\ spawnCount' \in 1..MaxSpawn /\ loose' \in LooseType /\ linked' \in BOOLEAN /\ fresh' \in BOOLEAN
  BY TypeParts DEF LoseMessage, SlotOK, histories
<1> QED BY <1>2, <1>3, ServerTypeNext DEF LoseMessage

LEMMA InitType == Init => TypeOK
<1> SUFFICES ASSUME Init PROVE TypeOK
  OBVIOUS
<1>1. client \in ClientType
  BY Bounds, States DEF Init, ClientType
<1>2. SlotOK
  BY FreeType DEF Init, SlotOK
<1>3. loose \in LooseType /\ tries \in 0..MaxRetry /\ spawnCount \in 1..MaxSpawn /\ connects \in 0..MaxConnect
  BY Bounds DEF Init, LooseType
<1>4. toClient \in Seq(Messages) /\ toServer \in Seq(Messages)
  BY DEF Init
<1>5. linked \in BOOLEAN /\ fresh \in BOOLEAN
  BY Zenon DEF Init
<1> QED BY <1>1, <1>2, <1>3, <1>4, <1>5, TypeParts

LEMMA NextType == TypeOK /\ [Next]_vars => TypeOK'
<1> SUFFICES ASSUME TypeOK, [Next]_vars PROVE TypeOK'
  OBVIOUS
<1>1. CASE UNCHANGED vars
  BY <1>1 DEF vars, TypeOK, channels, histories
<1>2. CASE ClientNext
  BY <1>2, UserConnectsType, RetryType, ClientLeavesType, CheckForResendType, ReadChallengeType,
     ReadConnectionType, ClientReadType, FinishUpdatingType DEF ClientNext
<1>3. CASE ServerNext
  BY <1>3, ReplyChallengeType, ConnectClientType, ServerDropsType, ServerReadType, SendServerInfoType,
     SendFullUpdateType, ChangeLevelType DEF ServerNext
<1> QED BY <1>1, <1>2, <1>3, LoseLooseType, LoseMessageType DEF Next

\* Every variable keeps its values, whatever the number of maps, connections and packets: a slot
\* that waits for its ServerInfo is CONNECTED, and no message has a count that no map had.
THEOREM SignonTypeCorrect == Spec => []TypeOK
BY InitType, NextType, PTL DEF Spec

-----------------------------------------------------------------------------
(* What the queue of the client holds.                                     *)

\* The messages that carry the count of a map.
Counted == {NEW_MAP, PRESPAWN, SPAWN, CHANGELEVEL}

\* Every count lies between that of the client and that of the server; a change of the level tells the
\* count of a map that has ended.
Sound(q, lo, hi) ==
  \A i \in 1..Len(q) :
    /\ q[i].state \in Counted => lo <= q[i].count
    /\ q[i].state = CHANGELEVEL => 1 <= q[i].count /\ q[i].count < hi

\* No message tells an earlier map than one before it, and no two changes of the level in a row the
\* same.
Rising(q) ==
  \A i, k \in 1..Len(q) :
    i < k /\ q[i].state \in Counted /\ q[k].state \in Counted => q[i].count <= q[k].count
Strict(q) ==
  \A i \in 1..Len(q) : i + 1 <= Len(q) /\ q[i].state = CHANGELEVEL /\ q[i + 1].state = CHANGELEVEL =>
    q[i].count < q[i + 1].count
Below(q, hi) == \A i \in 1..Len(q) : q[i].count <= hi
InOrder(q, lo, hi) == Sound(q, lo, hi) /\ Rising(q) /\ Strict(q)

\* What a client in a state makes of a message that is next.
Follows(x, y) ==
  x = CONNECTED \/ y \in {CONNECTED, CHANGELEVEL} \/ (x \in NEW_MAP..SPAWN /\ y = x + 1)
Chained(q) == \A i \in 1..Len(q) : i + 1 <= Len(q) => Follows(q[i].state, q[i + 1].state)
FrontOK(s, c, q) ==
  q # <<>> => /\ Follows(s, q[1].state)
              /\ s = CHANGELEVEL /\ q[1].state = CHANGELEVEL => c < q[1].count /\ 1 < q[1].count
LastState(s, q) == IF q = <<>> THEN s ELSE q[Len(q)].state

LEMMA Fields ==
  ASSUME NEW q \in Seq(Messages), NEW i \in 1..Len(q)
  PROVE  q[i] \in Messages /\ q[i].state \in {NONE} \cup CONNECTED..CHANGELEVEL /\ q[i].count \in -1..MaxSpawn
<1>1. q[i] \in Messages
  OBVIOUS
<1> QED BY <1>1 DEF Messages

\* A part of the queue is as good as the queue.
LEMMA PartInOrder ==
  ASSUME NEW q \in Seq(Messages), NEW r, Part(r, q), NEW lo, NEW hi
  PROVE  /\ InOrder(q, lo, hi) => InOrder(r, lo, hi)
         /\ Chained(q) => Chained(r)
         /\ Below(q, hi) => Below(r, hi)
         /\ \A S : (\A i \in 1..Len(q) : q[i].state \in S) => \A i \in 1..Len(r) : r[i].state \in S
<1>1. PICK d \in Nat : Shift(r, q, d)
  BY DEF Part
<1>2. r \in Seq(Messages) /\ Len(r) \in Nat /\ Len(q) \in Nat /\ Len(r) + d <= Len(q)
  BY <1>1 DEF Shift
<1>3. \A i \in 1..Len(r) : r[i] = q[i + d] /\ i + d \in 1..Len(q)
  BY <1>1, <1>2 DEF Shift
<1>4. \A i, k \in 1..Len(r) : i < k => i + d < k + d
  BY <1>2
<1>5. \A i \in 1..Len(r) : i + 1 <= Len(r) => i + 1 \in 1..Len(r) /\ (i + 1) + d = (i + d) + 1 /\ (i + d) + 1 <= Len(q)
  BY <1>2
<1>6. Sound(q, lo, hi) => Sound(r, lo, hi)
  BY <1>3 DEF Sound
<1>7. Rising(q) => Rising(r)
  <2> SUFFICES ASSUME Rising(q), NEW i \in 1..Len(r), NEW k \in 1..Len(r), i < k,
                      r[i].state \in Counted, r[k].state \in Counted
               PROVE  r[i].count <= r[k].count
    BY DEF Rising
  <2>1. i + d \in 1..Len(q) /\ k + d \in 1..Len(q) /\ i + d < k + d /\ r[i] = q[i + d] /\ r[k] = q[k + d]
    BY <1>3, <1>4
  <2> QED BY <2>1 DEF Rising
<1>8. Strict(q) => Strict(r)
  <2> SUFFICES ASSUME Strict(q), NEW i \in 1..Len(r), i + 1 <= Len(r), r[i].state = CHANGELEVEL, r[i + 1].state = CHANGELEVEL
               PROVE  r[i].count < r[i + 1].count
    BY DEF Strict
  <2>1. i + d \in 1..Len(q) /\ (i + d) + 1 <= Len(q) /\ r[i] = q[i + d] /\ r[i + 1] = q[(i + d) + 1]
    BY <1>3, <1>5
  <2> QED BY <2>1 DEF Strict
<1>9. Chained(q) => Chained(r)
  <2> SUFFICES ASSUME Chained(q), NEW i \in 1..Len(r), i + 1 <= Len(r)
               PROVE  Follows(r[i].state, r[i + 1].state)
    BY DEF Chained
  <2>1. i + d \in 1..Len(q) /\ (i + d) + 1 <= Len(q) /\ r[i] = q[i + d] /\ r[i + 1] = q[(i + d) + 1]
    BY <1>3, <1>5
  <2> QED BY <2>1 DEF Chained
<1>10. Below(q, hi) => Below(r, hi)
  BY <1>3 DEF Below
<1>11. \A S : (\A i \in 1..Len(q) : q[i].state \in S) => \A i \in 1..Len(r) : r[i].state \in S
  BY <1>3
<1> QED BY <1>6, <1>7, <1>8, <1>9, <1>10, <1>11 DEF InOrder

\* A message of the current map, or one without a count, may follow any.
LEMMA AppendInOrder ==
  ASSUME NEW q \in Seq(Messages), NEW m \in Messages, NEW lo \in Int, NEW hi \in Int, lo <= hi,
         InOrder(q, lo, hi), Below(q, hi), m.count <= hi, m.state # CHANGELEVEL,
         m.state \in Counted => m.count = hi
  PROVE  InOrder(Append(q, m), lo, hi)
<1> DEFINE a == Append(q, m)
<1>1. a \in Seq(Messages) /\ Len(a) = Len(q) + 1 /\ a[Len(q) + 1] = m /\ Len(q) \in Nat
  BY Appended
<1>2. \A i \in 1..Len(q) : a[i] = q[i]
  BY Appended
<1> HIDE DEF a
<1>3. \A i \in 1..Len(a) : i \in 1..Len(q) \/ i = Len(q) + 1
  BY <1>1
<1>4. Sound(a, lo, hi)
  BY <1>1, <1>2, <1>3 DEF Sound, InOrder
<1>5. Rising(a)
  <2> SUFFICES ASSUME NEW i \in 1..Len(a), NEW k \in 1..Len(a), i < k, a[i].state \in Counted, a[k].state \in Counted
               PROVE  a[i].count <= a[k].count
    BY DEF Rising
  <2>1. i \in 1..Len(q)
    BY <1>1
  <2>2. CASE k \in 1..Len(q)
    BY <2>1, <2>2, <1>2 DEF InOrder, Rising
  <2>3. CASE k = Len(q) + 1
    BY <2>1, <2>3, <1>1, <1>2 DEF Below
  <2> QED BY <2>2, <2>3, <1>3
<1>6. Strict(a)
  <2> SUFFICES ASSUME NEW i \in 1..Len(a), i + 1 <= Len(a), a[i].state = CHANGELEVEL, a[i + 1].state = CHANGELEVEL
               PROVE  a[i].count < a[i + 1].count
    BY DEF Strict
  <2>1. i \in 1..Len(q)
    BY <1>1
  <2>2. i + 1 # Len(q) + 1
    BY <1>1
  <2>3. i + 1 \in 1..Len(q) /\ i + 1 <= Len(q)
    BY <1>1, <2>1, <2>2
  <2> QED BY <2>1, <2>3, <1>2 DEF InOrder, Strict
<1> QED BY <1>4, <1>5, <1>6 DEF InOrder, a

\* The notice that a map ends, when the count of the server is raised.
LEMMA NoticeInOrder ==
  ASSUME NEW q \in Seq(Messages), NEW m \in Messages, NEW lo \in Int, NEW hi \in Int, lo <= hi, 1 <= hi,
         InOrder(q, lo, hi), Below(q, hi), m.count = hi, m.state = CHANGELEVEL
  PROVE  InOrder(Append(q, m), lo, hi + 1) /\ Below(Append(q, m), hi + 1)
<1> DEFINE a == Append(q, m)
<1>1. a \in Seq(Messages) /\ Len(a) = Len(q) + 1 /\ a[Len(q) + 1] = m /\ Len(q) \in Nat
  BY Appended
<1>2. \A i \in 1..Len(q) : a[i] = q[i] /\ q[i].count \in Int
  BY Appended, Fields
<1> HIDE DEF a
<1>3. \A i \in 1..Len(a) : i \in 1..Len(q) \/ i = Len(q) + 1
  BY <1>1
<1>4. Sound(a, lo, hi + 1)
  BY <1>1, <1>2, <1>3 DEF Sound, InOrder
<1>5. Rising(a)
  <2> SUFFICES ASSUME NEW i \in 1..Len(a), NEW k \in 1..Len(a), i < k, a[i].state \in Counted, a[k].state \in Counted
               PROVE  a[i].count <= a[k].count
    BY DEF Rising
  <2>1. i \in 1..Len(q)
    BY <1>1
  <2>2. CASE k \in 1..Len(q)
    BY <2>1, <2>2, <1>2 DEF InOrder, Rising
  <2>3. CASE k = Len(q) + 1
    BY <2>1, <2>3, <1>1, <1>2 DEF Below
  <2> QED BY <2>2, <2>3, <1>3
<1>6. Strict(a)
  <2> SUFFICES ASSUME NEW i \in 1..Len(a), i + 1 <= Len(a), a[i].state = CHANGELEVEL, a[i + 1].state = CHANGELEVEL
               PROVE  a[i].count < a[i + 1].count
    BY DEF Strict
  <2>1. i \in 1..Len(q)
    BY <1>1
  <2>2. CASE i + 1 <= Len(q)
    <3>1. i + 1 \in 1..Len(q)
      BY <2>1, <2>2, <1>1
    <3> QED BY <2>1, <2>2, <3>1, <1>2 DEF InOrder, Strict
  <2>3. CASE i = Len(q)
    <3>1. q[i].state = CHANGELEVEL /\ q[i].count < hi
      BY <2>1, <1>2 DEF InOrder, Sound
    <3> QED BY <2>1, <2>3, <3>1, <1>1, <1>2
  <2> QED BY <1>1, <2>1, <2>2, <2>3
<1>7. Below(a, hi + 1)
  BY <1>1, <1>2, <1>3 DEF Below
<1> QED BY <1>4, <1>5, <1>6, <1>7 DEF InOrder, a

LEMMA AppendBelow ==
  ASSUME NEW q \in Seq(Messages), NEW m \in Messages, NEW hi, Below(q, hi), m.count <= hi
  PROVE  Below(Append(q, m), hi)
<1>1. Len(Append(q, m)) = Len(q) + 1 /\ Append(q, m)[Len(q) + 1] = m /\ Len(q) \in Nat
      /\ \A i \in 1..Len(q) : Append(q, m)[i] = q[i]
  BY Appended
<1>2. \A i \in 1..Len(q) + 1 : i \in 1..Len(q) \/ i = Len(q) + 1
  BY <1>1
<1> QED BY <1>1, <1>2 DEF Below

LEMMA AppendChained ==
  ASSUME NEW q \in Seq(Messages), NEW m \in Messages, Chained(q), NEW s, NEW c, FrontOK(s, c, q),
         Follows(LastState(s, q), m.state),
         q = <<>> /\ s = CHANGELEVEL /\ m.state = CHANGELEVEL => c < m.count /\ 1 < m.count
  PROVE  Chained(Append(q, m)) /\ FrontOK(s, c, Append(q, m)) /\ LastState(s, Append(q, m)) = m.state
<1> DEFINE a == Append(q, m)
<1>1. a \in Seq(Messages) /\ Len(a) = Len(q) + 1 /\ a[Len(q) + 1] = m /\ Len(q) \in Nat
  BY Appended
<1>2. \A i \in 1..Len(q) : a[i] = q[i]
  BY Appended
<1> HIDE DEF a
<1>3. a # <<>>
  BY <1>1
<1>4. LastState(s, a) = m.state
  BY <1>1, <1>3 DEF LastState
<1>5. CASE q = <<>>
  <2>1. Len(q) = 0 /\ a[1] = m /\ Len(a) = 1
    BY <1>1, <1>5
  <2>2. Follows(s, m.state)
    BY <1>5 DEF LastState
  <2>3. FrontOK(s, c, a)
    BY <2>1, <2>2, <1>5 DEF FrontOK
  <2>4. Chained(a)
    BY <2>1 DEF Chained
  <2> QED BY <1>4, <2>3, <2>4 DEF a
<1>6. CASE q # <<>>
  <2>1. Len(q) >= 1 /\ a[1] = q[1]
    BY <1>1, <1>2, <1>6
  <2>2. FrontOK(s, c, a)
    BY <2>1, <1>6 DEF FrontOK
  <2>3. LastState(s, q) = q[Len(q)].state
    BY <1>6 DEF LastState
  <2>4. \A i \in 1..Len(a) : i + 1 <= Len(a) => i \in 1..Len(q) /\ (i = Len(q) \/ (i + 1 <= Len(q) /\ i + 1 \in 1..Len(q)))
    BY <1>1
  <2>5. Chained(a)
    BY <1>1, <1>2, <2>3, <2>4 DEF Chained
  <2> QED BY <1>4, <2>2, <2>5 DEF a
<1> QED BY <1>5, <1>6

\* The end of a queue, and a queue without its first message.
LEMMA RestEnds ==
  ASSUME NEW q \in Seq(Messages), q # <<>>, NEW r \in Rest(q), NEW s, NEW t
  PROVE  LastState(s, r) \in {s, LastState(t, q)}
<1>1. PICK n \in 2..Len(q) + 1 : r = SubSeq(q, n, Len(q))
  BY DEF Rest
<1>2. n - 1 \in Nat /\ Len(q) \in Nat
  BY <1>1
<1>3. r \in Seq(Messages) /\ Len(r) = Len(q) - n + 1 /\ \A i \in 1..Len(r) : r[i] = q[i + n - 1]
  BY <1>1, <1>2
<1>4. CASE r = <<>>
  BY <1>4 DEF LastState
<1>5. CASE r # <<>>
  <2>1. Len(r) \in 1..Len(r) /\ Len(r) + n - 1 = Len(q)
    BY <1>2, <1>3, <1>5
  <2>2. r[Len(r)] = q[Len(q)]
    BY <1>3, <2>1
  <2> QED BY <1>5, <2>2 DEF LastState
<1> QED BY <1>4, <1>5

LEMMA TailEnds ==
  ASSUME NEW q \in Seq(Messages), q # <<>>, NEW t
  PROVE  /\ LastState(q[1].state, Tail(q)) = LastState(t, q)
         /\ \A s : LastState(s, Tail(q)) \in {s, LastState(t, q)}
<1> DEFINE r == Tail(q)
<1>1. r \in Seq(Messages) /\ Len(r) = Len(q) - 1 /\ Len(q) \in Nat /\ Len(q) >= 1 /\ \A i \in 1..Len(r) : r[i] = q[i + 1]
  OBVIOUS
<1> HIDE DEF r
<1>2. CASE r = <<>>
  <2>1. Len(q) = 1
    BY <1>1, <1>2
  <2> QED BY <1>2, <2>1 DEF LastState, r
<1>3. CASE r # <<>>
  <2>1. Len(r) \in 1..Len(r) /\ Len(r) + 1 = Len(q)
    BY <1>1, <1>3
  <2>2. r[Len(r)] = q[Len(q)]
    BY <1>1, <2>1
  <2> QED BY <1>3, <2>2 DEF LastState, r
<1> QED BY <1>2, <1>3

\* The client takes the state of the message it has read: what comes next follows it.
LEMMA TailFront ==
  ASSUME NEW q \in Seq(Messages), q # <<>>, NEW lo \in Int, NEW hi \in Int, InOrder(q, lo, hi), Chained(q)
  PROVE  FrontOK(q[1].state, lo, Tail(q))
<1>1. Tail(q) \in Seq(Messages) /\ Len(Tail(q)) = Len(q) - 1 /\ Len(q) \in Nat /\ Len(q) >= 1
      /\ \A i \in 1..Len(Tail(q)) : Tail(q)[i] = q[i + 1]
  OBVIOUS
<1> SUFFICES ASSUME Tail(q) # <<>>
             PROVE  /\ Follows(q[1].state, Tail(q)[1].state)
                    /\ q[1].state = CHANGELEVEL /\ Tail(q)[1].state = CHANGELEVEL =>
                         lo < Tail(q)[1].count /\ 1 < Tail(q)[1].count
  BY DEF FrontOK
<1>2. 1 \in 1..Len(q) /\ 1 + 1 <= Len(q) /\ 2 \in 1..Len(q) /\ Tail(q)[1] = q[2] /\ 1 + 1 = 2
  BY <1>1
<1>3. Follows(q[1].state, q[2].state)
  BY <1>2 DEF Chained
<1>4. q[1].count \in Int /\ q[2].count \in Int
  BY <1>2, Fields
<1>5. q[1].state = CHANGELEVEL => lo <= q[1].count /\ 1 <= q[1].count
  BY <1>2 DEF InOrder, Sound, Counted
<1>6. q[1].state = CHANGELEVEL /\ q[2].state = CHANGELEVEL => q[1].count < q[2].count
  BY <1>2 DEF InOrder, Strict
<1> QED BY <1>2, <1>3, <1>4, <1>5, <1>6

\* The client takes the count of a message that it reads.
LEMMA TailRises ==
  ASSUME NEW q \in Seq(Messages), q # <<>>, NEW lo, NEW hi, InOrder(q, lo, hi), q[1].state \in Counted
  PROVE  InOrder(Tail(q), q[1].count, hi)
<1>1. Tail(q) \in Seq(Messages) /\ Len(Tail(q)) = Len(q) - 1 /\ Len(q) \in Nat /\ Len(q) >= 1
      /\ \A i \in 1..Len(Tail(q)) : Tail(q)[i] = q[i + 1]
  OBVIOUS
<1>2. InOrder(Tail(q), lo, hi)
  BY TailIsPart, PartInOrder
<1>3. \A i \in 1..Len(Tail(q)) : i + 1 \in 1..Len(q) /\ 1 \in 1..Len(q) /\ 1 < i + 1
  BY <1>1
<1>4. \A i \in 1..Len(Tail(q)) : Tail(q)[i].state \in Counted => q[1].count <= Tail(q)[i].count
  BY <1>1, <1>3 DEF InOrder, Rising
<1>5. Sound(Tail(q), q[1].count, hi)
  BY <1>2, <1>4 DEF InOrder, Sound
<1> QED BY <1>2, <1>5 DEF InOrder

\* No message for a state tells a count beyond c.
Known(q, S, c) == \A i \in 1..Len(q) : q[i].state \in S => q[i].count <= c

LEMMA PartKnown ==
  ASSUME NEW q \in Seq(Messages), NEW r, Part(r, q), NEW S, NEW c, Known(q, S, c)
  PROVE  Known(r, S, c)
<1>1. PICK d \in Nat : Shift(r, q, d)
  BY DEF Part
<1>2. r \in Seq(Messages) /\ Len(r) \in Nat /\ Len(q) \in Nat /\ Len(r) + d <= Len(q)
  BY <1>1 DEF Shift
<1>3. \A i \in 1..Len(r) : r[i] = q[i + d] /\ i + d \in 1..Len(q)
  BY <1>1, <1>2 DEF Shift
<1> QED BY <1>3 DEF Known

LEMMA AppendKnown ==
  ASSUME NEW q \in Seq(Messages), NEW m \in Messages, NEW S, NEW c, Known(q, S, c), m.state \in S => m.count <= c
  PROVE  Known(Append(q, m), S, c)
<1>1. Len(Append(q, m)) = Len(q) + 1 /\ Append(q, m)[Len(q) + 1] = m /\ Len(q) \in Nat
      /\ \A i \in 1..Len(q) : Append(q, m)[i] = q[i]
  BY Appended
<1>2. \A i \in 1..Len(q) + 1 : i \in 1..Len(q) \/ i = Len(q) + 1
  BY <1>1
<1> QED BY <1>1, <1>2 DEF Known

LEMMA KnownRises ==
  ASSUME NEW q \in Seq(Messages), NEW S, NEW c \in Int, NEW d \in Int, c <= d, Known(q, S, c)
  PROVE  Known(q, S, d)
<1>1. \A i \in 1..Len(q) : q[i].count \in Int
  BY Fields
<1> QED BY <1>1 DEF Known

-----------------------------------------------------------------------------
(* The inductive invariant.                                                *)

Begun == NEW_MAP..FULL

\* Whatever the channels: no count is ahead of that of the server.
CountInv == client.count <= spawnCount /\ Below(toClient, spawnCount)

\* A channel whose messages the client reads from the first one on.
LiveInv == linked \/ fresh => InOrder(toClient, client.count, spawnCount)

\* Before the client has the channel the slot waits, and the last thing it was told is to start.
FreshInv ==
  fresh => /\ slot = [Free EXCEPT !.state = CONNECTED] /\ ~linked
           /\ \A i \in 1..Len(toClient) : toClient[i].state \in {CONNECTED, CHANGELEVEL}
           /\ LastState(CONNECTED, toClient) = CONNECTED

\* Nobody tells the server of a map that the client has not read of, and nobody tells the client to go on
\* with one: what the server let begin was of the map of both.
LinkedInv ==
  linked => /\ Known(toServer, Begun, client.count)
            /\ Known(toClient, {PRESPAWN, SPAWN}, client.count)
            /\ slot.state \in {PRESPAWN, SPAWN, FULL} => client.count = spawnCount

\* A healthy client: each message follows the state that the one before it leaves.
Healthy(c, sp, s, q) ==
  /\ c.state = CHANGELEVEL => c.count < sp /\ 1 < sp
  /\ Chained(q)
  /\ FrontOK(c.state, c.count, q)
  /\ s.state \in CONNECTED..SPAWN => LastState(c.state, q) \in {CONNECTED, s.state}
  /\ s.state = FULL /\ ~s.full => LastState(c.state, q) \in {CONNECTED, SPAWN}
OrderInv == linked /\ ~client.retry => Healthy(client, spawnCount, slot, toClient)

SignonInv == CountInv /\ LiveInv /\ FreshInv /\ LinkedInv /\ OrderInv

\* The values of the variables that the invariant is about.
LEMMA Values ==
  ASSUME TypeOK
  PROVE  /\ client \in ClientType /\ client.state \in NONE..CHANGELEVEL /\ client.count \in -1..MaxSpawn /\ client.count \in Int
         /\ client.retry \in BOOLEAN
         /\ slot \in SlotType /\ slot.state \in SlotStates /\ slot.full \in BOOLEAN
         /\ spawnCount \in 1..MaxSpawn /\ spawnCount \in Int
         /\ toClient \in Seq(Messages) /\ toServer \in Seq(Messages)
<1>1. client \in ClientType /\ slot \in SlotType /\ spawnCount \in 1..MaxSpawn /\ toClient \in Seq(Messages) /\ toServer \in Seq(Messages)
  BY TypeParts DEF SlotOK
<1>2. client.state \in NONE..CHANGELEVEL /\ client.count \in -1..MaxSpawn /\ client.retry \in BOOLEAN
  BY <1>1 DEF ClientType
<1>3. slot.state \in SlotStates /\ slot.full \in BOOLEAN
  BY <1>1 DEF SlotType
<1> QED BY <1>1, <1>2, <1>3, Bounds

LEMMA InitInv == Init => SignonInv
<1> SUFFICES ASSUME Init PROVE SignonInv
  OBVIOUS
<1>1. client.count = -1 /\ spawnCount = 1 /\ toClient = <<>> /\ ~linked /\ ~fresh
  BY DEF Init
<1>2. CountInv
  BY <1>1 DEF CountInv, Below
<1> QED BY <1>1, <1>2 DEF SignonInv, LiveInv, FreshInv, LinkedInv, OrderInv

\* Any queue is in order for a client that knows no map.
LEMMA LooserInOrder ==
  ASSUME NEW q \in Seq(Messages), NEW lo, NEW hi, InOrder(q, lo, hi)
  PROVE  InOrder(q, -1, hi)
<1>1. \A i \in 1..Len(q) : -1 <= q[i].count
  BY Fields
<1> QED BY <1>1 DEF InOrder, Sound

\* The client goes: the queue to it stays, and it forgets the map.
LEMMA GoesInv ==
  ASSUME SignonInv, TypeOK, ~linked', fresh' = fresh, client'.count \in {client.count, -1},
         UNCHANGED <<slot, spawnCount, toClient>>
  PROVE  SignonInv'
<1>1. CountInv'
  BY Values DEF SignonInv, CountInv, Below
<1>2. LiveInv'
  <2>1. fresh => InOrder(toClient, client.count, spawnCount) /\ InOrder(toClient, -1, spawnCount)
    BY LooserInOrder, Values DEF SignonInv, LiveInv
  <2> QED BY <2>1 DEF LiveInv
<1>3. FreshInv'
  BY DEF SignonInv, FreshInv, LastState
<1> QED BY <1>1, <1>2, <1>3 DEF SignonInv, LinkedInv, OrderInv

LEMMA SameInv ==
  ASSUME SignonInv, UNCHANGED <<client, slot, spawnCount, toClient, toServer, linked, fresh>>
  PROVE  SignonInv'
BY DEF SignonInv, CountInv, LiveInv, FreshInv, LinkedInv, OrderInv, Below, InOrder, Sound, Rising, Strict, LastState,
       Known, Healthy, Chained, FrontOK

LEMMA DisconnectInv ==
  ASSUME SignonInv, TypeOK, NEW c \in ClientType, Disconnect(c), UNCHANGED <<slot, spawnCount, toClient>>
  PROVE  SignonInv'
<1>1. client'.count = -1
  BY DEF Disconnect, Cleared, ClientType
<1>2. ~linked' /\ fresh' = fresh
  BY DEF Disconnect, CloseChannel
<1> QED BY <1>1, <1>2, GoesInv

LEMMA ConnectInv ==
  ASSUME SignonInv, TypeOK, NEW c \in ClientType, Connect(c)
  PROVE  SignonInv'
<1>1. client'.count = -1
  BY DEF Connect, Cleared, ClientType
<1>2. ~linked' /\ fresh' = fresh /\ UNCHANGED <<slot, spawnCount, toClient>>
  BY DEF Connect, CloseChannel
<1> QED BY <1>1, <1>2, GoesInv

LEMMA ComesAndGoesInv ==
  ASSUME SignonInv, TypeOK, UserConnects \/ Retry \/ ClientLeaves \/ CheckForResend PROVE SignonInv'
<1>1. client \in ClientType
  BY Values
<1>2. CASE UserConnects
  BY <1>1, <1>2, ConnectInv DEF UserConnects
<1>3. CASE Retry
  <2>1. [client EXCEPT !.retry = FALSE] \in ClientType
    BY <1>1 DEF ClientType
  <2> QED BY <2>1, <1>3, ConnectInv DEF Retry
<1>4. CASE ClientLeaves
  BY <1>1, <1>4, DisconnectInv DEF ClientLeaves
<1>5. CASE CheckForResend
  <2>1. UNCHANGED <<slot, spawnCount, toClient>>
    BY <1>5 DEF CheckForResend
  <2>2. CASE Disconnect(client)
    BY <1>1, <2>1, <2>2, DisconnectInv
  <2>3. CASE UNCHANGED <<client, toServer, histories>>
    BY <2>1, <2>3, SameInv DEF histories
  <2> QED BY <1>5, <2>2, <2>3 DEF CheckForResend
<1> QED BY <1>2, <1>3, <1>4, <1>5

LEMMA LooseInv ==
  ASSUME SignonInv, ReadChallenge \/ ReplyChallenge \/ LoseLoose PROVE SignonInv'
BY SameInv DEF ReadChallenge, ReplyChallenge, LoseLoose, channels, histories

\* The client gets its channel: it is CONNECTED, and whatever comes first starts it.
LEMMA ReadConnectionInv ==
  ASSUME SignonInv, TypeOK, NEW k \in {"connection", "former"}, ReadConnection(k) PROVE SignonInv'
<1>1. UNCHANGED <<slot, spawnCount, toClient>>
  BY DEF ReadConnection
<1>2. CASE UNCHANGED <<client, toServer, histories>>
  BY <1>1, <1>2, SameInv DEF histories
<1>3. CASE /\ client' = [client EXCEPT !.state = CONNECTED] /\ toServer' = <<Msg(CONNECTED, -1)>>
           /\ linked' = (k = "connection" /\ fresh) /\ fresh' = FALSE
  <2>1. client'.state = CONNECTED /\ client'.count = client.count /\ client'.retry = client.retry
    BY <1>3, Values DEF ClientType
  <2>2. ~fresh' /\ (linked' => fresh)
    BY <1>3
  <2>3. CountInv'
    BY <1>1, <2>1 DEF SignonInv, CountInv, Below
  <2>4. LiveInv'
    BY <1>1, <2>1, <2>2 DEF SignonInv, LiveInv, InOrder, Sound, Rising, Strict
  <2>5. FreshInv'
    BY <2>2 DEF FreshInv
  <2>6. SUFFICES ASSUME linked' PROVE LinkedInv' /\ OrderInv'
    BY <2>3, <2>4, <2>5 DEF SignonInv, LinkedInv, OrderInv
  <2>7. slot = [Free EXCEPT !.state = CONNECTED] /\ (\A i \in 1..Len(toClient) : toClient[i].state \in {CONNECTED, CHANGELEVEL})
        /\ LastState(CONNECTED, toClient) = CONNECTED
    BY <2>2, <2>6 DEF SignonInv, FreshInv
  <2>8. slot.state = CONNECTED
    BY <2>7, FreeType
  <2>9. Known(toServer', Begun, client'.count)
    <3>1. Len(toServer') = 1 /\ toServer'[1].state = CONNECTED
      BY <1>3 DEF Msg
    <3> QED BY <3>1, States DEF Known, Begun
  <2>10. Known(toClient', {PRESPAWN, SPAWN}, client'.count)
    BY <1>1, <2>7, States DEF Known
  <2>11. LinkedInv'
    BY <1>1, <2>8, <2>9, <2>10, States DEF LinkedInv
  <2>12. Chained(toClient)
    BY <2>7, Values DEF Chained, Follows
  <2>13. FrontOK(client'.state, client'.count, toClient)
    BY <2>1, States DEF FrontOK, Follows
  <2>14. LastState(client'.state, toClient) = CONNECTED
    BY <2>1, <2>7
  <2>15. Healthy(client', spawnCount, slot, toClient)
    BY <2>1, <2>8, <2>12, <2>13, <2>14, States DEF Healthy
  <2> QED BY <1>1, <2>11, <2>15 DEF OrderInv
<1> QED BY <1>2, <1>3, Zenon DEF ReadConnection

\* A part of the queue keeps what does not depend on its ends.
LEMMA PartInv ==
  ASSUME SignonInv, TypeOK, NEW r, Part(r, toClient)
  PROVE  /\ Below(r, spawnCount)
         /\ linked \/ fresh => InOrder(r, client.count, spawnCount)
         /\ fresh => \A i \in 1..Len(r) : r[i].state \in {CONNECTED, CHANGELEVEL}
         /\ linked => Known(r, {PRESPAWN, SPAWN}, client.count)
         /\ linked /\ ~client.retry => Chained(r)
<1>1. toClient \in Seq(Messages)
  BY Values
<1>2. Below(r, spawnCount) /\ (linked \/ fresh => InOrder(r, client.count, spawnCount))
  BY <1>1, PartInOrder DEF SignonInv, CountInv, LiveInv
<1>3. fresh => \A i \in 1..Len(r) : r[i].state \in {CONNECTED, CHANGELEVEL}
  BY <1>1, PartInOrder DEF SignonInv, FreshInv
<1>4. linked => Known(r, {PRESPAWN, SPAWN}, client.count)
  BY <1>1, PartKnown DEF SignonInv, LinkedInv
<1>5. linked /\ ~client.retry => Chained(r)
  BY <1>1, PartInOrder DEF SignonInv, OrderInv, Healthy
<1> QED BY <1>2, <1>3, <1>4, <1>5

\* What has to be shown of a step of the client that keeps its count.
LEMMA ClientInv ==
  ASSUME SignonInv, TypeOK, UNCHANGED <<slot, spawnCount, histories>>, client'.count = client.count,
         Part(toClient', toClient), toClient # <<>>,
         \A s : LastState(s, toClient') \in {s, LastState(client.state, toClient)},
         linked => Known(toServer', Begun, client.count),
         linked /\ ~client'.retry => Healthy(client', spawnCount, slot, toClient')
  PROVE  SignonInv'
<1>1. linked' = linked /\ fresh' = fresh /\ slot' = slot /\ spawnCount' = spawnCount
  BY DEF histories
<1>2. Below(toClient', spawnCount) /\ (linked \/ fresh => InOrder(toClient', client.count, spawnCount))
      /\ (linked => Known(toClient', {PRESPAWN, SPAWN}, client.count))
  BY PartInv
<1>3. CountInv'
  BY <1>1, <1>2 DEF SignonInv, CountInv
<1>4. LiveInv'
  BY <1>1, <1>2 DEF LiveInv
<1>5. FreshInv'
  <2>1. SUFFICES ASSUME fresh PROVE FreshInv'
    BY <1>1 DEF FreshInv
  <2>2. \A i \in 1..Len(toClient') : toClient'[i].state \in {CONNECTED, CHANGELEVEL}
    BY <2>1, PartInv
  <2>3. LastState(client.state, toClient) = LastState(CONNECTED, toClient)
    BY DEF LastState
  <2>4. LastState(CONNECTED, toClient') = CONNECTED
    BY <2>1, <2>3 DEF SignonInv, FreshInv
  <2> QED BY <1>1, <2>1, <2>2, <2>4 DEF SignonInv, FreshInv
<1>6. LinkedInv'
  BY <1>1, <1>2 DEF SignonInv, LinkedInv
<1>7. OrderInv'
  BY <1>1 DEF OrderInv
<1> QED BY <1>3, <1>4, <1>5, <1>6, <1>7 DEF SignonInv

LEMMA RestInv ==
  ASSUME TypeOK, toClient # <<>>, toClient' \in Rest(toClient)
  PROVE  /\ Part(toClient', toClient)
         /\ \A s : LastState(s, toClient') \in {s, LastState(client.state, toClient)}
BY Values, RestIsPart, RestEnds

LEMMA TailInv ==
  ASSUME TypeOK, toClient # <<>>, toClient' = Tail(toClient)
  PROVE  /\ Part(toClient', toClient)
         /\ \A s : LastState(s, toClient') \in {s, LastState(client.state, toClient)}
BY Values, TailIsPart, TailEnds

\* A client that has just been told to start does what comes.
LEMMA Starts ==
  ASSUME NEW c \in ClientType, NEW sp, NEW s, NEW q, c.state = CONNECTED, Chained(q),
         s.state \in CONNECTED..SPAWN => LastState(CONNECTED, q) \in {CONNECTED, s.state},
         s.state = FULL /\ ~s.full => LastState(CONNECTED, q) \in {CONNECTED, SPAWN}
  PROVE  Healthy(c, sp, s, q)
<1>1. FrontOK(c.state, c.count, q)
  BY States DEF FrontOK, Follows
<1> QED BY <1>1, States DEF Healthy

LEMMA ReadDisconnectInv ==
  ASSUME SignonInv, TypeOK, NEW m, ReadDisconnect(m), toClient # <<>>, UNCHANGED <<slot, spawnCount>>
  PROVE  SignonInv'
<1>1. client'.count = -1
  BY Values DEF ReadDisconnect, Disconnect, Cleared, ClientType
<1>2. ~linked' /\ fresh' = fresh
  BY DEF ReadDisconnect, Disconnect, CloseChannel
<1>3. Part(toClient', toClient) /\ \A s : LastState(s, toClient') \in {s, LastState(client.state, toClient)}
  BY RestInv DEF ReadDisconnect
<1>4. Below(toClient', spawnCount) /\ (fresh => InOrder(toClient', client.count, spawnCount))
      /\ (fresh => \A i \in 1..Len(toClient') : toClient'[i].state \in {CONNECTED, CHANGELEVEL})
  BY <1>3, PartInv
<1>5. CountInv' /\ LiveInv'
  <2>1. toClient' \in Seq(Messages)
    BY <1>3, Values DEF Part, Shift
  <2>2. fresh => InOrder(toClient', -1, spawnCount)
    BY <1>4, <2>1, LooserInOrder
  <2> QED BY <1>1, <1>2, <1>4, <2>2, Values DEF CountInv, LiveInv
<1>6. FreshInv'
  <2>1. SUFFICES ASSUME fresh PROVE FreshInv'
    BY <1>2 DEF FreshInv
  <2>2. LastState(client.state, toClient) = LastState(CONNECTED, toClient)
    BY DEF LastState
  <2>3. LastState(CONNECTED, toClient') = CONNECTED
    BY <1>3, <2>1, <2>2 DEF SignonInv, FreshInv
  <2> QED BY <1>2, <1>4, <2>1, <2>3 DEF SignonInv, FreshInv
<1> QED BY <1>2, <1>5, <1>6 DEF SignonInv, LinkedInv, OrderInv

LEMMA ReadConnectedInv ==
  ASSUME SignonInv, TypeOK, NEW m \in Messages, ReadConnected(m), toClient # <<>>, UNCHANGED <<slot, spawnCount>>
  PROVE  SignonInv'
<1>1. client' \in ClientType /\ client'.state = CONNECTED /\ client'.count = client.count /\ client'.retry = client.retry
  <2>1. client' = [client EXCEPT !.state = CONNECTED] /\ CONNECTED \in NONE..CHANGELEVEL
    BY States DEF ReadConnected
  <2> QED BY <2>1, Values DEF ClientType
<1>2. Part(toClient', toClient) /\ \A s : LastState(s, toClient') \in {s, LastState(client.state, toClient)}
  BY RestInv DEF ReadConnected
<1>3. linked => Known(toServer', Begun, client.count)
  <2> SUFFICES ASSUME linked PROVE Known(toServer', Begun, client.count)
    OBVIOUS
  <2>1. PICK k \in Kept(toServer) : toServer' = Append(k, m)
    BY DEF ReadConnected
  <2>2. Part(k, toServer) /\ k \in Seq(Messages)
    BY KeptIsPart, Values DEF Shift
  <2>3. Known(k, Begun, client.count)
    BY <2>2, PartKnown, Values DEF SignonInv, LinkedInv
  <2>4. m.state \notin Begun
    BY States DEF ReadConnected, Begun
  <2>5. Known(Append(k, m), Begun, client.count)
    BY <2>2, <2>3, <2>4, AppendKnown
  <2> QED BY <2>1, <2>5
<1>4. linked /\ ~client'.retry => Healthy(client', spawnCount, slot, toClient')
  <2> SUFFICES ASSUME linked, ~client.retry PROVE Healthy(client', spawnCount, slot, toClient')
    BY <1>1
  <2>1. Healthy(client, spawnCount, slot, toClient)
    BY DEF SignonInv, OrderInv
  <2>2. Chained(toClient')
    BY <1>2, PartInv
  <2>3. LastState(CONNECTED, toClient') \in {CONNECTED, LastState(client.state, toClient)}
    BY <1>2
  <2>4. slot.state \in CONNECTED..SPAWN => LastState(CONNECTED, toClient') \in {CONNECTED, slot.state}
    BY <2>1, <2>3 DEF Healthy
  <2>5. slot.state = FULL /\ ~slot.full => LastState(CONNECTED, toClient') \in {CONNECTED, SPAWN}
    BY <2>1, <2>3 DEF Healthy
  <2> QED BY <1>1, <2>2, <2>4, <2>5, Starts
<1>5. UNCHANGED histories
  BY DEF ReadConnected
<1> QED BY <1>1, <1>2, <1>3, <1>4, <1>5, ClientInv

LEMMA ReadServerInfoInv ==
  ASSUME SignonInv, TypeOK, toClient # <<>>, ReadServerInfo(Head(toClient)), UNCHANGED <<slot, spawnCount>>
  PROVE  SignonInv'
<1> DEFINE m == toClient[1]
<1>1. Head(toClient) = m /\ 1 \in 1..Len(toClient) /\ m \in Messages /\ m.count \in -1..MaxSpawn /\ m.count \in Int
      /\ toClient \in Seq(Messages) /\ toServer \in Seq(Messages)
  <2>1. Head(toClient) = m /\ 1 \in 1..Len(toClient) /\ toClient \in Seq(Messages) /\ toServer \in Seq(Messages)
    BY Values, HeadType
  <2> QED BY <2>1, Fields, Bounds
<1>2. /\ m.state = NEW_MAP /\ client' = [client EXCEPT !.state = NEW_MAP, !.count = m.count, !.updating = TRUE]
      /\ toServer' \in Kept(toServer) /\ toClient' = Tail(toClient) /\ UNCHANGED histories
  BY <1>1 DEF ReadServerInfo
<1>3. client'.state = NEW_MAP /\ client'.count = m.count /\ client'.retry = client.retry
  BY <1>2, Values DEF ClientType
<1>4. linked' = linked /\ fresh' = fresh /\ slot' = slot /\ spawnCount' = spawnCount
  BY <1>2 DEF histories
<1>5. m.state \in Counted /\ m.count <= spawnCount
  BY <1>1, <1>2 DEF Counted, SignonInv, CountInv, Below
<1>6. Part(toClient', toClient)
  BY <1>1, <1>2, TailIsPart
<1> HIDE DEF m
<1>7. CountInv'
  BY <1>3, <1>4, <1>5, <1>6, PartInv DEF CountInv
<1>8. ~fresh
  BY <1>1, <1>2, States DEF SignonInv, FreshInv, m
<1>9. LiveInv'
  <2>1. linked => InOrder(Tail(toClient), m.count, spawnCount)
    BY <1>1, <1>5, TailRises DEF SignonInv, LiveInv, m
  <2> QED BY <1>2, <1>3, <1>4, <1>8, <2>1 DEF LiveInv
<1>10. FreshInv'
  BY <1>4, <1>8 DEF FreshInv
<1>11. SUFFICES ASSUME linked PROVE LinkedInv' /\ OrderInv'
  BY <1>4, <1>7, <1>9, <1>10 DEF SignonInv, LinkedInv, OrderInv
<1>12. client.count <= m.count
  BY <1>1, <1>5, <1>11 DEF SignonInv, LiveInv, InOrder, Sound, m
<1>13. LinkedInv'
  <2>1. Part(toServer', toServer) /\ toServer' \in Seq(Messages) /\ toClient' \in Seq(Messages)
    BY <1>1, <1>2, <1>6, KeptIsPart, PartType
  <2>2. Known(toServer', Begun, client.count) /\ Known(toClient', {PRESPAWN, SPAWN}, client.count)
    BY <1>1, <1>6, <1>11, <2>1, PartKnown DEF SignonInv, LinkedInv
  <2>3. Known(toServer', Begun, m.count) /\ Known(toClient', {PRESPAWN, SPAWN}, m.count)
    BY <1>1, <1>12, <2>1, <2>2, KnownRises, Values
  <2>4. slot.state \in {PRESPAWN, SPAWN, FULL} => m.count = spawnCount
    BY <1>1, <1>5, <1>11, <1>12, Values DEF SignonInv, LinkedInv
  <2> QED BY <1>3, <1>4, <2>3, <2>4 DEF LinkedInv
<1>14. OrderInv'
  <2>1. SUFFICES ASSUME ~client.retry PROVE Healthy(client', spawnCount, slot, toClient')
    BY <1>3, <1>4 DEF OrderInv
  <2>2. Healthy(client, spawnCount, slot, toClient)
    BY <1>11, <2>1 DEF SignonInv, OrderInv
  <2>3. Chained(toClient')
    BY <1>6, <1>11, <2>1, PartInv
  <2>4. FrontOK(m.state, client.count, toClient')
    BY <1>1, <1>2, <1>11, <2>2, TailFront, Values DEF SignonInv, LiveInv, Healthy, m
  <2>5. FrontOK(client'.state, client'.count, toClient')
    BY <1>2, <1>3, <2>4, States DEF FrontOK
  <2>6. LastState(client'.state, toClient') = LastState(client.state, toClient)
    BY <1>1, <1>2, <1>3, TailEnds DEF m
  <2> QED BY <1>3, <2>2, <2>3, <2>5, <2>6, States DEF Healthy
<1> QED BY <1>13, <1>14

\* A client that follows the message it reads goes on as healthy as it was.
LEMMA FollowsInv ==
  ASSUME SignonInv, TypeOK, toClient # <<>>, linked, ~client.retry,
         NEW c \in ClientType, c.state = toClient[1].state, c.count = client.count,
         c.state = CHANGELEVEL => c.count < spawnCount /\ 1 < spawnCount
  PROVE  Healthy(c, spawnCount, slot, Tail(toClient))
<1>1. toClient \in Seq(Messages)
  BY Values
<1>2. Healthy(client, spawnCount, slot, toClient)
  BY DEF SignonInv, OrderInv
<1>3. Part(Tail(toClient), toClient)
  BY <1>1, TailIsPart
<1>4. Chained(Tail(toClient))
  BY <1>3, PartInv
<1>5. FrontOK(toClient[1].state, client.count, Tail(toClient))
  BY <1>1, <1>2, TailFront, Values DEF SignonInv, LiveInv, Healthy
<1>6. LastState(toClient[1].state, Tail(toClient)) = LastState(client.state, toClient)
  BY <1>1, TailEnds
<1> QED BY <1>2, <1>4, <1>5, <1>6 DEF Healthy

LEMMA ReadSignonStateInv ==
  ASSUME SignonInv, TypeOK, toClient # <<>>, ReadSignonState(Head(toClient)), UNCHANGED <<slot, spawnCount>>
  PROVE  SignonInv'
<1> DEFINE m == toClient[1]
<1>1. Head(toClient) = m /\ 1 \in 1..Len(toClient) /\ m \in Messages /\ m.count \in Int
      /\ toClient \in Seq(Messages) /\ toServer \in Seq(Messages)
  <2>1. Head(toClient) = m /\ 1 \in 1..Len(toClient) /\ toClient \in Seq(Messages) /\ toServer \in Seq(Messages)
    BY Values, HeadType
  <2> QED BY <2>1, Fields, Bounds
<1>2. m.state \in {PRESPAWN, SPAWN, CHANGELEVEL} /\ UNCHANGED histories
  BY <1>1 DEF ReadSignonState
<1>3. CASE client' = [client EXCEPT !.retry = TRUE] /\ toClient' \in Rest(toClient) /\ UNCHANGED toServer
  <2>1. client'.count = client.count /\ client'.retry
    BY <1>3, Values DEF ClientType
  <2>2. Part(toClient', toClient) /\ \A s : LastState(s, toClient') \in {s, LastState(client.state, toClient)}
    BY <1>3, RestInv
  <2>3. linked => Known(toServer', Begun, client.count)
    BY <1>3 DEF SignonInv, LinkedInv
  <2> QED BY <1>2, <2>1, <2>2, <2>3, ClientInv
<1>4. CASE client' = [client EXCEPT !.state = m.state] /\ toServer' = Append(toServer, m) /\ toClient' = Tail(toClient)
  <2>1. client' \in ClientType /\ client'.count = client.count /\ client'.retry = client.retry /\ client'.state = m.state
    <3>1. m.state \in NONE..CHANGELEVEL
      BY <1>2, States
    <3> QED BY <1>4, <3>1, Values DEF ClientType
  <2>2. Part(toClient', toClient) /\ \A s : LastState(s, toClient') \in {s, LastState(client.state, toClient)}
    BY <1>4, TailInv
  <2>3. linked => Known(toServer', Begun, client.count)
    <3> SUFFICES ASSUME linked PROVE Known(toServer', Begun, client.count)
      OBVIOUS
    <3>1. m.state \in Begun => m.count <= client.count
      BY <1>1, <1>2, States DEF Begun, SignonInv, LinkedInv, Known
    <3>2. Known(toServer, Begun, client.count)
      BY DEF SignonInv, LinkedInv
    <3>3. Known(Append(toServer, m), Begun, client.count)
      BY <1>1, <3>1, <3>2, AppendKnown
    <3> QED BY <1>4, <3>3
  <2>4. linked /\ ~client'.retry => Healthy(client', spawnCount, slot, toClient')
    <3> SUFFICES ASSUME linked, ~client.retry PROVE Healthy(client', spawnCount, slot, toClient')
      BY <2>1
    <3>1. m.state = CHANGELEVEL => client.count <= m.count /\ 1 <= m.count /\ m.count < spawnCount
      BY <1>1 DEF SignonInv, LiveInv, InOrder, Sound, Counted
    <3>2. client'.state = CHANGELEVEL => client'.count < spawnCount /\ 1 < spawnCount
      BY <1>1, <2>1, <3>1, Values
    <3> QED BY <1>4, <2>1, <3>2, FollowsInv
  <2> QED BY <1>2, <2>1, <2>2, <2>3, <2>4, ClientInv
<1> QED BY <1>1, <1>3, <1>4 DEF ReadSignonState

LEMMA ReadFullUpdateInv ==
  ASSUME SignonInv, TypeOK, toClient # <<>>, ReadFullUpdate(Head(toClient)), UNCHANGED <<slot, spawnCount>>
  PROVE  SignonInv'
<1> DEFINE m == toClient[1]
<1>1. Head(toClient) = m /\ 1 \in 1..Len(toClient) /\ m \in Messages
      /\ toClient \in Seq(Messages) /\ toServer \in Seq(Messages) /\ client.state \in NONE..CHANGELEVEL
  BY Values, HeadType
<1>2. m.state = FULL /\ UNCHANGED histories
  BY <1>1 DEF ReadFullUpdate
<1>3. CASE client.state = SPAWN
  <2>1. client' = [client EXCEPT !.state = FULL] /\ toServer' = Append(toServer, Reply(FULL)) /\ toClient' = Tail(toClient)
    BY <1>3, States DEF ReadFullUpdate
  <2>2. client' \in ClientType /\ client'.count = client.count /\ client'.retry = client.retry /\ client'.state = m.state
    <3>1. FULL \in NONE..CHANGELEVEL
      BY States
    <3> QED BY <1>2, <2>1, <3>1, Values DEF ClientType
  <2>3. Part(toClient', toClient) /\ \A s : LastState(s, toClient') \in {s, LastState(client.state, toClient)}
    BY <2>1, TailInv
  <2>4. linked => Known(toServer', Begun, client.count)
    <3> SUFFICES ASSUME linked PROVE Known(toServer', Begun, client.count)
      OBVIOUS
    <3>1. FULL \in {NONE} \cup CONNECTED..CHANGELEVEL
      BY States
    <3>2. Reply(FULL) \in Messages /\ Reply(FULL).count = client.count
      BY <3>1, MsgType, Values DEF Reply
    <3>3. Known(toServer, Begun, client.count)
      BY DEF SignonInv, LinkedInv
    <3>4. Known(Append(toServer, Reply(FULL)), Begun, client.count)
      BY <1>1, <3>2, <3>3, AppendKnown, Values
    <3> QED BY <2>1, <3>4
  <2>5. linked /\ ~client'.retry => Healthy(client', spawnCount, slot, toClient')
    <3> SUFFICES ASSUME linked, ~client.retry PROVE Healthy(client', spawnCount, slot, toClient')
      BY <2>2
    <3>1. client'.state # CHANGELEVEL
      BY <1>2, <2>2, States
    <3> QED BY <2>1, <2>2, <3>1, FollowsInv
  <2> QED BY <1>2, <2>2, <2>3, <2>4, <2>5, ClientInv
<1>4. CASE client.state # SPAWN
  <2>1. UNCHANGED <<client, toServer>> /\ (IF client.state < SPAWN THEN toClient' \in Rest(toClient) ELSE toClient' = Tail(toClient))
    BY <1>4 DEF ReadFullUpdate
  <2>2. Part(toClient', toClient) /\ \A s : LastState(s, toClient') \in {s, LastState(client.state, toClient)}
    BY <2>1, RestInv, TailInv
  <2>3. linked => Known(toServer', Begun, client.count)
    BY <2>1 DEF SignonInv, LinkedInv
  <2>4. linked /\ ~client'.retry => Healthy(client', spawnCount, slot, toClient')
    <3> SUFFICES ASSUME linked, ~client.retry PROVE Healthy(client', spawnCount, slot, toClient')
      BY <2>1
    <3>1. Healthy(client, spawnCount, slot, toClient)
      BY DEF SignonInv, OrderInv
    <3>2. Follows(client.state, FULL)
      BY <1>2, <3>1 DEF Healthy, FrontOK
    <3>3. client.state = CONNECTED
      BY <1>1, <1>4, <3>2, States DEF Follows
    <3>4. Chained(toClient')
      BY <2>2, PartInv
    <3>5. LastState(CONNECTED, toClient') \in {CONNECTED, LastState(client.state, toClient)}
      BY <2>2
    <3>6. slot.state \in CONNECTED..SPAWN => LastState(CONNECTED, toClient') \in {CONNECTED, slot.state}
      BY <3>1, <3>5 DEF Healthy
    <3>7. slot.state = FULL /\ ~slot.full => LastState(CONNECTED, toClient') \in {CONNECTED, SPAWN}
      BY <3>1, <3>5 DEF Healthy
    <3>8. Healthy(client, spawnCount, slot, toClient')
      BY <3>3, <3>4, <3>6, <3>7, Starts, Values
    <3> QED BY <2>1, <3>8
  <2> QED BY <1>2, <2>1, <2>2, <2>3, <2>4, ClientInv
<1> QED BY <1>3, <1>4

LEMMA ClientReadInv == ASSUME SignonInv, TypeOK, ClientRead PROVE SignonInv'
<1>1. toClient # <<>> /\ UNCHANGED <<slot, spawnCount>> /\ Head(toClient) \in Messages
  BY Values, HeadType DEF ClientRead
<1> QED BY <1>1, ReadDisconnectInv, ReadConnectedInv, ReadServerInfoInv, ReadSignonStateInv, ReadFullUpdateInv DEF ClientRead

LEMMA FinishUpdatingInv == ASSUME SignonInv, TypeOK, FinishUpdating PROVE SignonInv'
<1>1. client'.state = client.state /\ client'.count = client.count /\ client'.retry = client.retry
  BY Values DEF FinishUpdating, ClientType
<1>2. linked' = linked /\ fresh' = fresh /\ UNCHANGED <<slot, spawnCount, toClient>>
  BY DEF FinishUpdating, histories
<1>3. linked => Known(toServer', Begun, client.count)
  <2> SUFFICES ASSUME linked PROVE Known(toServer', Begun, client.count)
    OBVIOUS
  <2>1. NEW_MAP \in {NONE} \cup CONNECTED..CHANGELEVEL
    BY States
  <2>2. Reply(NEW_MAP) \in Messages /\ Reply(NEW_MAP).count = client.count
    BY <2>1, MsgType, Values DEF Reply
  <2>3. Known(toServer, Begun, client.count)
    BY DEF SignonInv, LinkedInv
  <2>4. Known(Append(toServer, Reply(NEW_MAP)), Begun, client.count)
    BY <2>2, <2>3, AppendKnown, Values
  <2> QED BY <2>3, <2>4 DEF FinishUpdating
<1>4. CountInv' /\ LiveInv' /\ FreshInv'
  BY <1>1, <1>2 DEF SignonInv, CountInv, LiveInv, FreshInv, Below, InOrder, Sound, Rising, Strict, LastState
<1>5. LinkedInv'
  BY <1>1, <1>2, <1>3 DEF SignonInv, LinkedInv, Known
<1>6. OrderInv'
  BY <1>1, <1>2 DEF SignonInv, OrderInv, Healthy, Chained, FrontOK, LastState
<1> QED BY <1>4, <1>5, <1>6 DEF SignonInv

\* The slot gets a new channel.
LEMMA ConnectClientInv == ASSUME SignonInv, TypeOK, ConnectClient PROVE SignonInv'
<1>1. toClient' = <<>> /\ slot' = [Free EXCEPT !.state = CONNECTED] /\ ~linked' /\ UNCHANGED <<client, spawnCount>>
  BY DEF ConnectClient
<1>2. CountInv'
  BY <1>1 DEF SignonInv, CountInv, Below
<1>3. LiveInv'
  BY <1>1 DEF LiveInv, InOrder, Sound, Rising, Strict
<1>4. FreshInv'
  BY <1>1 DEF FreshInv, LastState
<1> QED BY <1>1, <1>2, <1>3, <1>4 DEF SignonInv, LinkedInv, OrderInv

\* The slot is dropped: the client is told, behind whatever it still gets.
LEMMA DropInv == ASSUME SignonInv, TypeOK, Drop, UNCHANGED <<client, spawnCount>> PROVE SignonInv'
<1>1. ~linked' /\ ~fresh'
  BY DEF Drop
<1>2. PICK k \in Kept(toClient) : toClient' = Append(k, Msg(NONE, -1))
  BY DEF Drop
<1>3. Part(k, toClient) /\ k \in Seq(Messages)
  BY KeptIsPart, Values DEF Shift
<1>4. Below(k, spawnCount)
  BY <1>3, PartInv
<1>5. Msg(NONE, -1) \in Messages /\ Msg(NONE, -1).count <= spawnCount
  BY Sent, Values, Bounds DEF Msg
<1>6. Below(toClient', spawnCount)
  BY <1>2, <1>3, <1>4, <1>5, AppendBelow
<1>7. CountInv'
  BY <1>6 DEF SignonInv, CountInv
<1> QED BY <1>1, <1>7 DEF SignonInv, LiveInv, FreshInv, LinkedInv, OrderInv

LEMMA ServerDropsInv == ASSUME SignonInv, TypeOK, ServerDrops PROVE SignonInv'
BY DropInv DEF ServerDrops

\* What has to be shown of a step of the server that sends at most one message of this map.
LEMMA SendInv ==
  ASSUME SignonInv, TypeOK, UNCHANGED <<client, spawnCount, linked>>, ~fresh',
         NEW k, Part(k, toClient), NEW m \in Messages,
         toClient' = k \/ toClient' = Append(k, m),
         m.state # CHANGELEVEL, m.count <= spawnCount, m.state \in Counted => m.count = spawnCount,
         linked => Known(toServer', Begun, client.count),
         linked /\ toClient' # k /\ m.state \in {PRESPAWN, SPAWN} => client.count = spawnCount,
         linked /\ slot'.state \in {PRESPAWN, SPAWN, FULL} => client.count = spawnCount,
         linked /\ ~client.retry => Healthy(client, spawnCount, slot', toClient')
  PROVE  SignonInv'
<1>1. k \in Seq(Messages) /\ Below(k, spawnCount) /\ (linked => InOrder(k, client.count, spawnCount))
      /\ (linked => Known(k, {PRESPAWN, SPAWN}, client.count))
  BY PartInv, PartType
<1>2. client.count <= spawnCount /\ client.count \in Int /\ spawnCount \in Int
  BY Values DEF SignonInv, CountInv
<1>3. Below(Append(k, m), spawnCount)
  BY <1>1, AppendBelow
<1>4. linked => InOrder(Append(k, m), client.count, spawnCount)
  BY <1>1, <1>2, AppendInOrder
<1>5. linked /\ toClient' # k => Known(Append(k, m), {PRESPAWN, SPAWN}, client.count)
  BY <1>1, <1>2, AppendKnown
<1>6. CountInv'
  BY <1>1, <1>3 DEF SignonInv, CountInv
<1>7. LiveInv'
  BY <1>1, <1>4 DEF LiveInv
<1>8. LinkedInv'
  BY <1>1, <1>5 DEF LinkedInv
<1> QED BY <1>6, <1>7, <1>8 DEF SignonInv, FreshInv, OrderInv

\* The client is told to start, behind a part of the queue.
LEMMA ReconnectInv ==
  ASSUME SignonInv, TypeOK, toServer # <<>>, Reconnect, UNCHANGED <<client, spawnCount, linked>>, ~fresh'
  PROVE  SignonInv'
<1> DEFINE m == Msg(CONNECTED, -1)
<1>1. PICK k \in Kept(toClient) : toClient' = Append(k, m)
  BY DEF Reconnect
<1>2. Part(k, toClient) /\ k \in Seq(Messages) /\ Shift(k, toClient, 0)
  BY KeptIsPart, Values DEF Shift
<1>3. m \in Messages /\ m.state = CONNECTED /\ m.count = -1
  BY Sent DEF Msg
<1> HIDE DEF m
<1>4. m.state # CHANGELEVEL /\ m.count <= spawnCount /\ m.state \notin Counted /\ m.state \notin {PRESPAWN, SPAWN}
  BY <1>3, Values, Bounds, States DEF Counted
<1>5. linked => Known(toServer', Begun, client.count)
  <2>1. Part(toServer', toServer)
    BY RestIsPart, Values DEF Reconnect
  <2> QED BY <2>1, PartKnown, Values DEF SignonInv, LinkedInv
<1>6. slot'.state = CONNECTED
  BY Values DEF Reconnect, SlotType
<1>7. linked /\ ~client.retry => Healthy(client, spawnCount, slot', toClient')
  <2> SUFFICES ASSUME linked, ~client.retry PROVE Healthy(client, spawnCount, slot', toClient')
    OBVIOUS
  <2>1. Healthy(client, spawnCount, slot, toClient)
    BY DEF SignonInv, OrderInv
  <2>2. Chained(k)
    BY <1>2, PartInv
  <2>3. FrontOK(client.state, client.count, k)
    <3>1. k # <<>> => Len(k) >= 1 /\ k[1] = toClient[1] /\ toClient # <<>>
      BY <1>2, Values DEF Shift
    <3> QED BY <2>1, <3>1 DEF Healthy, FrontOK
  <2>4. Follows(LastState(client.state, k), m.state)
    BY <1>3 DEF Follows
  <2>5. Chained(toClient') /\ FrontOK(client.state, client.count, toClient') /\ LastState(client.state, toClient') = CONNECTED
    BY <1>1, <1>2, <1>3, <1>4, <2>2, <2>3, <2>4, AppendChained
  <2> QED BY <2>1, <2>5, <1>6, States DEF Healthy
<1> QED BY <1>1, <1>2, <1>3, <1>4, <1>5, <1>6, <1>7, SendInv, States

\* The slot goes on: what the server read was of this map, and the client knows it.
LEMMA ProcessInv ==
  ASSUME SignonInv, TypeOK, toServer # <<>>, ~MustReconnect(Head(toServer)),
         Head(toServer).state \notin {NONE, CHANGELEVEL},
         ProcessSignonStateMsg, UNCHANGED <<client, spawnCount, linked>>, ~fresh'
  PROVE  SignonInv'
<1> DEFINE h == toServer[1]
<1>1. Head(toServer) = h /\ 1 \in 1..Len(toServer) /\ h \in Messages /\ h.count \in Int
      /\ toClient \in Seq(Messages) /\ toServer \in Seq(Messages) /\ slot \in SlotType
  <2>1. Head(toServer) = h /\ 1 \in 1..Len(toServer) /\ toClient \in Seq(Messages) /\ toServer \in Seq(Messages) /\ slot \in SlotType
    BY Values, HeadType
  <2> QED BY <2>1, Fields, Bounds
<1>2. slot.state = h.state /\ (slot.state > CONNECTED => h.count = spawnCount)
  BY <1>1 DEF MustReconnect
<1>3. slot.state \in SlotStates \ {NONE}
  BY <1>1, <1>2, Values
<1>4. linked /\ slot.state \in Begun => client.count = spawnCount
  <2>1. linked /\ slot.state \in Begun => h.count <= client.count
    BY <1>1, <1>2 DEF SignonInv, LinkedInv, Known
  <2>2. slot.state \in Begun => h.count = spawnCount
    BY <1>2, States DEF Begun
  <2> QED BY <2>1, <2>2, Values DEF SignonInv, CountInv
<1> HIDE DEF h
<1>5. linked => Known(toServer', Begun, client.count)
  <2>1. toServer' = Tail(toServer) /\ Part(toServer', toServer)
    BY <1>1, TailIsPart DEF ProcessSignonStateMsg
  <2> QED BY <2>1, <1>1, PartKnown DEF SignonInv, LinkedInv
<1>6. Shift(toClient, toClient, 0) /\ Part(toClient, toClient)
  BY <1>1, Whole
<1>7. linked /\ ~client.retry => Healthy(client, spawnCount, slot, toClient)
  BY DEF SignonInv, OrderInv
<1>8. CASE slot.state \in {NEW_MAP, PRESPAWN}
  <2> DEFINE m == Msg(slot.state + 1, spawnCount)
  <2>1. toClient' = Append(toClient, m)
    BY <1>8 DEF ProcessSignonStateMsg
  <2>2. slot.state + 1 \in {NONE} \cup CONNECTED..CHANGELEVEL /\ slot.state + 1 \in {PRESPAWN, SPAWN} /\ slot.state \in Begun
        /\ spawnCount \in -1..MaxSpawn
    BY <1>8, States, Values, Bounds DEF Begun
  <2>3. m \in Messages /\ m.state = slot.state + 1 /\ m.count = spawnCount
    BY <2>2, MsgType
  <2> HIDE DEF m
  <2>4. slot'.state = m.state /\ slot'.state \in {PRESPAWN, SPAWN}
    BY <1>1, <1>8, <2>2, <2>3, Proceeds
  <2>5. m.state # CHANGELEVEL /\ m.count <= spawnCount
    BY <2>2, <2>3, Values, States
  <2>6. linked /\ ~client.retry => Healthy(client, spawnCount, slot', toClient')
    <3> SUFFICES ASSUME linked, ~client.retry PROVE Healthy(client, spawnCount, slot', toClient')
      OBVIOUS
    <3>1. Chained(toClient) /\ FrontOK(client.state, client.count, toClient)
      BY <1>7 DEF Healthy
    <3>2. LastState(client.state, toClient) \in {CONNECTED, slot.state}
      BY <1>7, <1>8, States DEF Healthy
    <3>3. Follows(LastState(client.state, toClient), m.state)
      BY <3>2, <2>3, <1>8, States DEF Follows
    <3>4. Chained(toClient') /\ FrontOK(client.state, client.count, toClient') /\ LastState(client.state, toClient') = m.state
      BY <1>1, <2>1, <2>3, <2>5, <3>1, <3>3, AppendChained
    <3> QED BY <1>7, <2>4, <3>4, States DEF Healthy
  <2> QED BY <1>4, <1>5, <1>6, <2>1, <2>2, <2>3, <2>5, <2>6, SendInv
<1>9. CASE slot.state \notin {NEW_MAP, PRESPAWN}
  <2>1. toClient' = toClient
    BY <1>9 DEF ProcessSignonStateMsg
  <2>2. slot'.state \in {PRESPAWN, SPAWN, FULL} => slot.state \in Begun
    BY <1>1, <1>9, <1>3, Proceeds, States DEF Begun, SlotStates
  <2>3. linked /\ ~client.retry => Healthy(client, spawnCount, slot', toClient')
    <3> SUFFICES ASSUME linked, ~client.retry PROVE Healthy(client, spawnCount, slot', toClient')
      OBVIOUS
    <3>1. CASE slot.state = CONNECTED
      <4>1. slot'.state = CONNECTED
        BY <1>1, <3>1, Proceeds
      <4> QED BY <1>7, <2>1, <3>1, <4>1, States DEF Healthy
    <3>2. CASE slot.state = SPAWN
      <4>1. slot'.state = FULL
        BY <1>1, <3>2, Proceeds, States
      <4>2. LastState(client.state, toClient) \in {CONNECTED, SPAWN}
        BY <1>7, <3>2, States DEF Healthy
      <4> QED BY <1>7, <2>1, <4>1, <4>2, States DEF Healthy
    <3>3. CASE slot.state \notin {CONNECTED, SPAWN}
      <4>1. slot' = slot
        BY <1>1, <1>9, <3>3, Proceeds
      <4> QED BY <1>7, <2>1, <4>1
    <3> QED BY <3>1, <3>2, <3>3
  <2>4. Msg(FULL, -1) \in Messages /\ Msg(FULL, -1).state = FULL /\ Msg(FULL, -1).count = -1
    BY Sent DEF Msg
  <2>5. FULL # CHANGELEVEL /\ -1 <= spawnCount /\ FULL \notin Counted
    BY States, Values, Bounds DEF Counted
  <2> QED BY <1>4, <1>5, <1>6, <2>1, <2>2, <2>3, <2>4, <2>5, SendInv
<1> QED BY <1>8, <1>9

LEMMA ServerReadInv == ASSUME SignonInv, TypeOK, ServerRead PROVE SignonInv'
<1>1. toServer # <<>> /\ UNCHANGED <<client, spawnCount>>
  BY DEF ServerRead
<1>2. CASE Drop
  BY <1>1, <1>2, DropInv
<1>3. CASE toServer' = Tail(toServer) /\ fresh' = FALSE /\ UNCHANGED <<slot, toClient, loose, linked>>
  <2>1. linked => Known(toServer', Begun, client.count)
    <3>1. Part(toServer', toServer)
      BY <1>1, <1>3, TailIsPart, Values
    <3> QED BY <3>1, PartKnown, Values DEF SignonInv, LinkedInv
  <2>2. CountInv' /\ LiveInv' /\ FreshInv' /\ OrderInv'
    BY <1>1, <1>3 DEF SignonInv, CountInv, LiveInv, FreshInv, OrderInv, Below, InOrder, Sound, Rising, Strict,
       Healthy, Chained, FrontOK, LastState
  <2>3. LinkedInv'
    BY <1>1, <1>3, <2>1 DEF SignonInv, LinkedInv, Known
  <2> QED BY <2>2, <2>3 DEF SignonInv
<1>4. CASE Reconnect /\ fresh' = FALSE /\ UNCHANGED <<loose, linked>>
  BY <1>1, <1>4, ReconnectInv
<1>5. CASE /\ Head(toServer).state \notin {NONE, CHANGELEVEL} /\ ~MustReconnect(Head(toServer)) /\ ProcessSignonStateMsg
           /\ fresh' = FALSE /\ UNCHANGED <<loose, linked>>
  BY <1>1, <1>5, ProcessInv
<1> QED BY <1>2, <1>3, <1>4, <1>5 DEF ServerRead

\* The client is told of the map: the last thing it heard was to start.
LEMMA SendServerInfoInv == ASSUME SignonInv, TypeOK, SendServerInfo PROVE SignonInv'
<1> DEFINE m == Msg(NEW_MAP, spawnCount)
<1>1. slot \in SlotType /\ slot.sendInfo /\ slot.state = CONNECTED /\ toClient \in Seq(Messages)
  BY Values, TypeParts DEF SendServerInfo, SlotOK
<1>2. ~fresh
  <2>1. fresh => ~slot.sendInfo
    BY FreeType DEF SignonInv, FreshInv
  <2> QED BY <1>1, <2>1
<1>3. NEW_MAP \in {NONE} \cup CONNECTED..CHANGELEVEL /\ spawnCount \in -1..MaxSpawn
  BY States, Values, Bounds
<1>4. m \in Messages /\ m.state = NEW_MAP /\ m.count = spawnCount
  BY <1>3, MsgType
<1>5. toClient' = Append(toClient, m) /\ UNCHANGED <<client, spawnCount, toServer>> /\ linked' = linked /\ fresh' = fresh
  BY DEF SendServerInfo, histories
<1> HIDE DEF m
<1>6. slot'.state = NEW_MAP
  BY <1>1 DEF SendServerInfo, SlotType
<1>7. Shift(toClient, toClient, 0) /\ Part(toClient, toClient)
  BY <1>1, Whole
<1>8. m.state # CHANGELEVEL /\ m.count <= spawnCount /\ m.state \notin {PRESPAWN, SPAWN} /\ slot'.state \notin {PRESPAWN, SPAWN, FULL}
  BY <1>4, <1>6, Values, States
<1>9. linked /\ ~client.retry => Healthy(client, spawnCount, slot', toClient')
  <2> SUFFICES ASSUME linked, ~client.retry PROVE Healthy(client, spawnCount, slot', toClient')
    OBVIOUS
  <2>1. Healthy(client, spawnCount, slot, toClient)
    BY DEF SignonInv, OrderInv
  <2>2. LastState(client.state, toClient) = CONNECTED
    BY <1>1, <2>1, States DEF Healthy
  <2>3. Follows(LastState(client.state, toClient), m.state)
    BY <2>2 DEF Follows
  <2>4. Chained(toClient') /\ FrontOK(client.state, client.count, toClient') /\ LastState(client.state, toClient') = NEW_MAP
    BY <1>1, <1>4, <1>5, <1>8, <2>1, <2>3, AppendChained DEF Healthy
  <2> QED BY <1>6, <2>1, <2>4, States DEF Healthy
<1>10. linked => Known(toServer', Begun, client.count)
  BY <1>5 DEF SignonInv, LinkedInv
<1> QED BY <1>2, <1>4, <1>5, <1>7, <1>8, <1>9, <1>10, SendInv

LEMMA SendFullUpdateInv == ASSUME SignonInv, TypeOK, SendFullUpdate PROVE SignonInv'
<1> DEFINE m == Msg(FULL, -1)
<1>1. slot \in SlotType /\ slot.state = FULL /\ ~slot.full /\ toClient \in Seq(Messages)
  BY Values DEF SendFullUpdate
<1>2. ~fresh
  <2>1. fresh => slot.state = CONNECTED
    BY FreeType DEF SignonInv, FreshInv
  <2> QED BY <1>1, <2>1, States
<1>3. m \in Messages /\ m.state = FULL /\ m.count = -1
  BY Sent DEF Msg
<1>4. toClient' = Append(toClient, m) /\ UNCHANGED <<client, spawnCount, toServer>> /\ linked' = linked /\ fresh' = fresh
  BY DEF SendFullUpdate, histories
<1> HIDE DEF m
<1>5. slot'.state = FULL /\ slot'.full
  BY <1>1 DEF SendFullUpdate, SlotType
<1>6. Shift(toClient, toClient, 0) /\ Part(toClient, toClient)
  BY <1>1, Whole
<1>7. m.state # CHANGELEVEL /\ m.count <= spawnCount /\ m.state \notin Counted /\ m.state \notin {PRESPAWN, SPAWN}
  BY <1>3, Values, Bounds, States DEF Counted
<1>8. linked /\ ~client.retry => Healthy(client, spawnCount, slot', toClient')
  <2> SUFFICES ASSUME linked, ~client.retry PROVE Healthy(client, spawnCount, slot', toClient')
    OBVIOUS
  <2>1. Healthy(client, spawnCount, slot, toClient)
    BY DEF SignonInv, OrderInv
  <2>2. LastState(client.state, toClient) \in {CONNECTED, SPAWN}
    BY <1>1, <2>1 DEF Healthy
  <2>3. Follows(LastState(client.state, toClient), m.state)
    BY <2>2, <1>3, States DEF Follows
  <2>4. Chained(toClient') /\ FrontOK(client.state, client.count, toClient')
    BY <1>1, <1>3, <1>4, <1>7, <2>1, <2>3, AppendChained DEF Healthy
  <2> QED BY <1>5, <2>1, <2>4, States DEF Healthy
<1>9. linked => Known(toServer', Begun, client.count) /\ client.count = spawnCount
  BY <1>1, <1>4 DEF SignonInv, LinkedInv
<1> QED BY <1>2, <1>3, <1>4, <1>6, <1>7, <1>8, <1>9, SendInv

\* The map changes: the notice of its end and the call to start, behind a part of the queue.
LEMMA ChangeLevelInv == ASSUME SignonInv, TypeOK, ChangeLevel PROVE SignonInv'
<1>1. client' = client /\ toServer' = toServer /\ linked' = linked /\ fresh' = fresh /\ spawnCount' = spawnCount + 1
  BY DEF ChangeLevel, histories
<1>2. client.count <= spawnCount /\ client.count \in Int /\ spawnCount \in Int /\ spawnCount >= 1
      /\ toClient \in Seq(Messages) /\ slot \in SlotType
  BY Values DEF SignonInv, CountInv
<1>3. linked => Known(toServer, Begun, client.count)
  BY DEF SignonInv, LinkedInv
<1>4. CASE slot.state = NONE
  <2>1. slot' = slot /\ toClient' = toClient
    BY <1>4 DEF ChangeLevel
  <2>2. \A i \in 1..Len(toClient) : toClient[i].count \in Int
    BY <1>2, Fields, Bounds
  <2>3. CountInv'
    BY <1>1, <1>2, <2>1, <2>2 DEF SignonInv, CountInv, Below
  <2>4. ~fresh
    <3>1. fresh => slot.state = CONNECTED
      BY FreeType DEF SignonInv, FreshInv
    <3> QED BY <1>4, <3>1, States
  <2>5. LiveInv'
    BY <1>1, <1>2, <2>1, <2>2 DEF SignonInv, LiveInv, InOrder, Sound, Rising, Strict
  <2>6. FreshInv'
    BY <1>1, <2>4 DEF FreshInv
  <2>7. LinkedInv'
    BY <1>1, <1>4, <2>1, States DEF SignonInv, LinkedInv, Known
  <2>8. OrderInv'
    BY <1>1, <1>2, <1>4, <2>1, States DEF SignonInv, OrderInv, Healthy, Chained, FrontOK, LastState
  <2> QED BY <2>3, <2>5, <2>6, <2>7, <2>8 DEF SignonInv
<1>5. CASE slot.state # NONE
  <2> DEFINE c == Msg(CONNECTED, -1)
  <2>1. slot' = [Inactivated(slot) EXCEPT !.state = CONNECTED]
    BY <1>5 DEF ChangeLevel
  <2>2. PICK k \in Kept(toClient) : toClient' = k \o <<Notice, c>>
    BY <1>5 DEF ChangeLevel
  <2>3. Part(k, toClient) /\ k \in Seq(Messages) /\ Shift(k, toClient, 0)
    BY <1>2, KeptIsPart DEF Shift
  <2>4. CHANGELEVEL \in {NONE} \cup CONNECTED..CHANGELEVEL /\ spawnCount \in -1..MaxSpawn
    BY States, Values, Bounds
  <2>5. Notice \in Messages /\ Notice.state = CHANGELEVEL /\ Notice.count = spawnCount
    BY <2>4, MsgType DEF Notice
  <2>6. c \in Messages /\ c.state = CONNECTED /\ c.count = -1
    BY Sent DEF Msg
  <2> HIDE DEF c
  <2> DEFINE b == Append(k, Notice)
  <2>7. toClient' = Append(b, c) /\ b \in Seq(Messages) /\ b # <<>>
    BY <2>2, <2>3, <2>5, <2>6
  <2>8. Below(k, spawnCount) /\ (linked \/ fresh => InOrder(k, client.count, spawnCount))
        /\ (linked => Known(k, {PRESPAWN, SPAWN}, client.count))
        /\ (fresh => \A i \in 1..Len(k) : k[i].state \in {CONNECTED, CHANGELEVEL})
        /\ (linked /\ ~client.retry => Chained(k))
    BY <2>3, PartInv
  <2>9. (linked \/ fresh => InOrder(b, client.count, spawnCount + 1) /\ Below(b, spawnCount + 1))
    BY <1>2, <2>3, <2>5, <2>8, NoticeInOrder
  <2>10. Below(b, spawnCount + 1)
    <3>1. Below(k, spawnCount + 1)
      <4>1. \A i \in 1..Len(k) : k[i].count \in Int
        BY <2>3, Fields, Bounds
      <4> QED BY <1>2, <2>8, <4>1 DEF Below
    <3> QED BY <1>2, <2>3, <2>5, <3>1, AppendBelow
  <2>11. linked => Known(b, {PRESPAWN, SPAWN}, client.count)
    BY <2>3, <2>5, <2>8, AppendKnown, States
  <2>12. spawnCount + 1 \in Int /\ client.count <= spawnCount + 1 /\ c.count <= spawnCount + 1 /\ c.state # CHANGELEVEL
         /\ c.state \notin Counted /\ c.state \notin {PRESPAWN, SPAWN}
    BY <1>2, <2>6, States DEF Counted
  <2> HIDE DEF b
  <2>13. CountInv'
    BY <1>1, <2>6, <2>7, <2>10, <2>12, AppendBelow DEF CountInv
  <2>14. LiveInv'
    BY <1>1, <1>2, <2>6, <2>7, <2>9, <2>12, AppendInOrder DEF LiveInv
  <2>15. slot'.state = CONNECTED /\ slot'.full = FALSE /\ slot' \in SlotType /\ slot'.sendInfo = slot.sendInfo
    BY <1>2, <2>1, Inactivates
  <2>16. FreshInv'
    <3>1. SUFFICES ASSUME fresh PROVE FreshInv'
      BY <1>1 DEF FreshInv
    <3>2. slot' = [Free EXCEPT !.state = CONNECTED] /\ ~linked
      <4>1. slot = [Free EXCEPT !.state = CONNECTED] /\ ~linked
        BY <3>1 DEF SignonInv, FreshInv
      <4>2. slot = [state |-> CONNECTED, sendInfo |-> FALSE, full |-> FALSE]
        BY <4>1 DEF Free
      <4>3. slot' = [state |-> CONNECTED, sendInfo |-> FALSE, full |-> FALSE]
        BY <2>1, <4>2 DEF Inactivated
      <4>4. slot' = [Free EXCEPT !.state = CONNECTED]
        BY <4>1, <4>2, <4>3
      <4> QED BY <4>1, <4>4
    <3>3. \A i \in 1..Len(b) : b[i].state \in {CONNECTED, CHANGELEVEL}
      <4>1. Len(b) = Len(k) + 1 /\ b[Len(k) + 1] = Notice /\ Len(k) \in Nat /\ \A i \in 1..Len(k) : b[i] = k[i]
        BY <2>3, <2>5, Appended DEF b
      <4>2. \A i \in 1..Len(k) + 1 : i \in 1..Len(k) \/ i = Len(k) + 1
        BY <4>1
      <4> QED BY <2>5, <2>8, <3>1, <4>1, <4>2
    <3>4. Len(toClient') = Len(b) + 1 /\ toClient'[Len(b) + 1] = c /\ Len(b) \in Nat /\ \A i \in 1..Len(b) : toClient'[i] = b[i]
      BY <2>6, <2>7, Appended
    <3>5. \A i \in 1..Len(toClient') : toClient'[i].state \in {CONNECTED, CHANGELEVEL}
      <4>1. \A i \in 1..Len(b) + 1 : i \in 1..Len(b) \/ i = Len(b) + 1
        BY <3>4
      <4> QED BY <2>6, <3>3, <3>4, <4>1
    <3>6. LastState(CONNECTED, toClient') = CONNECTED
      BY <2>6, <3>4 DEF LastState
    <3> QED BY <1>1, <3>2, <3>5, <3>6 DEF FreshInv
  <2>17. LinkedInv'
    <3>1. linked => Known(Append(b, c), {PRESPAWN, SPAWN}, client.count)
      BY <2>6, <2>7, <2>11, <2>12, AppendKnown
    <3> QED BY <1>1, <1>3, <2>7, <2>15, <3>1, States DEF LinkedInv
  <2>18. OrderInv'
    <3> SUFFICES ASSUME linked, ~client.retry PROVE Healthy(client, spawnCount + 1, slot', toClient')
      BY <1>1 DEF OrderInv
    <3>1. Healthy(client, spawnCount, slot, toClient)
      BY DEF SignonInv, OrderInv
    <3>2. FrontOK(client.state, client.count, k)
      <4>1. k # <<>> => Len(k) >= 1 /\ k[1] = toClient[1] /\ toClient # <<>>
        BY <2>3, <1>2 DEF Shift
      <4> QED BY <3>1, <4>1 DEF Healthy, FrontOK
    <3>3. Follows(LastState(client.state, k), Notice.state)
      BY <2>5 DEF Follows
    <3>4. client.state = CHANGELEVEL => client.count < Notice.count /\ 1 < Notice.count
      BY <2>5, <3>1 DEF Healthy
    <3>5. Chained(b) /\ FrontOK(client.state, client.count, b)
      BY <2>3, <2>5, <2>8, <3>2, <3>3, <3>4, AppendChained DEF b
    <3>6. Follows(LastState(client.state, b), c.state)
      BY <2>6 DEF Follows
    <3>7. Chained(toClient') /\ FrontOK(client.state, client.count, toClient') /\ LastState(client.state, toClient') = CONNECTED
      BY <2>6, <2>7, <2>12, <3>5, <3>6, AppendChained
    <3> QED BY <1>2, <2>15, <3>1, <3>7, States DEF Healthy
  <2> QED BY <2>13, <2>14, <2>16, <2>17, <2>18 DEF SignonInv
<1> QED BY <1>4, <1>5

LEMMA LoseMessageInv == ASSUME SignonInv, TypeOK, LoseMessage PROVE SignonInv'
<1>1. ~linked /\ ~linked' /\ fresh' = fresh /\ UNCHANGED <<client, slot, spawnCount>>
  BY DEF LoseMessage, histories
<1>2. CASE toClient' = toClient
  BY <1>1, <1>2, GoesInv
<1>3. CASE toClient # <<>> /\ toClient' = Tail(toClient)
  <2>1. Part(toClient', toClient) /\ \A s : LastState(s, toClient') \in {s, LastState(client.state, toClient)}
    BY <1>3, TailInv
  <2>2. Below(toClient', spawnCount) /\ (fresh => InOrder(toClient', client.count, spawnCount))
        /\ (fresh => \A i \in 1..Len(toClient') : toClient'[i].state \in {CONNECTED, CHANGELEVEL})
    BY <2>1, PartInv
  <2>3. CountInv' /\ LiveInv'
    BY <1>1, <2>2 DEF SignonInv, CountInv, LiveInv
  <2>4. FreshInv'
    <3>1. SUFFICES ASSUME fresh PROVE FreshInv'
      BY <1>1 DEF FreshInv
    <3>2. LastState(client.state, toClient) = LastState(CONNECTED, toClient)
      BY <1>3 DEF LastState
    <3>3. LastState(CONNECTED, toClient') = CONNECTED
      BY <2>1, <3>1, <3>2 DEF SignonInv, FreshInv
    <3> QED BY <1>1, <2>2, <3>1, <3>3 DEF SignonInv, FreshInv
  <2> QED BY <1>1, <2>3, <2>4 DEF SignonInv, LinkedInv, OrderInv
<1> QED BY <1>2, <1>3, Zenon DEF LoseMessage

LEMMA NextInv == SignonInv /\ TypeOK /\ [Next]_vars => SignonInv'
<1> SUFFICES ASSUME SignonInv, TypeOK, [Next]_vars PROVE SignonInv'
  OBVIOUS
<1>1. CASE UNCHANGED vars
  <2>1. UNCHANGED <<client, slot, spawnCount, toClient, toServer, linked, fresh>>
    BY <1>1 DEF vars, channels, histories
  <2> QED BY <2>1, SameInv
<1>2. CASE ClientNext
  BY <1>2, ComesAndGoesInv, LooseInv, ReadConnectionInv, ClientReadInv, FinishUpdatingInv DEF ClientNext
<1>3. CASE ServerNext
  BY <1>3, LooseInv, ConnectClientInv, ServerDropsInv, ServerReadInv, SendServerInfoInv, SendFullUpdateInv,
     ChangeLevelInv DEF ServerNext
<1> QED BY <1>1, <1>2, <1>3, LooseInv, LoseMessageInv DEF Next

LEMMA Invariant == Spec => [](SignonInv /\ TypeOK)
BY InitInv, InitType, NextInv, NextType, PTL DEF Spec

-----------------------------------------------------------------------------
(* What follows.                                                           *)

\* A client that the server lets begin with a map, spawns or takes into the game knows this map, as
\* long as the channels are those made for each other: for any number of map changes and of answers
\* to earlier starts that are still under way, the part of InGameTogether that does not need to count
\* them.
SameMap == linked /\ slot.state \in {PRESPAWN, SPAWN, FULL} => client.count = spawnCount

THEOREM SameMapCorrect == Spec => []SameMap
<1>1. SignonInv => SameMap
  BY DEF SignonInv, LinkedInv, SameMap
<1> QED BY <1>1, Invariant, PTL

\* What a healthy client refuses is the notice of a map that it has not read of and that has ended.
LEMMA Overtaken ==
  ASSUME SignonInv, TypeOK, [Next]_vars, linked, ~client.retry, client'.retry
  PROVE  /\ Head(toClient).state = CHANGELEVEL
         /\ client.count < Head(toClient).count /\ Head(toClient).count < spawnCount
         /\ client.count = -1 => client.state = CHANGELEVEL
<1>1. Healthy(client, spawnCount, slot, toClient)
  BY DEF SignonInv, OrderInv
<1>2. client \in ClientType
  BY Values
<1>3. \A c \in ClientType : ~c.retry /\ (Disconnect(c) \/ Connect(c)) => ~client'.retry
  BY DEF Disconnect, Connect, Cleared, ClientType
<1>4. ~[client EXCEPT !.retry = FALSE].retry /\ [client EXCEPT !.retry = FALSE] \in ClientType
  BY <1>2 DEF ClientType
<1>5. toClient # <<>> /\ ReadSignonState(Head(toClient)) /\ Refuses(Head(toClient))
  <2>1. ~UserConnects /\ ~Retry /\ ~ClientLeaves
    BY <1>2, <1>3, <1>4 DEF UserConnects, Retry, ClientLeaves
  <2>2. ~CheckForResend
    BY <1>2, <1>3 DEF CheckForResend
  <2>3. \A k \in {"connection", "former"} : ~ReadConnection(k)
    <3> SUFFICES ASSUME NEW k \in {"connection", "former"}, ReadConnection(k) PROVE FALSE
      OBVIOUS
    <3>1. client' = client \/ client' = [client EXCEPT !.state = CONNECTED]
      BY Zenon DEF ReadConnection
    <3> QED BY <1>2, <3>1 DEF ClientType
  <2>4. ~FinishUpdating
    BY <1>2 DEF FinishUpdating, ClientType
  <2>5. client' # client
    OBVIOUS
  <2>6. ClientRead
    <3>1. ~ReadChallenge /\ ~LoseLoose /\ ~LoseMessage /\ ~UNCHANGED vars
      BY <2>5 DEF ReadChallenge, LoseLoose, LoseMessage, vars
    <3>2. ~ServerNext
      BY <2>5 DEF ServerNext, ReplyChallenge, ConnectClient, ServerDrops, ServerRead, SendServerInfo, SendFullUpdate, ChangeLevel
    <3> QED BY <2>1, <2>2, <2>3, <2>4, <3>1, <3>2 DEF Next, ClientNext
  <2>7. ~ReadDisconnect(Head(toClient)) /\ ~ReadConnected(Head(toClient)) /\ ~ReadServerInfo(Head(toClient))
        /\ ~ReadFullUpdate(Head(toClient))
    <3>1. ~ReadDisconnect(Head(toClient))
      BY <1>2, <1>3 DEF ReadDisconnect
    <3> QED BY <1>2, <3>1 DEF ReadConnected, ReadServerInfo, ReadFullUpdate, ClientType
  <2>8. toClient # <<>> /\ ReadSignonState(Head(toClient))
    BY <2>6, <2>7 DEF ClientRead
  <2>9. Refuses(Head(toClient))
    BY <1>2, <2>8 DEF ReadSignonState, ClientType
  <2> QED BY <2>8, <2>9
<1> DEFINE m == toClient[1]
<1>6. Head(toClient) = m /\ 1 \in 1..Len(toClient) /\ m \in Messages /\ m.count \in Int /\ client.count \in Int /\ client.count >= -1
      /\ spawnCount \in Int /\ spawnCount >= 1 /\ client.state \in NONE..CHANGELEVEL
  <2>1. Head(toClient) = m /\ 1 \in 1..Len(toClient) /\ toClient \in Seq(Messages)
    BY <1>5, Values, HeadType
  <2> QED BY <2>1, Fields, Values, Bounds
<1>7. m.state \in {PRESPAWN, SPAWN, CHANGELEVEL} /\ Refuses(m) /\ Follows(client.state, m.state)
  BY <1>1, <1>5, <1>6 DEF ReadSignonState, Healthy, FrontOK
<1>8. client.count <= m.count
  BY <1>6, <1>7 DEF SignonInv, LiveInv, InOrder, Sound, Counted
<1>9. CASE m.state = CHANGELEVEL
  <2>1. 1 <= m.count /\ m.count < spawnCount
    BY <1>6, <1>9 DEF SignonInv, LiveInv, InOrder, Sound
  <2>2. client.state = CHANGELEVEL => client.count < m.count /\ 1 < m.count
    BY <1>1, <1>5, <1>9 DEF Healthy, FrontOK
  <2>3. client.state = CHANGELEVEL \/ (m.count # client.count /\ client.count # -1)
    BY <1>6, <1>7, <1>9, States DEF Refuses
  <2> QED BY <1>6, <1>8, <1>9, <2>1, <2>2, <2>3
<1>10. CASE m.state \in {PRESPAWN, SPAWN}
  <2>1. m.count <= client.count
    BY <1>6, <1>10 DEF SignonInv, LinkedInv, Known
  <2>2. m.state <= client.state
    BY <1>6, <1>7, <1>8, <2>1 DEF Refuses
  <2>3. FALSE
    BY <1>6, <1>7, <1>10, <2>2, States DEF Follows
  <2> QED BY <2>3
<1> QED BY <1>7, <1>9, <1>10

\* A healthy client is thrown back to a new connection only by the notice of a map that it has not
\* read of and that has ended too; one that knows no map only by a second notice.  Whatever was cleared,
\* whatever was still under way, and however often it connected.
THEOREM RefusedOnlyWhenOvertakenCorrect == Spec => RefusedOnlyWhenOvertaken
<1>1. SignonInv /\ TypeOK /\ [Next]_vars =>
        [linked /\ ~client.retry /\ client'.retry =>
           LET m == Head(toClient) IN
           /\ m.state = CHANGELEVEL
           /\ client.count < m.count /\ m.count < spawnCount
           /\ client.count = -1 => client.state = CHANGELEVEL]_vars
  BY Overtaken
<1> QED BY <1>1, Invariant, PTL DEF Spec, RefusedOnlyWhenOvertaken
=============================================================================
