------------------------------- MODULE Signon -------------------------------
(***************************************************************************)
(* How one client gets into the game of a server, and stays with it over     *)
(* map changes: CBaseClientState and CClientState (engine/baseclientstate.cpp,*)
(* client.cpp) on one side, CBaseServer, CBaseClient and CGameClient          *)
(* (baseserver.cpp, baseclient.cpp, sv_client.cpp) on the other.              *)
(*                                                                         *)
(* Connectionless packets are lost and overtake one another.  A channel is    *)
(* what NetChan shows of it: its reliable messages arrive in order, Clear     *)
(* drops what has not been sent (and the rest of the packet that is being     *)
(* read), Reset what has not been put into fragments.  A client and a slot    *)
(* whose channels were not made for each other may miss any message.  What a  *)
(* closed channel had under way is read before its successor is made, or lost.*)
(*                                                                         *)
(* Left out: rejections, lobbies and passwords, split-screen users, HLTV,     *)
(* demos, listen servers.                                                   *)
(***************************************************************************)
EXTENDS Integers, Sequences

CONSTANTS
  MaxRetry,   \* m_nRetryMax
  MaxSpawn,   \* bound: m_nSpawnCount
  MaxConnect, \* bound: "connect" commands of the user
  MaxLoose    \* bound: connectionless packets of a kind in flight

ASSUME SignonAssumption ==
  /\ MaxRetry \in Nat /\ MaxConnect \in Nat
  /\ MaxSpawn \in Nat \ {0} /\ MaxLoose \in Nat \ {0}

\* SIGNONSTATE_*; NEW is a word of the language.
NONE      == 0
CHALLENGE == 1
CONNECTED == 2
NEW_MAP   == 3
PRESPAWN  == 4
SPAWN     == 5
FULL      == 6
CHANGELEVEL == 7

\* The connectionless packets; "former" is a S2C_CONNECTION for a channel that
\* the server has replaced or closed since.
Loose == {"getchallenge", "challenge", "connect", "connection", "former"}

VARIABLES
  client,     \* m_nSignonState, m_nServerCount, m_bUpdateSteamResources, and
              \* whether CL_Retry has queued a "connect" command
  tries,      \* m_nRetryNumber
  slot,       \* the server's client: m_nSignonState, m_bSendServerInfo, and whether a
              \* full update was sent (m_nDeltaTick, m_nForceWaitForTick)
  spawnCount, \* m_nSpawnCount
  loose,      \* connectionless packets in flight
  toClient,   \* messages under way in the channel
  toServer,
  linked,     \* history: the two channels were made for each other
  fresh,      \* history: the slot's channel has no peer and has read nothing
  connects    \* commands of the user, for the bound

channels == <<toClient, toServer>>
histories == <<linked, fresh>>
vars == <<client, tries, slot, spawnCount, loose, channels, histories, connects>>

\* NETMsg_SignonState, with what goes before it in the same block: ServerInfo or
\* ClientInfo (NEW_MAP).  FULL to the client is the first full update, NONE is NETMsg_Disconnect.
Msg(state, count) == [state |-> state, count |-> count]
Messages == [state : {NONE} \cup CONNECTED..CHANGELEVEL, count : -1..MaxSpawn]

Free == [state |-> NONE, sendInfo |-> FALSE, full |-> FALSE]

Init ==
  /\ client = [state |-> NONE, count |-> -1, updating |-> FALSE, retry |-> FALSE]
  /\ tries = 0
  /\ slot = Free
  /\ spawnCount = 1
  /\ loose = [k \in Loose |-> 0]
  /\ toClient = <<>> /\ toServer = <<>>
  /\ linked = FALSE /\ fresh = FALSE
  /\ connects = 0

\* What Clear or Reset of the sender leaves of a stream, and what Clear of the receiver
\* leaves of it: the rest of the packet is not read.
Kept(q) == {SubSeq(q, 1, n) : n \in 0..Len(q)}
Rest(q) == {SubSeq(q, n, Len(q)) : n \in 2..Len(q) + 1}

\* b with a packet of kind k taken out, or put in (lost at the bound).
Without(b, k) == [b EXCEPT ![k] = @ - 1]
With(b, k)    == [b EXCEPT ![k] = IF @ < MaxLoose THEN @ + 1 ELSE @]

\* The slot's channel is closed: its S2C_CONNECTION is one of a former channel.
Superseded(b) ==
  [b EXCEPT !["connection"] = 0,
            !["former"] = IF b["connection"] > 0 /\ @ < MaxLoose THEN @ + 1 ELSE @]

-----------------------------------------------------------------------------
(* The client.                                                             *)

\* What the client says of its state.  Mutant: without the count at the last.
FullWithoutCount(state) == Msg(state, IF state = FULL THEN -1 ELSE client.count)
Reply(state) == Msg(state, client.count)

HasChannel == client.state >= CONNECTED

\* What CClientState::Clear (CL_ClearState) leaves of c, a client state.
Cleared(c) == [c EXCEPT !.count = -1, !.updating = FALSE]

\* CBaseClientState::Disconnect but for the state: the channel is shut down with a
\* NETMsg_Disconnect.
CloseChannel ==
  /\ tries' = 0
  /\ IF HasChannel THEN \E k \in Kept(toServer) : toServer' = Append(k, Msg(NONE, -1))
                   ELSE UNCHANGED toServer
  /\ linked' = FALSE /\ UNCHANGED fresh

\* CClientState::Disconnect of c, a client state.
Disconnect(c) ==
  /\ client' = [Cleared(c) EXCEPT !.state = NONE]
  /\ CloseChannel

\* The "connect" command: Host_Disconnect, which clears the state also when there is no channel,
\* and ConnectInternal.
Connect(c) ==
  /\ client' = [Cleared(c) EXCEPT !.state = CHALLENGE]
  /\ CloseChannel
  /\ UNCHANGED <<slot, spawnCount, loose, toClient>>

UserConnects ==
  /\ connects < MaxConnect
  /\ connects' = connects + 1
  /\ Connect(client)

\* The command that CL_Retry queued.
Retry ==
  /\ client.retry
  /\ Connect([client EXCEPT !.retry = FALSE])
  /\ UNCHANGED connects

\* The user leaves, or the client's channel times out (ConnectionCrashed).
ClientLeaves ==
  /\ client.state # NONE
  /\ Disconnect(client)
  /\ UNCHANGED <<slot, spawnCount, loose, toClient, connects>>

CheckForResend ==
  /\ client.state = CHALLENGE
  /\ IF tries >= MaxRetry
     THEN /\ Disconnect(client)
          /\ UNCHANGED loose
     ELSE /\ loose' = With(loose, "getchallenge")
          /\ tries' = tries + 1
          /\ UNCHANGED <<client, toServer, histories>>
  /\ UNCHANGED <<slot, spawnCount, toClient, connects>>

\* S2C_CHALLENGE: HandleDeferredConnection sends C2S_CONNECT.
ReadChallenge ==
  /\ loose["challenge"] > 0
  /\ loose' = IF client.state = CHALLENGE THEN With(Without(loose, "challenge"), "connect")
                                          ELSE Without(loose, "challenge")
  /\ UNCHANGED <<client, tries, slot, spawnCount, channels, histories, connects>>

\* S2C_CONNECTION: FullConnect makes the channel and replies with the first state.
ReadConnection(k) ==
  /\ loose[k] > 0
  /\ loose' = Without(loose, k)
  /\ IF client.state = CHALLENGE
     THEN /\ client' = [client EXCEPT !.state = CONNECTED]
          /\ toServer' = <<Msg(CONNECTED, -1)>>
          /\ linked' = (k = "connection" /\ fresh)
          /\ fresh' = FALSE
     ELSE UNCHANGED <<client, toServer, histories>>
  /\ UNCHANGED <<tries, slot, spawnCount, toClient, connects>>

\* CBaseClientState::SetSignonState: whether the message is refused.
Refuses(m) ==
  \/ m.state > CONNECTED /\ m.state <= client.state
  \/ m.count # client.count /\ m.count # -1 /\ client.count # -1

\* A handler that fails: the rest of the packet is not read.
ReadDisconnect(m) ==
  /\ m.state = NONE
  /\ Disconnect(client)
  /\ toClient' \in Rest(toClient)

\* SIGNONSTATE_CONNECTED: the client starts again, with its channel cleared.
ReadConnected(m) ==
  /\ m.state = CONNECTED
  /\ client' = [client EXCEPT !.state = CONNECTED]
  /\ \E k \in Kept(toServer) : toServer' = Append(k, m)
  /\ toClient' \in Rest(toClient)
  /\ UNCHANGED <<tries, histories>>

\* Mutant: the server is told before the resources are there.
ReadServerInfoAtOnce(m) ==
  /\ m.state = NEW_MAP
  /\ client' = [client EXCEPT !.state = NEW_MAP, !.count = m.count, !.updating = TRUE]
  /\ \E k \in Kept(toServer) : toServer' = Append(k, m)
  /\ toClient' = Tail(toClient)
  /\ UNCHANGED <<tries, histories>>

\* ServerInfo and SIGNONSTATE_NEW: CL_ClearState, then the resources are checked before
\* the server is told.
ReadServerInfo(m) ==
  /\ m.state = NEW_MAP
  /\ client' = [client EXCEPT !.state = NEW_MAP, !.count = m.count, !.updating = TRUE]
  /\ toServer' \in Kept(toServer)
  /\ toClient' = Tail(toClient)
  /\ UNCHANGED <<tries, histories>>

\* The other states are accepted and replied to, or refused with CL_Retry.
ReadSignonState(m) ==
  /\ m.state \in {PRESPAWN, SPAWN, CHANGELEVEL}
  /\ IF Refuses(m)
     THEN /\ client' = [client EXCEPT !.retry = TRUE]
          /\ toClient' \in Rest(toClient)
          /\ UNCHANGED toServer
     ELSE /\ client' = [client EXCEPT !.state = m.state]
          /\ toServer' = Append(toServer, m)
          /\ toClient' = Tail(toClient)
  /\ UNCHANGED <<tries, histories>>

\* SVCMsg_PacketEntities, not delta compressed.
ReadFullUpdate(m) ==
  /\ m.state = FULL
  /\ IF client.state = SPAWN
     THEN /\ client' = [client EXCEPT !.state = FULL]
          /\ toServer' = Append(toServer, Reply(FULL))
     ELSE UNCHANGED <<client, toServer>>
  /\ IF client.state < SPAWN THEN toClient' \in Rest(toClient)
                             ELSE toClient' = Tail(toClient)
  /\ UNCHANGED <<tries, histories>>

ClientRead ==
  /\ HasChannel /\ toClient # <<>>
  /\ LET m == Head(toClient) IN
     \/ ReadDisconnect(m)
     \/ ReadConnected(m)
     \/ ReadServerInfo(m)
     \/ ReadSignonState(m)
     \/ ReadFullUpdate(m)
  /\ UNCHANGED <<slot, spawnCount, loose, connects>>

\* CheckUpdatingSteamResources when the resources are there, and FinishSignonState_New.
FinishUpdating ==
  /\ client.updating
  /\ client' = [client EXCEPT !.updating = FALSE]
  /\ toServer' = IF client.state = NEW_MAP THEN Append(toServer, Reply(NEW_MAP))
                                       ELSE toServer
  /\ UNCHANGED <<tries, slot, spawnCount, loose, toClient, histories, connects>>

-----------------------------------------------------------------------------
(* The server.                                                             *)

ReplyChallenge ==
  /\ loose["getchallenge"] > 0
  /\ loose' = With(Without(loose, "getchallenge"), "challenge")
  /\ UNCHANGED <<client, tries, slot, spawnCount, channels, histories, connects>>

\* C2S_CONNECT: GetFreeClient closes the slot that the address has, without a word, and
\* the slot gets a new channel.
ConnectClient ==
  /\ loose["connect"] > 0
  /\ loose' = With(Superseded(Without(loose, "connect")), "connection")
  /\ slot' = [Free EXCEPT !.state = CONNECTED]
  /\ toClient' = <<>>
  /\ linked' = FALSE /\ fresh' = TRUE
  /\ UNCHANGED <<client, tries, spawnCount, toServer, connects>>

\* CBaseClient::Disconnect.
Drop ==
  /\ slot' = Free
  /\ \E k \in Kept(toClient) : toClient' = Append(k, Msg(NONE, -1))
  /\ loose' = Superseded(loose)
  /\ linked' = FALSE /\ fresh' = FALSE

\* A kick, a rejection by the game, a timeout or an overflow.
ServerDrops ==
  /\ slot.state # NONE
  /\ Drop
  /\ UNCHANGED <<client, tries, spawnCount, toServer, connects>>

\* CBaseClient::Reconnect while a message is handled.
Reconnect ==
  /\ slot' = [slot EXCEPT !.state = CONNECTED]
  /\ \E k \in Kept(toClient) : toClient' = Append(k, Msg(CONNECTED, -1))
  /\ toServer' \in Rest(toServer)

\* ProcessSignonStateMsg: the state that follows, and the message that tells the client.
\* CONNECTED waits for SendPendingServerInfo; FULL follows SPAWN without a message.
ProcessSignonStateMsg ==
  /\ slot' = CASE slot.state = CONNECTED -> [slot EXCEPT !.sendInfo = TRUE]
               [] slot.state \in {NEW_MAP, PRESPAWN, SPAWN} -> [slot EXCEPT !.state = @ + 1]
               [] OTHER -> slot
  /\ toClient' = IF slot.state \in {NEW_MAP, PRESPAWN}
                 THEN Append(toClient, Msg(slot.state + 1, spawnCount)) ELSE toClient
  /\ toServer' = Tail(toServer)

\* CLCMsg_ClientInfo and NETMsg_SignonState: whether the client has to start again.
\* Mutant: the state is not compared.
MustReconnectForCount(m) == m.state > CONNECTED /\ m.count # spawnCount
MustReconnect(m) ==
  \/ m.state > CONNECTED /\ m.count # spawnCount
  \/ m.state # slot.state

ServerRead ==
  /\ slot.state # NONE /\ toServer # <<>>
  /\ LET m == Head(toServer) IN
     \/ /\ m.state = NONE
        /\ Drop
        /\ toServer' = Tail(toServer)
     \/ /\ m.state = CHANGELEVEL
        /\ toServer' = Tail(toServer)
        /\ fresh' = FALSE
        /\ UNCHANGED <<slot, toClient, loose, linked>>
     \/ /\ m.state \notin {NONE, CHANGELEVEL}
        /\ IF MustReconnect(m) THEN Reconnect ELSE ProcessSignonStateMsg
        /\ fresh' = FALSE
        /\ UNCHANGED <<loose, linked>>
  /\ UNCHANGED <<client, tries, spawnCount, connects>>

\* Mutant: the flag is not reset.
SendServerInfoAgain ==
  /\ slot.sendInfo
  /\ slot' = [slot EXCEPT !.state = NEW_MAP]
  /\ toClient' = Append(toClient, Msg(NEW_MAP, spawnCount))
  /\ UNCHANGED <<client, tries, spawnCount, loose, toServer, histories, connects>>

\* SendPendingServerInfo, at the end of CBaseServer::RunFrame.
SendServerInfo ==
  /\ slot.sendInfo
  /\ slot' = [slot EXCEPT !.state = NEW_MAP, !.sendInfo = FALSE]
  /\ toClient' = Append(toClient, Msg(NEW_MAP, spawnCount))
  /\ UNCHANGED <<client, tries, spawnCount, loose, toServer, histories, connects>>

\* The first snapshot of a client in the game is a full one, sent as reliable data.
SendFullUpdate ==
  /\ slot.state = FULL /\ ~slot.full
  /\ slot' = [slot EXCEPT !.full = TRUE]
  /\ toClient' = Append(toClient, Msg(FULL, -1))
  /\ UNCHANGED <<client, tries, spawnCount, loose, toServer, histories, connects>>

\* What Inactivate leaves of a slot, and what it tells the client: the count of the map that
\* ends.  Mutants: the delta state is not reset; the count has been raised before.
NotReset(s)    == [s EXCEPT !.state = CHANGELEVEL]
Inactivated(s) == [s EXCEPT !.state = CHANGELEVEL, !.full = FALSE]
LateNotice     == Msg(CHANGELEVEL, spawnCount + 1)
Notice         == Msg(CHANGELEVEL, spawnCount)

\* Host_Changelevel, in one frame: InactivateClients, SpawnServer and ReconnectClients.
ChangeLevel ==
  /\ spawnCount < MaxSpawn
  /\ ~slot.sendInfo
  /\ spawnCount' = spawnCount + 1
  /\ IF slot.state = NONE
     THEN UNCHANGED <<slot, toClient>>
     ELSE /\ slot' = [Inactivated(slot) EXCEPT !.state = CONNECTED]
          /\ \E k \in Kept(toClient) :
               toClient' = k \o <<Notice, Msg(CONNECTED, -1)>>
  /\ UNCHANGED <<client, tries, loose, toServer, histories, connects>>

-----------------------------------------------------------------------------
(* The network.                                                            *)

LoseLoose ==
  /\ \E k \in Loose : loose[k] > 0 /\ loose' = Without(loose, k)
  /\ UNCHANGED <<client, tries, slot, spawnCount, channels, histories, connects>>

\* A message between channels that were not made for each other.
LoseMessage ==
  /\ ~linked
  /\ \/ toClient # <<>> /\ toClient' = Tail(toClient) /\ UNCHANGED toServer
     \/ toServer # <<>> /\ toServer' = Tail(toServer) /\ UNCHANGED toClient
  /\ UNCHANGED <<client, tries, slot, spawnCount, loose, histories, connects>>

ClientNext ==
  \/ UserConnects \/ Retry \/ ClientLeaves \/ CheckForResend
  \/ ReadChallenge \/ \E k \in {"connection", "former"} : ReadConnection(k)
  \/ ClientRead \/ FinishUpdating

ServerNext ==
  \/ ReplyChallenge \/ ConnectClient \/ ServerDrops \/ ServerRead
  \/ SendServerInfo \/ SendFullUpdate \/ ChangeLevel

Next == ClientNext \/ ServerNext \/ LoseLoose \/ LoseMessage

Spec == Init /\ [][Next]_vars

\* Both sides read what arrives and finish what is pending; nobody has to connect,
\* to leave or to change the map.  With two answers to SIGNONSTATE_CONNECTED under way each
\* may undo what the other began, as long as the resources of the client are there before the
\* other arrives.  The answers draw nearer by the time that takes: at last one arrives first.
WhileUpdating(A) == client.updating /\ A

Fairness ==
  /\ WF_vars(ClientRead) /\ WF_vars(FinishUpdating) /\ WF_vars(Retry)
  /\ WF_vars(ServerRead) /\ WF_vars(SendServerInfo) /\ WF_vars(SendFullUpdate)
  /\ SF_vars(WhileUpdating(ClientRead)) /\ SF_vars(WhileUpdating(ServerRead))

FairSpec == Spec /\ Fairness

-----------------------------------------------------------------------------
(* Properties.                                                             *)

\* The values of the variables.  A slot that waits for its ServerInfo is CONNECTED, and only
\* one in the game has had a full update.
TypeOK ==
  /\ client \in [state : NONE..CHANGELEVEL, count : -1..MaxSpawn, updating : BOOLEAN,
                 retry : BOOLEAN]
  /\ tries \in 0..MaxRetry
  /\ slot \in [state : {NONE} \cup CONNECTED..FULL, sendInfo : BOOLEAN, full : BOOLEAN]
  /\ slot.sendInfo => slot.state = CONNECTED
  /\ spawnCount \in 1..MaxSpawn
  /\ loose \in [Loose -> 0..MaxLoose]
  /\ toClient \in Seq(Messages) /\ toServer \in Seq(Messages)
  /\ linked \in BOOLEAN /\ fresh \in BOOLEAN
  /\ connects \in 0..MaxConnect

InGame == client.state = FULL /\ slot.state = FULL /\ client.count = spawnCount

\* A slot that the server plays with belongs to a client that knows this map and has been told
\* nothing else since: SIGNONSTATE_FULL is entered on the client's word alone.  (After four map
\* changes that the client has not read of, five answers to SIGNONSTATE_CONNECTED can be under
\* way, and the server may take the answers to one start for those to another.)
InGameTogether ==
  linked /\ slot.state = FULL /\ spawnCount <= 4 =>
    /\ client.count = spawnCount
    /\ client.state \in {SPAWN, FULL}
    /\ \A i \in 1..Len(toClient) : toClient[i].state = FULL

\* A client gets the signon data, and spawns, only when its resources for this map are there,
\* through any loss, reconnection and one map change.  (After two the server may take an earlier
\* SIGNONSTATE_NEW of the client for the answer to its last ServerInfo.)
ResourcesFirst ==
  linked /\ client.state \in {PRESPAWN, SPAWN, FULL} /\ spawnCount <= 2 => ~client.updating

\* A client is thrown back to a new connection (CL_Retry after a refused signon message) only by
\* the notice of a map that has ended too, later than the one of the ServerInfo it read last; one
\* that has read no ServerInfo since it connected, only by the second notice in a row.  No message
\* of the ladder is ever refused, nor anything by a client that knows the present map.
RefusedOnlyWhenOvertaken ==
  [][linked /\ ~client.retry /\ client'.retry =>
       LET m == Head(toClient) IN
       /\ m.state = CHANGELEVEL
       /\ client.count < m.count /\ m.count < spawnCount
       /\ client.count = -1 => client.state = CHANGELEVEL]_vars

\* A client in the game is not called back by a late message: the server resets it only to
\* change the map, to drop it or because it connects again.  Reconnect would leave
\* m_nForceWaitForTick set, and the client without a full update for ever.  (Under the same
\* bound as InGameTogether.)
InGameUntilChange ==
  [][slot.state = FULL /\ slot'.state = CONNECTED /\ spawnCount <= 4 =>
       \/ spawnCount' # spawnCount \/ slot' = [Free EXCEPT !.state = CONNECTED] \/ ~linked]_vars

\* As long as the channels are those made for each other, the client gets into the game again
\* and again.
EventuallyInGame == []<>(InGame \/ ~linked)

=============================================================================
