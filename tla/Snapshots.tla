----------------------------- MODULE Snapshots -----------------------------
(***************************************************************************)
(* How the entities of the server reach one client: every frame the server  *)
(* takes a snapshot, writes it as a delta from the newest frame that the      *)
(* client has acknowledged (sv_ents_write.cpp) and the client reads it into   *)
(* its own entities (cl_ents_parse.cpp).  An entity that enters is written    *)
(* as a delta from a baseline which both sides move forward together.         *)
(*                                                                         *)
(* The channel is what NetChan shows of it: a delta and a Tick are lost or   *)
(* arrive, a full update and a BaselineAck arrive, and all in order, except  *)
(* that a BaselineAck, when it is sent again, comes after later Ticks.        *)
(***************************************************************************)
EXTENDS Integers, Sequences, FiniteSets, SequencesExt

CONSTANTS
  Slots,          \* the edicts, by number
  Props,          \* the properties of an entity
  Class,          \* the class of the entities that occupy a slot in turn
  Present,        \* bound: slots occupied when the client becomes active
  MaxFrames,      \* nMaxFrames of SetupPackInfo
  MaxTick,        \* bound: last tick, unless the client needs a full update
  MaxChanges,     \* bound: snapshots before which the slot s changes, MaxChanges[s]
  MaxRequests,    \* bound: full updates that the client requests
  MaxToClient,    \* bound: snapshots under way
  MaxToServer     \* bound: messages of the client under way

ASSUME SlotsAssumption  == /\ Slots \subseteq Nat /\ IsFiniteSet(Slots) /\ IsFiniteSet(Props)
                           /\ Present \subseteq Slots
ASSUME ClassAssumption  == Class \in Seq(Nat) /\ Len(Class) > 0
ASSUME FramesAssumption == MaxFrames \in Nat \ {0}
ASSUME BoundsAssumption == /\ MaxTick \in Nat /\ MaxChanges \in [Slots -> Nat]
                           /\ MaxRequests \in Nat /\ MaxToClient \in Nat /\ MaxToServer \in Nat

VARIABLES
  world,          \* the entity in each slot, and whether the client may see it
  lastPacked,     \* m_pLastPackedData: the last packed entity of each slot
  changes,        \* snapshots before which each slot changed, for the bound
  tick,           \* m_nTickCount of the server
  frames,         \* the client's frames on the server (a list in the order of their ticks)
  deltaTick,      \* m_nDeltaTick of CBaseClient
  forceWait,      \* m_nForceWaitForTick
  baseline,       \* m_pBaseline, the entities acknowledged as baselines
  baselineUsed,   \* m_nBaselineUsed
  baselineTick,   \* m_nBaselineUpdateTick
  baselinesSent,  \* m_BaselinesSent
  fullsSent,      \* full updates given to the channel
  entities,       \* the entities of the client
  clientFrames,   \* the frames of the client: the slots that are not dormant
  clientTick,     \* m_nDeltaTick of CClientState
  clientBaselines,\* m_pEntityBaselines
  fullsRead,      \* full updates that the client has received
  requests,       \* full updates that the client has requested, for the bound
  shown,          \* history: what the last snapshot read was to show
  failures,       \* history: what went wrong
  toClient,       \* messages under way, in order
  toServer

worldVars   == <<world, lastPacked, changes>>
sendVars    == <<deltaTick, forceWait, baseline, baselineUsed, baselineTick, baselinesSent>>
clientVars  == <<entities, clientFrames, clientTick, clientBaselines, fullsRead, requests, shown>>
networkVars == <<toClient, toServer>>
vars == <<worldVars, tick, frames, sendVars, fullsSent, clientVars, failures, networkVars>>

-----------------------------------------------------------------------------
(* The world.  Serial number n in a slot stands for the n-th entity there;  *)
(* 0 is the serial number of an edict beyond num_edicts, never used so far. *)

Values == {0, 1}
Zero   == [p \in Props |-> 0]      \* the values in the class baseline

\* An entity as it lies in a snapshot: without values unless it is packed.
Unpacked(n) == [serial |-> n, vals |-> Zero, changed |-> Zero]
Free        == Unpacked(0)      \* no m_pClass
Beyond      == Unpacked(-1)     \* not below m_nNumEntities
Empty(e)    == e.serial <= 0

Entity(n, vals, visible) == [serial |-> n, alive |-> TRUE, vals |-> vals, visible |-> visible]
Gone(n) == [serial |-> n, alive |-> FALSE, vals |-> Zero, visible |-> FALSE]

\* What the game makes of an entity between two snapshots: its properties and
\* what CheckTransmit finds for the client, ED_Free, and ED_Alloc for the slot.
Simulated(e) ==
  {Gone(e.serial)}
    \cup {Entity(n, vals, visible) :
            n \in {m \in {e.serial, e.serial + 1} : m <= Len(Class) /\ (m = e.serial => e.alive)},
            vals \in [Props -> Values], visible \in BOOLEAN}

\* The game runs until the next snapshot; at most one slot changes.
Simulate ==
  \/ UNCHANGED <<world, changes>>
  \/ \E s \in Slots : \E e \in Simulated(world[s]) \ {world[s]} :
       /\ changes[s] < MaxChanges[s]
       /\ \A r \in Slots : r < s => world[r].serial > 0     \* ED_Alloc takes the first
       /\ changes' = [changes EXCEPT ![s] = @ + 1]
       /\ world' = [world EXCEPT ![s] = e]

\* The slots that ED_Alloc has reused; those that could be reused at once are
\* noted in m_iExplicitDeleteSlots.
Reused == {s \in Slots : world'[s].serial # world[s].serial /\ world[s].serial # 0}

Occupied(w) == {s \in Slots : w[s].alive}
Visible(w)  == {s \in Occupied(w) : w[s].visible}

-----------------------------------------------------------------------------
(* Snapshots.                                                              *)

\* Mutant: a property that changes keeps the tick of its last change.
KeepTicks(w, s) ==
  LET old == lastPacked[s]
      e   == w[s]
  IN  IF old.serial = e.serial THEN [old EXCEPT !.vals = e.vals]
      ELSE [serial |-> e.serial, vals |-> e.vals, changed |-> [p \in Props |-> tick + 1]]

\* SV_PackEntity: the last packed entity of the slot if nothing has changed.
Packed(w, s) ==
  LET old == lastPacked[s]
      e   == w[s]
  IN  [serial  |-> e.serial, vals |-> e.vals,
       changed |-> [p \in Props |-> IF old.serial = e.serial /\ old.vals[p] = e.vals[p]
                                    THEN old.changed[p] ELSE tick + 1]]

\* TakeTickSnapshot and PackEntities_Normal, which packs the entities that some
\* client sees.
Snapshot(w, packed) ==
  [s \in Slots |-> CASE s \in packed -> Packed(w, s)
                     [] s \in Occupied(w) \ packed -> Unpacked(w[s].serial)
                     [] s \notin Occupied(w) -> IF w[s].serial = 0 THEN Beyond ELSE Free]

-----------------------------------------------------------------------------
(* Writing a snapshot.                                                     *)

NoEntity == [serial |-> 0, vals |-> Zero]
Bits(op, n, vals) == [op |-> op, serial |-> n, vals |-> vals]
Nothing == Bits("none", 0, <<>>)
SomeOf(vals, P) == [p \in P |-> vals[p]]

\* The values from which an entity that enters is written and read: the
\* baseline of its slot if it has the same class, else the class baseline.
BaselineFor(bl, n) ==
  IF bl.serial # 0 /\ Class[bl.serial] = Class[n] THEN bl.vals ELSE Zero

\* SV_WriteEnterPVS: all properties that differ from the baseline.
EnterPVS(e, base) == Bits("enter", e.serial, SomeOf(e.vals, {p \in Props : e.vals[p] # base[p]}))

\* GetPackedEntityChangedProps: the properties changed after the old snapshot.
DeltaOf(e, from) ==
  LET P == {p \in Props : e.changed[p] > from.tick}
  IN  IF P = {} THEN Nothing ELSE Bits("delta", 0, SomeOf(e.vals, P))

\* SV_NeedsExplicitDestroy.
NeedsDestroy(s, from, to) == Empty(to.ents[s]) /\ ~Empty(from.ents[s])

\* SV_NeedsExplicitCreate.
NeedsCreate(s, from, to) == Empty(from.ents[s]) \/ from.ents[s].serial # to.ents[s].serial

\* SV_DetermineUpdateType and SV_WriteEntityUpdate for slot s; an entity that
\* is preserved is not written.
DeltaUpdate(s, from, to, bl) ==
  LET old == s \in from.transmit
      new == s \in to.transmit
  IN  CASE new /\ (~old \/ NeedsCreate(s, from, to))
             -> EnterPVS(to.ents[s], BaselineFor(bl[s], to.ents[s].serial))
        [] old /\ new /\ ~NeedsCreate(s, from, to)
             -> IF from.ents[s] = to.ents[s] THEN Nothing ELSE DeltaOf(to.ents[s], from)
        [] old /\ ~new
             -> Bits(IF NeedsDestroy(s, from, to) THEN "delete" ELSE "leave", 0, <<>>)
        [] ~old /\ ~new -> Nothing

FullUpdate(s, to) == IF s \in to.transmit THEN EnterPVS(to.ents[s], Zero) ELSE Nothing

\* Mutant: no deletions but those of entities that leave.
NoDeletions(from, to, deletes) == {}

\* SV_WriteDeletions.  A slot deleted with its update is repeated here, without
\* effect.  An entity that is sent keeps its slot off the list, but only if the
\* old snapshot reaches up to the slot.
Deletions(from, to, deletes) ==
  {s \in Slots : \/ NeedsDestroy(s, from, to)
                 \/ /\ s \in deletes
                    /\ ~(from.ents[s] # Beyond /\ NeedsCreate(s, from, to) /\ s \in to.transmit)}

-----------------------------------------------------------------------------
(* The server sends.                                                       *)

\* Mutant: the oldest frame stays.
AllFrames(fs) == fs

\* RemoveOldestFrame if one has become too many.
Newest(fs) == IF Cardinality(fs) > MaxFrames THEN {f \in fs : \E g \in fs : g.tick < f.tick} ELSE fs

\* The frame of a tick among frames.
FrameAt(fs, t) == {f \in fs : f.tick = t}

NoFrame    == [tick |-> -1, ents |-> [s \in Slots |-> Free], transmit |-> {}]
NoBaseline == [s \in Slots |-> NoEntity]

\* Mutant: the baseline survives a full update.
KeepBaseline == UNCHANGED <<baseline, baselineUsed>>

\* OnRequestFullUpdate: new baselines.  m_nBaselineUpdateTick and m_BaselinesSent
\* are left to the actions that call it.
FreshBaseline == baseline' = NoBaseline /\ baselineUsed' = 0

\* The slots whose entity is written from a baseline, and m_nFullProps > 0.
Entering(bits) == {s \in Slots : bits[s].op = "enter"}
FullProps(bits) == \E s \in Entering(bits) : bits[s].vals # <<>>

\* History: the entities that a snapshot is to show the client, and the slots
\* whose entities were destroyed since the frame that it is a delta from.
Meant(to, from) ==
  [tick |-> to.tick, ents |-> [s \in to.transmit |-> [serial |-> to.ents[s].serial, vals |-> to.ents[s].vals]],
   destroyed |-> {s \in Slots : Empty(to.ents[s]) /\ ~Empty(from.ents[s])}]

\* The rest of SendSnapshot: bits, a delta from the frame from, go to the client;
\* used and upd are the baseline in use and the tick of its update.
Write(to, bits, from, deletions, used, upd) ==
  LET update == upd = -1 /\ (FullProps(bits) \/ from = NoFrame)
  IN  /\ baselineTick' = IF update THEN to.tick ELSE upd
      /\ toClient' = Append(toClient,
           [from |-> from.tick, bits |-> bits, deletions |-> deletions, number |-> used,
            update |-> update, frame |-> Meant(to, from)])

\* SendSnapshot when the frame of m_nDeltaTick is there: an unreliable delta.
SendDelta(to, from, deletes) ==
  LET bits == [s \in Slots |-> DeltaUpdate(s, from, to, baseline)]
  IN  /\ baselinesSent' = IF baselineTick = -1 THEN Entering(bits) ELSE baselinesSent
      /\ UNCHANGED <<baseline, baselineUsed, deltaTick, forceWait, fullsSent>>
      /\ Write(to, bits, from, Deletions(from, to, deletes), baselineUsed, baselineTick)

\* SendSnapshot when it is not: everything, as reliable data.
SendFull(to) ==
  LET bits == [s \in Slots |-> FullUpdate(s, to)]
  IN  /\ FreshBaseline
      /\ baselinesSent' = Entering(bits)
      /\ forceWait' = to.tick
      /\ fullsSent' = fullsSent + 1
      /\ UNCHANGED deltaTick
      /\ Write(to, bits, NoFrame, {}, 0, -1)

SendSnapshot(to, fs, deletes) ==
  LET from == IF deltaTick < 0 THEN {} ELSE FrameAt(fs, deltaTick)
  IN  \/ forceWait > 0 /\ UNCHANGED <<sendVars, fullsSent, toClient>>    \* Transmit only
      \/ forceWait <= 0 /\ from = {} /\ SendFull(to)
      \/ forceWait <= 0 /\ \E f \in from : SendDelta(to, f, deletes)

\* SV_Frame and SendClientMessages, for a snapshot.  Other clients may see
\* entities that this one does not.  A frame for which this client is choked is
\* left out: it is like one whose snapshot is lost.
ServerFrame ==
  /\ tick < MaxTick \/ (deltaTick = -1 /\ forceWait <= 0)
  /\ Len(toClient) < MaxToClient
  /\ tick' = tick + 1
  /\ Simulate
  /\ \E unseen \in SUBSET (Occupied(world') \ Visible(world')), deletes \in SUBSET Reused :
       LET packed == Visible(world') \cup unseen
           snap   == Snapshot(world', packed)
           to     == [tick |-> tick + 1, ents |-> snap, transmit |-> Visible(world')]
       IN  /\ lastPacked' = [s \in Slots |-> IF s \in packed THEN snap[s] ELSE lastPacked[s]]
           /\ frames' = Newest(frames \cup {to})
           /\ SendSnapshot(to, frames', deletes)
  /\ UNCHANGED <<clientVars, failures, toServer>>

-----------------------------------------------------------------------------
(* The server receives.                                                    *)

\* HasPendingReliableData, when the client has received n full updates: its own
\* or other data.
Pending(n, other) == n < fullsSent \/ other

\* Mutant: a request is ignored while the server waits.
NeverAgain(t, n, other) == FALSE

\* The client has the full update already and asks for another one.
ForcedAgain(t, n, other) == t = -1 /\ ~Pending(n, other)

\* A newer frame is acknowledged: the update of the baseline was lost.
BaselineTickAfter(t) == IF baselineTick > -1 /\ t > baselineTick THEN -1 ELSE baselineTick

\* The tick t is taken as the client's delta tick.
Acknowledge(t) ==
  /\ deltaTick' = t
  /\ baselineTick' = BaselineTickAfter(t)
  /\ UNCHANGED <<baseline, baselineUsed, baselinesSent>>

\* A full update is requested.
RequestFull ==
  /\ deltaTick' = -1
  /\ FreshBaseline
  /\ baselineTick' = -1
  /\ baselinesSent' = {}

Ignore == UNCHANGED sendVars
Fail(what) == failures' = failures \cup {what}

\* UpdateAcknowledgedFramecount while a full update is not acknowledged.
AckWhileWaiting(t, n, other) ==
  \/ t > forceWait /\ Ignore /\ Fail("newer than the full update")
  \/ t \in 0 .. forceWait - 1 /\ Ignore /\ UNCHANGED failures
  \/ t = forceWait /\ forceWait' = -1 /\ Acknowledge(t) /\ UNCHANGED failures
  \/ t = -1 /\ ForcedAgain(t, n, other) /\ forceWait' = -1 /\ RequestFull /\ UNCHANGED failures
  \/ t = -1 /\ ~ForcedAgain(t, n, other) /\ UNCHANGED forceWait /\ Acknowledge(t) /\ UNCHANGED failures

\* The same when the server does not wait.
AckOfDelta(t) ==
  /\ UNCHANGED forceWait
  /\ \/ deltaTick = -1 /\ Ignore /\ UNCHANGED failures
     \/ deltaTick # -1 /\ t = -1 /\ RequestFull /\ UNCHANGED failures
     \/ t # -1 /\ deltaTick > t /\ Ignore /\ Fail("ticks out of order")
     \/ deltaTick # -1 /\ t >= deltaTick /\ Acknowledge(t) /\ UNCHANGED failures

\* NETMsg_Tick and CGameClient::UpdateAcknowledgedFramecount, which drops the
\* frames before the tick; other data of the server's channel may be pending.
ReceiveTick(other) ==
  LET m == Head(toServer)
  IN  /\ toServer # <<>> /\ m.op = "tick"
      /\ toServer' = Tail(toServer)
      /\ frames' = IF m.tick # deltaTick /\ m.tick > 0
                   THEN {f \in frames : f.tick >= m.tick} ELSE frames
      /\ IF forceWait > 0 THEN AckWhileWaiting(m.tick, m.read, other) ELSE AckOfDelta(m.tick)
      /\ UNCHANGED <<worldVars, tick, fullsSent, clientVars, toClient>>

\* CLCMsg_BaselineAck: the entities sent from a baseline are the new baselines.
ReceiveBaselineAck ==
  LET m  == Head(toServer)
      fs == FrameAt(frames, baselineTick)
  IN  /\ toServer # <<>> /\ m.op = "baseline"
      /\ toServer' = Tail(toServer)
      /\ IF m.tick # baselineTick \/ m.number # baselineUsed \/ fs = {}
         THEN UNCHANGED <<baseline, baselineUsed, baselineTick>>
         ELSE /\ \E f \in fs : baseline' = [s \in Slots |->
                   IF s \in baselinesSent THEN [serial |-> f.ents[s].serial, vals |-> f.ents[s].vals]
                   ELSE baseline[s]]
              /\ baselineUsed' = 1 - baselineUsed
              /\ baselineTick' = -1
      /\ UNCHANGED <<worldVars, tick, frames, deltaTick, forceWait, baselinesSent, fullsSent,
                     clientVars, failures, toClient>>

-----------------------------------------------------------------------------
(* The client.                                                             *)

NoBaselines == [b \in {0, 1} |-> NoBaseline]

\* The values after a delta: those that were written, the others as before.
Merge(vals, written) == [p \in Props |-> IF p \in DOMAIN written THEN written[p] ELSE vals[p]]

\* The baselines before the entities are read: a full update frees both, and
\* one that updates the baseline starts from a copy (CopyEntityBaseline).
Baselines(m) ==
  LET bs == IF m.from = -1 THEN NoBaselines ELSE clientBaselines
  IN  IF m.update THEN [bs EXCEPT ![1 - m.number] = bs[m.number]] ELSE bs

\* The entity that CL_CopyNewEntity makes of slot s.
Entered(m, s) ==
  LET n    == m.bits[s].serial
      base == IF m.from = -1 THEN Zero ELSE BaselineFor(Baselines(m)[m.number][s], n)
  IN  [serial |-> n, vals |-> Merge(base, m.bits[s].vals)]

\* ReadPacketEntities and ReadDeletions for slot s.
ReadEntity(m, s) ==
  LET b == m.bits[s]
  IN  CASE b.op = "enter"                             -> Entered(m, s)
        [] b.op # "enter" /\ (b.op = "delete" \/ s \in m.deletions) -> NoEntity
        [] b.op = "delta" /\ s \notin m.deletions     -> [entities[s] EXCEPT !.vals = Merge(@, b.vals)]
        [] b.op \in {"leave", "none"} /\ s \notin m.deletions
                                                      -> IF m.from = -1 THEN NoEntity ELSE entities[s]

\* The slots in the new frame: entered, changed or preserved.
ReadTransmit(m, old) == {s \in Slots : \/ m.bits[s].op \in {"enter", "delta"}
                                       \/ m.bits[s].op = "none" /\ s \in old}

\* Mutant: the frame that the delta was from is deleted too.
FramesFrom(m, old) ==
  {f \in clientFrames : f.tick > m.from} \cup {[tick |-> m.frame.tick, transmit |-> ReadTransmit(m, old)]}

\* AllocateAndInitFrame, DeleteClientFrames(delta_from) and AddClientFrame; a
\* full update has no delta_from, 0.
FramesAfter(m, old) ==
  LET fs == IF \A f \in clientFrames : f.tick > m.frame.tick THEN {} ELSE clientFrames
  IN  {f \in fs : f.tick >= m.from} \cup {[tick |-> m.frame.tick, transmit |-> ReadTransmit(m, old)]}

\* CL_ProcessPacketEntities for a message that can be read.
Read(m, old) ==
  /\ entities' = [s \in Slots |-> ReadEntity(m, s)]
  /\ clientBaselines' = [b \in {0, 1} |-> [s \in Slots |->
       IF m.update /\ b = 1 - m.number /\ m.bits[s].op = "enter" THEN Entered(m, s)
       ELSE Baselines(m)[b][s]]]
  /\ clientFrames' = FramesAfter(m, old)
  /\ clientTick' = m.frame.tick
  /\ shown' = m.frame
  /\ toServer' = IF m.update
                 THEN Append(toServer, [op |-> "baseline", tick |-> m.frame.tick, number |-> m.number, read |-> 0])
                 ELSE toServer

\* What would be an error: no frame to start from, an entity that is to be kept
\* or changed is not there, or is deleted before CL_CallPostDataUpdates.
Unreadable(m, old) ==
  \/ m.from = m.frame.tick
  \/ m.from # -1 /\ FrameAt(clientFrames, m.from) = {}
  \/ \E s \in Slots : m.bits[s].op = "delta" /\ s \notin old
  \/ \E s \in ReadTransmit(m, old) : m.bits[s].op # "enter" /\ entities[s] = NoEntity
  \/ \E s \in m.deletions : m.bits[s].op \in {"enter", "delta"}

\* SVCMsg_PacketEntities: the first message under way arrives.
ReceiveSnapshot ==
  LET m   == Head(toClient)
      old == UNION {f.transmit : f \in FrameAt(clientFrames, m.from)}
  IN  /\ toClient # <<>>
      /\ toClient' = Tail(toClient)
      /\ fullsRead' = fullsRead + IF m.from = -1 THEN 1 ELSE 0
      /\ \/ /\ m.from # -1 /\ clientTick = -1       \* a delta, while a full update is awaited
            /\ UNCHANGED <<entities, clientFrames, clientTick, clientBaselines, shown, toServer, failures>>
         \/ /\ m.from = -1 \/ clientTick # -1
            /\ ~Unreadable(m, old)
            /\ Read(m, old)
            /\ UNCHANGED failures
         \/ /\ m.from = -1 \/ clientTick # -1
            /\ Unreadable(m, old)
            /\ Fail("snapshot not read")
            /\ UNCHANGED <<entities, clientFrames, clientTick, clientBaselines, shown, toServer>>
      /\ UNCHANGED <<requests, worldVars, tick, frames, sendVars, fullsSent>>

\* A packet with a delta is lost.
LoseSnapshot ==
  /\ toClient # <<>> /\ Head(toClient).from # -1
  /\ toClient' = Tail(toClient)
  /\ UNCHANGED <<worldVars, tick, frames, sendVars, fullsSent, clientVars, failures, toServer>>

\* CL_SendMove: every client frame sends the tick; what the client has received
\* is acknowledged with the same packet.  The model leaves out a Tick without
\* effect: one that follows an equal one, or for the server's delta tick.
SendTick ==
  LET m == [op |-> "tick", tick |-> clientTick, number |-> 0, read |-> fullsRead]
  IN  /\ Len(toServer) < MaxToServer
      /\ ~(toServer # <<>> /\ Last(toServer) = m)
      /\ ~(clientTick # -1 /\ clientTick = deltaTick /\ \A i \in DOMAIN toServer : toServer[i].op # "tick")
      /\ toServer' = Append(toServer, m)
      /\ UNCHANGED <<worldVars, tick, frames, sendVars, fullsSent, clientVars, failures, toClient>>

LoseTick ==
  /\ toServer # <<>> /\ Head(toServer).op = "tick"
  /\ toServer' = Tail(toServer)
  /\ UNCHANGED <<worldVars, tick, frames, sendVars, fullsSent, clientVars, failures, toClient>>

\* The packet with a BaselineAck is lost; it is sent again after the next Tick.
ResendBaselineAck ==
  /\ Len(toServer) > 1 /\ toServer[1].op = "baseline" /\ toServer[2].op = "tick"
  /\ toServer' = <<toServer[2], toServer[1]>> \o SubSeq(toServer, 3, Len(toServer))
  /\ UNCHANGED <<worldVars, tick, frames, sendVars, fullsSent, clientVars, failures, toClient>>

\* ForceFullUpdate, after a connection problem or by command.
ForceFullUpdate ==
  /\ clientTick # -1 /\ requests < MaxRequests
  /\ requests' = requests + 1
  /\ clientTick' = -1
  /\ clientBaselines' = NoBaselines
  /\ UNCHANGED <<entities, clientFrames, fullsRead, shown, worldVars, tick, frames, sendVars, fullsSent,
                 failures, networkVars>>

-----------------------------------------------------------------------------
Init ==
  /\ world = [s \in Slots |-> IF s \in Present THEN Entity(1, [p \in Props |-> 1], TRUE) ELSE Gone(0)]
  /\ changes = [s \in Slots |-> 0]
  /\ lastPacked = [s \in Slots |-> Free]
  /\ tick = 0 /\ frames = {}
  /\ deltaTick = -1 /\ forceWait = -1
  /\ baseline = NoBaseline /\ baselineUsed = 0 /\ baselineTick = -1 /\ baselinesSent = {}
  /\ fullsSent = 0
  /\ entities = NoBaseline /\ clientFrames = {} /\ clientTick = -1 /\ clientBaselines = NoBaselines
  /\ fullsRead = 0 /\ requests = 0
  /\ shown = Meant(NoFrame, NoFrame)
  /\ failures = {} /\ toClient = <<>> /\ toServer = <<>>

Next ==
  \/ ServerFrame \/ (\E other \in BOOLEAN : ReceiveTick(other)) \/ ReceiveBaselineAck
  \/ ReceiveSnapshot \/ LoseSnapshot \/ SendTick \/ LoseTick \/ ResendBaselineAck \/ ForceFullUpdate

Spec == Init /\ [][Next]_vars

\* The server and the client run their frames, the channel delivers what is
\* reliable, and a Tick that is sent again and again arrives, also when no other
\* reliable data is pending.
Fairness ==
  /\ WF_vars(ServerFrame) /\ WF_vars(ReceiveSnapshot) /\ WF_vars(SendTick)
  /\ SF_vars(ReceiveTick(FALSE)) /\ WF_vars(ReceiveBaselineAck)
FairSpec == Spec /\ Fairness

-----------------------------------------------------------------------------
(* Properties.                                                             *)

\* Types, with the bounds.
Ticks    == -1 .. MaxTick + MaxRequests + 1
EntityOf == [serial : 0 .. Len(Class), vals : [Props -> Values]]
TypeOK ==
  /\ tick \in Ticks /\ deltaTick \in Ticks /\ forceWait \in Ticks /\ baselineTick \in Ticks
  /\ clientTick \in Ticks
  /\ baselineUsed \in {0, 1} /\ baselinesSent \subseteq Slots
  /\ baseline \in [Slots -> EntityOf] /\ entities \in [Slots -> EntityOf]
  /\ clientBaselines \in [{0, 1} -> [Slots -> EntityOf]]
  /\ Cardinality(frames) <= MaxFrames
  /\ \A f, g \in frames : f.tick = g.tick => f = g
  /\ \A f, g \in clientFrames : f.tick = g.tick => f = g

\* After a snapshot the client has in its frame exactly the entities that the
\* server meant to send, as they were on the server at that tick.
EntitiesAgree ==
  clientTick # -1 =>
    /\ shown.tick = clientTick
    /\ FrameAt(clientFrames, clientTick) = {[tick |-> clientTick, transmit |-> DOMAIN shown.ents]}
    /\ \A s \in DOMAIN shown.ents : entities[s] = shown.ents[s]

\* An entity that the server has destroyed since the frame that a snapshot is a
\* delta from is gone from the client with it, also outside the client's view.
GoneWhenDestroyed ==
  clientTick # -1 => \A s \in shown.destroyed : entities[s] = NoEntity

\* The assertion in SV_WriteDeletions and in ReadDeletions: what a snapshot
\* deletes is not among what it sends.
DeletedIsNotSent == \A m \in ToSet(toClient) : m.deletions \cap DOMAIN m.frame.ents = {}

\* Server and client have the same baseline in use, unless the client waits for
\* a full update.
SameBaseline(a, b) == a.serial = b.serial /\ a.vals = b.vals
InSync == clientTick # -1 /\ fullsRead = fullsSent
BaselinesAgree == InSync => \A s \in Slots : SameBaseline(baseline[s], clientBaselines[baselineUsed][s])

\* No acknowledgement comes out of order or for a tick that was not sent, and
\* every snapshot can be read.
NothingFails == failures = {}

\* A client that has requested a full update gets one.
Resynchronised == clientTick = -1 ~> clientTick # -1
=============================================================================
