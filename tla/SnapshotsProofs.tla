--------------------------- MODULE SnapshotsProofs ---------------------------
(***************************************************************************)
(* Whatever the channel loses, the client has the entities of the server:   *)
(* the properties of Snapshots, for any number of slots, properties and     *)
(* ticks.                                                                   *)
(*                                                                         *)
(* The server forgets the snapshots that it no longer needs, yet why a      *)
(* delta can be read depends on them: on what the entity in each slot was   *)
(* at every tick between the frame the delta starts from and the one it     *)
(* leads to.  The invariant SnapInv(H) therefore speaks of a history H of   *)
(* all snapshots taken, one per tick, which no variable keeps; the          *)
(* inductive invariant of the specification is that there is one.           *)
(***************************************************************************)
EXTENDS Snapshots, FiniteSetTheorems, SequenceTheorems, TLAPS

-----------------------------------------------------------------------------
(* The history: what the snapshots have in common.                          *)

\* The ticks of the snapshots taken so far.
Past == 1 .. tick

PackedEntity == [serial : Int, vals : [Props -> Values], changed : [Props -> Nat]]
Frame == [tick : Nat, ents : [Slots -> PackedEntity], transmit : SUBSET Slots]

\* The entity of slot s as frame f shows it, and the client's frame for f.
Rec(f, s) == [serial |-> f.ents[s].serial, vals |-> f.ents[s].vals]
Seen(f) == [tick |-> f.tick, transmit |-> f.transmit]

\* No property of e has changed after tick t; those that have not are as in o.
NotAfter(e, t) == \A p \in Props : e.changed[p] <= t
SameSince(e, o, t) == \A p \in Props : e.changed[p] <= t => e.vals[p] = o.vals[p]

\* What an edict holds, and the world: an entity that lives has a serial number.
EdictOf == [serial : 0 .. Len(Class), alive : BOOLEAN, vals : [Props -> Values], visible : BOOLEAN]

WorldTyped ==
  /\ tick \in Nat /\ world \in [Slots -> EdictOf]
  /\ \A s \in Slots : world[s].alive => world[s].serial > 0

\* The last packed entity of slot s: no snapshot before shows a later one, and what has not changed
\* since a snapshot of the same entity is as it was there.
PackedOK(s, H) ==
  /\ lastPacked[s] \in PackedEntity /\ lastPacked[s].serial \in 0 .. world[s].serial
  /\ NotAfter(lastPacked[s], tick)
  /\ \A t \in Past : s \in H[t].transmit =>
       /\ H[t].ents[s].serial <= lastPacked[s].serial
       /\ H[t].ents[s].serial = lastPacked[s].serial => SameSince(lastPacked[s], H[t].ents[s], t)

\* Slot s in the snapshots: serial numbers do not exceed the one now, what is transmitted is packed,
\* and an entity that lives has been there since it was first there.
SlotOK(s, H) ==
  /\ \A t \in Past : H[t].ents[s].serial \in -1 .. world[s].serial
  /\ \A t \in Past : s \in H[t].transmit =>
       H[t].ents[s].serial > 0 /\ NotAfter(H[t].ents[s], t)
  /\ world[s].alive => \A t, u \in Past :
       t <= u /\ H[t].ents[s].serial = world[s].serial => H[u].ents[s].serial = world[s].serial

\* A serial number that is there at two ticks is there all the time between.
Lasting(H) ==
  \A s \in Slots : \A t, u, v \in Past :
    t <= u /\ u <= v /\ H[t].ents[s].serial = H[v].ents[s].serial /\ H[v].ents[s].serial > 0
      => H[u].ents[s].serial = H[v].ents[s].serial

\* A value that has not changed since tick t is the one that was sent then.
Unchanged(H) ==
  \A s \in Slots : \A t, u \in Past :
    t <= u /\ s \in H[t].transmit /\ s \in H[u].transmit /\ H[t].ents[s].serial = H[u].ents[s].serial
      => SameSince(H[u].ents[s], H[t].ents[s], t)

\* H holds one snapshot for each tick, the frames that the server keeps among them.
History(H) ==
  /\ H \in [Past -> Frame] /\ \A t \in Past : H[t].tick = t
  /\ \A s \in Slots : SlotOK(s, H) /\ PackedOK(s, H)
  /\ Lasting(H) /\ Unchanged(H)
  /\ \A f \in frames : f.tick \in Past /\ f = H[f.tick]

-----------------------------------------------------------------------------
(* What is under way, and what the ticks say of each other.                *)

IsTick(m) == m.op = "tick"

\* A snapshot under way, and a message of the client.
MessageTyped(m) ==
  /\ m.from \in {-1} \cup Past /\ m.frame.tick \in Past /\ m.from < m.frame.tick
  /\ m.number \in {0, 1} /\ m.update \in BOOLEAN

AnswerTyped(m) ==
  /\ m.op \in {"tick", "baseline"} /\ m.tick \in {-1} \cup Past /\ m.number \in {0, 1}
  /\ m.read \in Nat
  /\ m.op = "baseline" => m.tick \in Past

\* Seq over the elements there are, so that no set of all messages is needed.
IsList(q) == q \in Seq(ToSet(q))

\* Whatever names a tick names that of a snapshot, or none.
TicksTyped ==
  /\ IsList(toClient) /\ IsList(toServer)
  /\ \A i \in DOMAIN toClient : MessageTyped(toClient[i])
  /\ \A i \in DOMAIN toServer : AnswerTyped(toServer[i])
  /\ clientTick \in {-1} \cup Past /\ deltaTick \in {-1} \cup Past /\ forceWait \in {-1} \cup Past
  /\ baselineTick \in {-1} \cup Past

\* A snapshot under way is newer than the ones before, and than all that the client knows.
NewerThan(t) ==
  /\ clientTick < t /\ \A c \in clientFrames : c.tick < t
  /\ \A j \in DOMAIN toServer : toServer[j].tick < t
SnapshotOrder ==
  /\ \A i, j \in DOMAIN toClient : i < j => toClient[i].frame.tick < toClient[j].frame.tick
  /\ \A i \in DOMAIN toClient : NewerThan(toClient[i].frame.tick)

\* The ticks of the client are in order, until it asks for a full update.
InOrder(x, y) == x.read <= y.read /\ (y.tick # -1 => x.tick <= y.tick)
AnswerOrder ==
  /\ \A i, j \in DOMAIN toServer : i < j /\ IsTick(toServer[i]) /\ IsTick(toServer[j]) =>
       InOrder(toServer[i], toServer[j])
  /\ clientTick # -1 => \A i \in DOMAIN toServer : toServer[i].tick <= clientTick

\* The ticks and the order of all that is under way.
OrderInv == TicksTyped /\ SnapshotOrder /\ AnswerOrder

\* What a Tick under way says of full updates.
TickWaits(x) ==
  /\ x.read <= fullsRead
  /\ x.read = fullsRead /\ x.tick = -1 => clientTick = -1
  /\ forceWait = -1 => x.read = fullsSent /\ (x.tick # -1 => deltaTick <= x.tick)
  /\ forceWait # -1 /\ x.read < fullsSent => x.tick < forceWait
  /\ forceWait # -1 /\ x.read = fullsSent => x.tick \in {-1, forceWait}

\* Full updates: at most one is under way, as the last snapshot, and the server waits for its tick
\* until a Tick that has seen it arrives.
WaitInv ==
  /\ fullsSent \in Nat /\ fullsRead \in Nat
  /\ \A i \in DOMAIN toClient : toClient[i].from = -1 =>
       i = Len(toClient) /\ fullsSent = fullsRead + 1 /\ forceWait = toClient[i].frame.tick
  /\ fullsSent # fullsRead => toClient # <<>> /\ toClient[Len(toClient)].from = -1
  /\ \A j \in DOMAIN toServer : IsTick(toServer[j]) => TickWaits(toServer[j])
  /\ forceWait = -1 => /\ fullsSent = fullsRead
                       /\ deltaTick = -1 => clientTick = -1
                       /\ clientTick # -1 => deltaTick <= clientTick
  /\ forceWait # -1 /\ fullsSent = fullsRead => toClient = <<>> /\ clientTick \in {-1, forceWait}

\* Slot s was not occupied by the entity of frame b before.
NewIn(s, b, H) == \A t \in 1 .. b - 1 : H[t].ents[s].serial > 0 => H[t].ents[s].serial # H[b].ents[s].serial

\* The message m is a full update, or a delta from a frame with the baseline bl.
WrittenFull(m, H) ==
  LET g == H[m.frame.tick]
  IN  /\ m.bits = [s \in Slots |-> FullUpdate(s, g)] /\ m.deletions = {} /\ m.frame = Meant(g, NoFrame)
      /\ m.number = 0 /\ m.update
WrittenDelta(m, bl, H) ==
  LET f == H[m.from]  g == H[m.frame.tick]
  IN  /\ m.bits = [s \in Slots |-> DeltaUpdate(s, f, g, bl)] /\ m.frame = Meant(g, f)
      /\ m.deletions \subseteq Slots /\ \A s \in m.deletions : NewIn(s, m.frame.tick, H)
      /\ \A s \in Slots : NeedsDestroy(s, f, g) => s \in m.deletions

\* A full update under way: the server starts with new baselines.
FullInv(H) ==
  \A i \in DOMAIN toClient : toClient[i].from = -1 =>
    /\ WrittenFull(toClient[i], H)
    /\ baseline = NoBaseline /\ baselineUsed = 0 /\ baselineTick = toClient[i].frame.tick
    /\ baselinesSent = Entering(toClient[i].bits)

\* The client's frames show the slots of the server's frames for their ticks.
FramesInv(H) == \A c \in clientFrames : c.tick \in Past /\ c = Seen(H[c.tick])

\* What was sent from a baseline was transmitted at its tick.
SentInv(H) == baselineTick # -1 => baselinesSent \subseteq H[baselineTick].transmit

-----------------------------------------------------------------------------
(* What the client has.                                                    *)

\* The entity that frame t shows in slot s is the one that the client has, or
\* it has gone since.
Remembered(t, H) ==
  \A s \in H[t].transmit :
    \/ \E g \in t .. clientTick : s \in H[g].transmit /\ entities[s] = Rec(H[g], s)
    \/ \E u \in t .. clientTick : H[u].ents[s].serial # H[t].ents[s].serial

\* The entities that the client shows are those of its last snapshot.
ShownInv(H) ==
  /\ shown.tick = clientTick
  /\ shown.ents = [s \in H[clientTick].transmit |-> Rec(H[clientTick], s)]
  /\ \A s \in H[clientTick].transmit : entities[s] = Rec(H[clientTick], s)
  /\ \A s \in shown.destroyed : entities[s] = NoEntity

\* The ticks that the server may take as acknowledged, now or when it reads what is under way.
Known == {clientTick} \cup {toServer[j].tick : j \in {k \in DOMAIN toServer :
                              IsTick(toServer[k]) /\ toServer[k].read = fullsRead}}
           \cup (IF forceWait = -1 THEN {deltaTick} ELSE {})

\* For these, and for the frames that snapshots under way are deltas from, the client has the frame,
\* and nothing under way starts from a frame that it may drop before.
KeptInv(H) ==
  /\ \A t \in Known : Seen(H[t]) \in clientFrames /\ Remembered(t, H)
  /\ \A i \in DOMAIN toClient : toClient[i].from # -1 =>
       /\ Seen(H[toClient[i].from]) \in clientFrames /\ Remembered(toClient[i].from, H)
       /\ \A t \in Known : toClient[i].from <= t
       /\ \A j \in 1 .. i : toClient[j].from <= toClient[i].from

\* Deltas under way are written with the baseline that the client has under the same number.
DeltaInv(H) ==
  \A i \in DOMAIN toClient : toClient[i].from # -1 =>
    /\ WrittenDelta(toClient[i], clientBaselines[toClient[i].number], H)
    /\ \A j \in 1 .. i - 1 : toClient[j].update => toClient[j].number = toClient[i].number

\* The baseline in use is the same on both sides, and an acknowledgement under way stands for the one
\* that the server will make of what it has sent.
SyncInv(H) ==
  /\ clientBaselines[baselineUsed] = baseline
  /\ \A i \in DOMAIN toClient : toClient[i].update =>
       /\ toClient[i].number = baselineUsed /\ toClient[i].frame.tick = baselineTick
       /\ baselinesSent = Entering(toClient[i].bits)
  /\ \A j \in DOMAIN toServer :
       toServer[j].op = "baseline" /\ toServer[j].tick = baselineTick /\ toServer[j].number = baselineUsed =>
         clientBaselines[1 - baselineUsed] =
           [s \in Slots |-> IF s \in baselinesSent THEN Rec(H[baselineTick], s) ELSE baseline[s]]

\* All this while the client is not waiting for a full update.
ClientInv(H) ==
  clientTick # -1 =>
    ShownInv(H) /\ KeptInv(H) /\ DeltaInv(H) /\ (fullsRead = fullsSent => SyncInv(H))

\* The types and bounds of the rest.
Typed ==
  /\ tick <= MaxTick + requests + 1 /\ requests \in 0 .. MaxRequests
  /\ clientTick = -1 /\ fullsRead = fullsSent => tick <= MaxTick + requests
  /\ baselineUsed \in {0, 1} /\ baselinesSent \subseteq Slots
  /\ baseline \in [Slots -> EntityOf] /\ entities \in [Slots -> EntityOf]
  /\ clientBaselines \in [{0, 1} -> [Slots -> EntityOf]]
  /\ IsFiniteSet(frames) /\ Cardinality(frames) <= MaxFrames

\* The inductive invariant, for the history H.
SnapInv(H) ==
  /\ WorldTyped /\ History(H) /\ OrderInv /\ WaitInv /\ FullInv(H) /\ FramesInv(H) /\ SentInv(H)
  /\ ClientInv(H) /\ Typed

-----------------------------------------------------------------------------
(* The game runs.                                                          *)

\* The values of the class baseline are values of an entity.
LEMMA ZeroTyped == Zero \in [Props -> Values]
BY DEF Zero, Values

\* What the game makes of an entity: the slot keeps its serial number or gets a later one.
LEMMA SimulatedEntity ==
  ASSUME NEW e \in EdictOf, e.alive => e.serial > 0, NEW x \in Simulated(e)
  PROVE  /\ x \in EdictOf /\ e.serial <= x.serial
         /\ x.alive => x.serial > 0
         /\ x.alive /\ x.serial = e.serial => e.alive
<1>0. Len(Class) \in Nat
  BY ClassAssumption
<1>1. e.serial \in 0 .. Len(Class)
  BY DEF EdictOf
<1>2. CASE x = Gone(e.serial)
  BY <1>1, <1>2, ZeroTyped DEF Gone, EdictOf
<1>3. CASE x # Gone(e.serial)
  <2>1. PICK n \in {m \in {e.serial, e.serial + 1} : m <= Len(Class) /\ (m = e.serial => e.alive)},
             vals \in [Props -> Values], visible \in BOOLEAN : x = Entity(n, vals, visible)
    BY <1>3 DEF Simulated
  <2>2. x = [serial |-> n, alive |-> TRUE, vals |-> vals, visible |-> visible]
    BY <2>1 DEF Entity
  <2>3. n \in 0 .. Len(Class) /\ e.serial <= n /\ n > 0 /\ (n = e.serial => e.alive)
    BY <1>0, <1>1
  <2> QED BY <2>2, <2>3 DEF EdictOf
<1> QED BY <1>2, <1>3

\* What the game may do between two snapshots.
LEMMA WorldStep ==
  ASSUME WorldTyped, Simulate
  PROVE  /\ world' \in [Slots -> EdictOf]
         /\ \A s \in Slots : /\ world'[s].alive => world'[s].serial > 0
                             /\ world[s].serial <= world'[s].serial
                             /\ world'[s].alive /\ world'[s].serial = world[s].serial => world[s].alive
<1>0. world \in [Slots -> EdictOf] /\ \A s \in Slots : world[s].alive => world[s].serial > 0
  BY DEF WorldTyped
<1>1. CASE world' = world
  <2>1. \A s \in Slots : world[s].serial \in Int
    BY <1>0 DEF EdictOf
  <2> QED BY <1>0, <1>1, <2>1
<1>2. CASE world' # world
  <2>0. PICK s \in Slots : \E x \in Simulated(world[s]) : world' = [world EXCEPT ![s] = x]
    BY <1>2 DEF Simulate
  <2>1. PICK e \in Simulated(world[s]) : world' = [world EXCEPT ![s] = e]
    BY <2>0
  <2>2. /\ e \in EdictOf /\ world[s].serial <= e.serial
        /\ e.alive => e.serial > 0
        /\ e.alive /\ e.serial = world[s].serial => world[s].alive
    BY <1>0, SimulatedEntity
  <2>3. \A r \in Slots : world[r].serial \in Int
    BY <1>0 DEF EdictOf
  <2>4. \A r \in Slots : world'[r] = IF r = s THEN e ELSE world[r]
    BY <2>1, <1>0
  <2> QED BY <1>0, <2>1, <2>2, <2>3, <2>4
<1> QED BY <1>1, <1>2

-----------------------------------------------------------------------------
\* The snapshot of a frame, and the history with it.
FrameOf(w, packed) == [tick |-> tick + 1, ents |-> Snapshot(w, packed), transmit |-> Visible(w)]
Extended(H, f) == [t \in 1 .. tick + 1 |-> IF t <= tick THEN H[t] ELSE f]

\* The history with one more snapshot.
LEMMA ExtendedAt ==
  ASSUME tick \in Nat, NEW H, NEW f, NEW G, G = Extended(H, f)
  PROVE  /\ G[tick + 1] = f /\ \A t \in Past : G[t] = H[t]
         /\ \A t \in 1 .. tick + 1 : t \in Past \/ t = tick + 1
         /\ tick + 1 \in 1 .. tick + 1 /\ tick + 1 \notin Past
<1>1. G = [t \in 1 .. tick + 1 |-> IF t <= tick THEN H[t] ELSE f]
  BY DEF Extended
<1>2. \A t \in 1 .. tick + 1 : G[t] = IF t <= tick THEN H[t] ELSE f
  BY <1>1
<1>3. \A t \in 1 .. tick : t \in 1 .. tick + 1 /\ t <= tick
  OBVIOUS
<1>4. tick + 1 \in 1 .. tick + 1 /\ ~(tick + 1 <= tick) /\ \A t \in 1 .. tick + 1 : t \in 1 .. tick \/ t = tick + 1
  OBVIOUS
<1> QED BY <1>2, <1>3, <1>4 DEF Past

\* The entity e of slot s is as its changes say in all snapshots before.
FollowsPast(e, s, H) ==
  \A t \in Past : s \in H[t].transmit /\ H[t].ents[s].serial = e.serial => SameSince(e, H[t].ents[s], t)

\* What is known of the snapshot f when it was taken.
Taken(f, H) ==
  /\ f \in Frame /\ f.tick = tick + 1
  /\ \A s \in Slots :
       /\ f.ents[s].serial \in -1 .. world'[s].serial
       /\ f.ents[s].serial > 0 => world'[s].alive /\ f.ents[s].serial = world'[s].serial
       /\ world'[s].alive => f.ents[s].serial = world'[s].serial
       /\ s \in f.transmit => f.ents[s].serial > 0 /\ NotAfter(f.ents[s], tick + 1) /\ FollowsPast(f.ents[s], s, H)

\* The packed entity of slot s follows the one before.
LEMMA PackedStep ==
  ASSUME WorldTyped, NEW H, History(H), NEW w \in [Slots -> EdictOf], NEW s \in Slots,
         world[s].serial <= w[s].serial
  PROVE  /\ Packed(w, s) \in PackedEntity /\ Packed(w, s).serial = w[s].serial
         /\ NotAfter(Packed(w, s), tick + 1) /\ FollowsPast(Packed(w, s), s, H)
<1> DEFINE old == lastPacked[s]
           e == w[s]
           Ch == [p \in Props |-> IF old.serial = e.serial /\ old.vals[p] = e.vals[p]
                                    THEN old.changed[p] ELSE tick + 1]
<1>0. tick \in Nat /\ PackedOK(s, H) /\ SlotOK(s, H) /\ H \in [Past -> Frame]
  BY DEF WorldTyped, History
<1>1. /\ old.serial \in Int /\ old.vals \in [Props -> Values] /\ old.changed \in [Props -> Nat]
      /\ old.serial <= world[s].serial
      /\ \A p \in Props : old.changed[p] <= tick
  BY <1>0 DEF PackedOK, PackedEntity, NotAfter
<1>2. e.serial \in Int /\ e.vals \in [Props -> Values] /\ world[s].serial \in Int
  BY DEF EdictOf, WorldTyped
<1>3. Packed(w, s) = [serial |-> e.serial, vals |-> e.vals, changed |-> Ch]
  BY DEF Packed
<1>4. \A p \in Props : Ch[p] = IF old.serial = e.serial /\ old.vals[p] = e.vals[p]
                                 THEN old.changed[p] ELSE tick + 1
  OBVIOUS
<1>5. Ch \in [Props -> Nat] /\ \A p \in Props : Ch[p] <= tick + 1
  BY <1>0, <1>1
<1> HIDE DEF Ch
<1>6. ASSUME NEW t \in Past, s \in H[t].transmit, H[t].ents[s].serial = e.serial,
             NEW p \in Props, Ch[p] <= t
      PROVE  e.vals[p] = H[t].ents[s].vals[p]
  <2>1. /\ H[t].ents[s].serial <= old.serial
        /\ H[t].ents[s].serial = old.serial =>
             (old.changed[p] <= t => old.vals[p] = H[t].ents[s].vals[p])
    BY <1>0, <1>6 DEF PackedOK, SameSince
  <2>2. old.serial = e.serial
    BY <2>1, <1>1, <1>2, <1>6
  <2>3. t \in Nat /\ t <= tick
    BY <1>0 DEF Past
  <2>4. Ch[p] # tick + 1
    BY <2>3, <1>6, <1>0
  <2> QED BY <1>4, <1>6, <2>1, <2>2, <2>4
<1>7. Packed(w, s) \in PackedEntity
  BY <1>3, <1>5, <1>2 DEF PackedEntity
<1>8. Packed(w, s).serial = e.serial /\ Packed(w, s).vals = e.vals /\ Packed(w, s).changed = Ch
  BY <1>3
<1>9. NotAfter(Packed(w, s), tick + 1)
  BY <1>5, <1>8 DEF NotAfter
<1>10. FollowsPast(Packed(w, s), s, H)
  BY <1>6, <1>8 DEF FollowsPast, SameSince
<1> QED BY <1>7, <1>8, <1>9, <1>10

-----------------------------------------------------------------------------
(* Taking a snapshot.                                                      *)

\* An entity that is not packed has the type of one that is.
LEMMA UnpackedTyped ==
  ASSUME NEW n \in Int
  PROVE  Unpacked(n) \in PackedEntity /\ Unpacked(n).serial = n
BY ZeroTyped DEF Unpacked, PackedEntity, Values

\* One slot of a snapshot.
LEMMA SnapshotSlot ==
  ASSUME WorldTyped, NEW H, History(H), NEW w \in [Slots -> EdictOf],
         \A r \in Slots : world[r].serial <= w[r].serial /\ (w[r].alive => w[r].serial > 0),
         NEW packed \in SUBSET Occupied(w), NEW s \in Slots
  PROVE  LET e == Snapshot(w, packed)[s]
         IN  /\ e \in PackedEntity /\ e.serial \in -1 .. w[s].serial
             /\ e.serial > 0 => w[s].alive /\ e.serial = w[s].serial
             /\ w[s].alive => e.serial = w[s].serial
             /\ s \in packed => e = Packed(w, s)
<1> DEFINE e == Snapshot(w, packed)[s]
<1>1. w[s].serial \in Nat /\ Occupied(w) = {r \in Slots : w[r].alive}
  BY DEF EdictOf, Occupied
<1>2. e = CASE s \in packed -> Packed(w, s)
            [] s \in Occupied(w) \ packed -> Unpacked(w[s].serial)
            [] s \notin Occupied(w) -> IF w[s].serial = 0 THEN Beyond ELSE Free
  BY DEF Snapshot
<1>3. CASE s \in packed
  <2>1. e = Packed(w, s)
    BY <1>2, <1>3
  <2>2. w[s].alive /\ w[s].serial > 0
    BY <1>1, <1>3
  <2> QED BY <2>1, <2>2, <1>1, PackedStep
<1>4. CASE s \in Occupied(w) \ packed
  <2>1. e = Unpacked(w[s].serial)
    BY <1>2, <1>4
  <2> QED BY <2>1, <1>1, <1>4, UnpackedTyped
<1>5. CASE s \notin Occupied(w)
  <2>1. e = Unpacked(0) \/ (w[s].serial = 0 /\ e = Unpacked(-1))
    BY <1>2, <1>5 DEF Beyond, Free
  <2>2. ~w[s].alive
    BY <1>1, <1>5
  <2> QED BY <2>1, <2>2, <1>1, <1>5, UnpackedTyped
<1> QED BY <1>3, <1>4, <1>5

AllPacked(H) == \A s \in Slots : PackedOK(s, H)

\* The snapshot of a frame and the entities packed last.
LEMMA FrameTaken ==
  ASSUME WorldTyped, NEW H, History(H), Simulate, tick' = tick + 1, NEW w, w = world',
         NEW unseen \in SUBSET (Occupied(w) \ Visible(w)), NEW f, NEW packed, NEW G,
         packed = Visible(w) \cup unseen,
         f = FrameOf(w, packed),
         lastPacked' = [s \in Slots |-> IF s \in packed THEN Snapshot(w, packed)[s] ELSE lastPacked[s]],
         G = Extended(H, f)
  PROVE  Taken(f, H) /\ WorldTyped' /\ AllPacked(G)'
<1> DEFINE snap == Snapshot(w, packed)
<1>1. /\ w \in [Slots -> EdictOf]
      /\ \A s \in Slots : world[s].serial <= w[s].serial /\ (w[s].alive => w[s].serial > 0)
  BY WorldStep
<1>2. tick \in Nat /\ H \in [Past -> Frame] /\ \A s \in Slots : PackedOK(s, H) /\ SlotOK(s, H)
  BY DEF WorldTyped, History
<1>3. WorldTyped'
  BY <1>1, <1>2 DEF WorldTyped
<1>4. packed \in SUBSET Occupied(w) /\ Visible(w) \in SUBSET Slots /\ Visible(w) \subseteq packed
  BY DEF Occupied, Visible
<1>5. \A s \in Slots : /\ snap[s] \in PackedEntity /\ snap[s].serial \in -1 .. w[s].serial
                       /\ snap[s].serial > 0 => w[s].alive /\ snap[s].serial = w[s].serial
                       /\ w[s].alive => snap[s].serial = w[s].serial
                       /\ s \in packed => snap[s] = Packed(w, s)
  BY <1>1, <1>4, SnapshotSlot
<1>6. snap = [s \in Slots |-> snap[s]]
  BY DEF Snapshot
<1> HIDE DEF snap
<1>7. f.tick = tick + 1 /\ f.ents = snap /\ f.transmit = Visible(w) /\ f \in Frame
  <2>1. snap \in [Slots -> PackedEntity]
    BY <1>5, <1>6
  <2>2. f = [tick |-> tick + 1, ents |-> snap, transmit |-> Visible(w)]
    BY DEF snap, FrameOf
  <2>3. tick + 1 \in Nat /\ Visible(w) \in SUBSET Slots
    BY <1>2, <1>4
  <2>4. f.tick = tick + 1 /\ f.ents = snap /\ f.transmit = Visible(w)
    BY <2>2
  <2>5. \A n \in Nat, e \in [Slots -> PackedEntity], v \in SUBSET Slots :
          [tick |-> n, ents |-> e, transmit |-> v] \in [tick : Nat, ents : [Slots -> PackedEntity], transmit : SUBSET Slots]
    OBVIOUS
  <2>6. f \in Frame
    BY ONLY <2>1, <2>2, <2>3, <2>5 DEF Frame
  <2> QED BY ONLY <2>4, <2>6
<1>8. ASSUME NEW s \in packed
      PROVE  /\ s \in Slots /\ w[s].alive /\ snap[s].serial > 0 /\ snap[s].serial = w[s].serial
             /\ lastPacked'[s] = snap[s]
             /\ NotAfter(snap[s], tick + 1) /\ FollowsPast(snap[s], s, H)
  <2>1. s \in Slots /\ w[s].alive
    BY <1>4 DEF Occupied
  <2>2. snap[s] = Packed(w, s) /\ snap[s].serial = w[s].serial /\ snap[s].serial > 0
    BY <2>1, <1>1, <1>5
  <2>3. lastPacked'[s] = snap[s]
    BY <2>1 DEF snap
  <2>4. NotAfter(Packed(w, s), tick + 1) /\ FollowsPast(Packed(w, s), s, H)
    BY <2>1, <1>1, PackedStep
  <2> QED BY <2>1, <2>2, <2>3, <2>4
<1>9. Taken(f, H)
  <2>1. ASSUME NEW s \in Slots
        PROVE  /\ f.ents[s].serial \in -1 .. world'[s].serial
               /\ f.ents[s].serial > 0 => world'[s].alive /\ f.ents[s].serial = world'[s].serial
               /\ world'[s].alive => f.ents[s].serial = world'[s].serial
    BY <1>5, <1>7
  <2>2. ASSUME NEW s \in f.transmit
        PROVE  f.ents[s].serial > 0 /\ NotAfter(f.ents[s], tick + 1) /\ FollowsPast(f.ents[s], s, H)
    BY <1>4, <1>7, <1>8
  <2> QED BY <2>1, <2>2, <1>7 DEF Taken
<1>10. ASSUME NEW s \in Slots
       PROVE  PackedOK(s, G)'
  <2>1. /\ G[tick + 1] = f /\ \A t \in Past : G[t] = H[t]
        /\ \A t \in 1 .. tick + 1 : t \in Past \/ t = tick + 1
    BY <1>2, ExtendedAt
  <2>0. Past' = 1 .. tick + 1
    BY DEF Past
  <2>2. ASSUME NEW l, l = lastPacked'[s], l \in PackedEntity, l.serial \in 0 .. w[s].serial,
               NotAfter(l, tick + 1),
               \A t \in 1 .. tick + 1 : s \in G[t].transmit =>
                 /\ G[t].ents[s].serial <= l.serial
                 /\ G[t].ents[s].serial = l.serial => SameSince(l, G[t].ents[s], t)
        PROVE  PackedOK(s, G)'
    BY <2>2, <2>0 DEF PackedOK
  <2>3. CASE s \in packed
    <3>1. /\ lastPacked'[s] = snap[s] /\ snap[s].serial > 0 /\ snap[s].serial = w[s].serial
          /\ NotAfter(snap[s], tick + 1) /\ FollowsPast(snap[s], s, H)
      BY <1>8, <2>3
    <3>2. snap[s].serial \in 0 .. w[s].serial /\ snap[s].serial \in Int
      BY <3>1, <1>5
    <3>3. \A t \in Past : H[t].ents[s].serial <= snap[s].serial
      <4>1. world[s].serial \in Int /\ w[s].serial \in Int /\ world[s].serial <= w[s].serial
        BY <1>1 DEF WorldTyped, EdictOf
      <4> QED BY <1>2, <3>1, <4>1 DEF SlotOK
    <3>4. ASSUME NEW t \in 1 .. tick + 1, s \in G[t].transmit
          PROVE  /\ G[t].ents[s].serial <= snap[s].serial
                 /\ G[t].ents[s].serial = snap[s].serial => SameSince(snap[s], G[t].ents[s], t)
      <4>1. CASE t \in Past
        BY <2>1, <3>1, <3>3, <3>4, <4>1 DEF FollowsPast
      <4>2. CASE t = tick + 1
        <5>1. G[t].ents = snap
          BY <4>2, <2>1, <1>7
        <5>2. SameSince(snap[s], snap[s], t) /\ snap[s].serial <= snap[s].serial
          BY <3>2 DEF SameSince
        <5> QED BY <5>1, <5>2
      <4> QED BY <4>1, <4>2, <2>1
    <3> QED BY <2>2, <3>1, <3>2, <3>4, <1>5
  <2>4. CASE s \notin packed
    <3>1. lastPacked'[s] = lastPacked[s]
      BY <2>4
    <3>2. PackedOK(s, H) /\ world[s].serial <= w[s].serial
      BY <1>1, <1>2
    <3>3. lastPacked[s] \in PackedEntity /\ lastPacked[s].serial \in 0 .. world[s].serial
      BY <3>2 DEF PackedOK
    <3>4. lastPacked[s].serial \in 0 .. w[s].serial
      <4>1. world[s].serial \in Int /\ w[s].serial \in Int
        BY <1>1 DEF WorldTyped, EdictOf
      <4> QED BY <4>1, <3>2, <3>3
    <3>5. NotAfter(lastPacked[s], tick + 1)
      <4>1. \A p \in Props : lastPacked[s].changed[p] \in Nat /\ lastPacked[s].changed[p] <= tick
        BY <3>2, <3>3 DEF PackedOK, PackedEntity, NotAfter
      <4> QED BY <4>1, <1>2 DEF NotAfter
    <3>6. ASSUME NEW t \in 1 .. tick + 1, s \in G[t].transmit
          PROVE  /\ G[t].ents[s].serial <= lastPacked[s].serial
                 /\ G[t].ents[s].serial = lastPacked[s].serial => SameSince(lastPacked[s], G[t].ents[s], t)
      <4>1. t # tick + 1
        <5>1. f.transmit \subseteq packed
          BY <1>4, <1>7
        <5> QED BY <5>1, <2>1, <2>4, <3>6
      <4>2. G[t] = H[t] /\ t \in Past
        BY <4>1, <2>1
      <4> QED BY <4>2, <3>2, <3>6 DEF PackedOK
    <3> QED BY <2>2, <3>1, <3>3, <3>4, <3>5, <3>6
  <2> QED BY <2>3, <2>4
<1> QED BY <1>3, <1>9, <1>10 DEF AllPacked

\* Serial numbers never fall, and one that is there again was there throughout.
LEMMA TakenSerials ==
  ASSUME WorldTyped, NEW H, History(H), Simulate, NEW f, Taken(f, H), NEW s \in Slots
  PROVE  /\ \A t \in Past : H[t].ents[s].serial \in -1 .. world'[s].serial
         /\ \A t, u \in Past : t <= u /\ H[t].ents[s].serial = f.ents[s].serial /\ f.ents[s].serial > 0
              => H[u].ents[s].serial = f.ents[s].serial
         /\ world'[s].alive => \A t, u \in Past :
              t <= u /\ H[t].ents[s].serial = world'[s].serial => H[u].ents[s].serial = world'[s].serial
         /\ s \in Reused => \A t \in Past : f.ents[s].serial > 0 => H[t].ents[s].serial # f.ents[s].serial
<1>1. SlotOK(s, H)
  BY DEF History
<1>2. /\ world[s].serial <= world'[s].serial
      /\ world'[s].alive /\ world'[s].serial = world[s].serial => world[s].alive
  BY WorldStep
<1>3. world[s].serial \in Int /\ world'[s].serial \in Int
  BY WorldStep DEF WorldTyped, EdictOf
<1>4. /\ f.ents[s].serial \in -1 .. world'[s].serial
      /\ f.ents[s].serial > 0 => world'[s].alive /\ f.ents[s].serial = world'[s].serial
  BY DEF Taken
<1>5. \A t \in Past : H[t].ents[s].serial \in -1 .. world[s].serial
  BY <1>1 DEF SlotOK
<1>6. \A t \in Past : H[t].ents[s].serial \in -1 .. world'[s].serial
  BY <1>2, <1>3, <1>5
<1>7. ASSUME NEW t \in Past, NEW u \in Past, world'[s].alive, t <= u, H[t].ents[s].serial = world'[s].serial
      PROVE  H[u].ents[s].serial = world'[s].serial
  <2>1. H[t].ents[s].serial = world[s].serial /\ world'[s].serial = world[s].serial
    BY <1>2, <1>3, <1>5, <1>7
  <2> QED BY <2>1, <1>1, <1>2, <1>7 DEF SlotOK
<1>8. ASSUME NEW t \in Past, s \in Reused, f.ents[s].serial > 0
      PROVE  H[t].ents[s].serial # f.ents[s].serial
  <2>1. world'[s].serial # world[s].serial
    BY <1>8 DEF Reused
  <2> QED BY <2>1, <1>2, <1>3, <1>4, <1>5, <1>8
<1> QED BY <1>4, <1>6, <1>7, <1>8

\* The history grows by the snapshot.
LEMMA HistoryStep ==
  ASSUME WorldTyped, NEW H, History(H), Simulate, tick' = tick + 1, NEW f, Taken(f, H),
         NEW G, G = Extended(H, f), WorldTyped', AllPacked(G)',
         frames' \subseteq frames \cup {f}
  PROVE  History(G)' /\ \A s \in Reused : NewIn(s, tick + 1, G)
<1>0. tick \in Nat /\ H \in [Past -> Frame] /\ (\A t \in Past : H[t].tick = t) /\ Past' = 1 .. tick + 1 /\ Past = 1 .. tick
  BY DEF WorldTyped, History, Past
<1>1. /\ G[tick + 1] = f /\ \A t \in Past : G[t] = H[t]
      /\ \A t \in 1 .. tick + 1 : t \in Past \/ t = tick + 1
      /\ tick + 1 \in 1 .. tick + 1 /\ tick + 1 \notin Past
  BY <1>0, ExtendedAt
<1>2. f \in Frame /\ f.tick = tick + 1
  BY DEF Taken
<1>3. G \in [1 .. tick + 1 -> Frame] /\ \A t \in 1 .. tick + 1 : G[t].tick = t
  <2>1. DOMAIN G = 1 .. tick + 1 /\ G = [t \in 1 .. tick + 1 |-> G[t]]
    BY DEF Extended
  <2>2. \A t \in 1 .. tick + 1 : G[t] \in Frame /\ G[t].tick = t
    BY <1>0, <1>1, <1>2
  <2> QED BY <2>1, <2>2
<1>4. \A t, u \in 1 .. tick + 1 : t <= u => (u \in Past => t \in Past)
  BY <1>0
<1>5. ASSUME NEW s \in Slots
      PROVE  SlotOK(s, G)'
  <2>1. SlotOK(s, H)
    BY DEF History
  <2>2. /\ f.ents[s].serial \in -1 .. world'[s].serial
        /\ world'[s].alive => f.ents[s].serial = world'[s].serial
        /\ s \in f.transmit => f.ents[s].serial > 0 /\ NotAfter(f.ents[s], tick + 1)
    BY DEF Taken
  <2>3. \A t \in 1 .. tick + 1 : G[t].ents[s].serial \in -1 .. world'[s].serial
    BY <1>1, <2>2, TakenSerials
  <2>4. \A t \in 1 .. tick + 1 : s \in G[t].transmit => G[t].ents[s].serial > 0 /\ NotAfter(G[t].ents[s], t)
    BY <1>1, <2>1, <2>2 DEF SlotOK
  <2>5. ASSUME NEW t \in 1 .. tick + 1, NEW u \in 1 .. tick + 1, world'[s].alive, t <= u,
               G[t].ents[s].serial = world'[s].serial
        PROVE  G[u].ents[s].serial = world'[s].serial
    <3>1. CASE u \in Past
      <4>1. t \in Past /\ G[t] = H[t] /\ G[u] = H[u]
        BY <1>1, <1>4, <2>5, <3>1
      <4> QED BY <4>1, <2>5, <3>1, TakenSerials
    <3>2. CASE u = tick + 1
      BY <3>2, <1>1, <2>2, <2>5
    <3> QED BY <1>1, <3>1, <3>2
  <2> QED BY <1>0, <2>3, <2>4, <2>5 DEF SlotOK
<1>6. Lasting(G)'
  <2> SUFFICES ASSUME NEW s \in Slots, NEW t \in 1 .. tick + 1, NEW u \in 1 .. tick + 1, NEW v \in 1 .. tick + 1,
                      t <= u, u <= v, G[t].ents[s].serial = G[v].ents[s].serial, G[v].ents[s].serial > 0
               PROVE  G[u].ents[s].serial = G[v].ents[s].serial
    BY <1>0 DEF Lasting
  <2>1. CASE v \in Past
    <3>1. u \in Past /\ t \in Past
      BY <2>1, <1>4
    <3>2. G[t] = H[t] /\ G[u] = H[u] /\ G[v] = H[v]
      BY <2>1, <3>1, <1>1
    <3> QED BY <2>1, <3>1, <3>2 DEF History, Lasting
  <2>2. CASE v = tick + 1
    <3>1. CASE u = tick + 1
      BY <2>2, <3>1
    <3>2. CASE u \in Past
      <4>1. t \in Past /\ G[t] = H[t] /\ G[u] = H[u] /\ G[v] = f
        BY <2>2, <3>2, <1>1, <1>4
      <4> QED BY <4>1, <3>2, TakenSerials
    <3> QED BY <1>1, <3>1, <3>2
  <2> QED BY <1>1, <2>1, <2>2
<1>7. Unchanged(G)'
  <2> SUFFICES ASSUME NEW s \in Slots, NEW t \in 1 .. tick + 1, NEW u \in 1 .. tick + 1,
                      t <= u, s \in G[t].transmit, s \in G[u].transmit, G[t].ents[s].serial = G[u].ents[s].serial
               PROVE  SameSince(G[u].ents[s], G[t].ents[s], t)
    BY <1>0 DEF Unchanged
  <2>1. CASE u \in Past
    <3>1. t \in Past /\ G[t] = H[t] /\ G[u] = H[u]
      BY <2>1, <1>1, <1>4
    <3> QED BY <2>1, <3>1 DEF History, Unchanged
  <2>2. CASE u = tick + 1
    <3>1. CASE t = tick + 1
      BY <2>2, <3>1 DEF SameSince
    <3>2. CASE t \in Past
      <4>1. G[t] = H[t] /\ G[u] = f
        BY <2>2, <3>2, <1>1
      <4>2. FollowsPast(f.ents[s], s, H)
        BY <4>1 DEF Taken
      <4> QED BY <4>1, <4>2, <3>2 DEF FollowsPast
    <3> QED BY <1>1, <3>1, <3>2
  <2> QED BY <1>1, <2>1, <2>2
<1>8. \A g \in frames' : g.tick \in 1 .. tick + 1 /\ g = G[g.tick]
  <2>1. \A g \in frames : g.tick \in Past /\ g = H[g.tick]
    BY DEF History
  <2>2. \A t \in Past : t \in 1 .. tick + 1
    BY <1>0
  <2> QED BY <1>1, <1>2, <2>1, <2>2
<1>9. History(G)'
  BY <1>0, <1>3, <1>5, <1>6, <1>7, <1>8 DEF History, AllPacked
<1>10. ASSUME NEW s \in Reused, NEW t \in 1 .. (tick + 1) - 1, G[t].ents[s].serial > 0
       PROVE  G[t].ents[s].serial # G[tick + 1].ents[s].serial
  <2>1. t \in Past /\ s \in Slots
    BY <1>0 DEF Reused
  <2>2. G[t] = H[t] /\ G[tick + 1] = f
    BY <2>1, <1>1
  <2> QED BY <1>10, <2>1, <2>2, TakenSerials
<1>11. ASSUME NEW s \in Reused
       PROVE  NewIn(s, tick + 1, G)
  <2>1. \A t \in 1 .. (tick + 1) - 1 : G[t].ents[s].serial > 0 => G[t].ents[s].serial # G[tick + 1].ents[s].serial
    BY <1>10
  <2> QED BY ONLY <2>1 DEF NewIn
<1> QED BY <1>9, <1>11

-----------------------------------------------------------------------------
(* What one slot of a message makes of the entity of the client.           *)

ValsType == [Props -> Values]

\* The properties of e that have changed after tick t.
Later(e, t) == {p \in Props : e.changed[p] > t}

\* What an entity that enters is read as.
LEMMA EnterRead ==
  ASSUME NEW v \in ValsType, NEW base \in ValsType, NEW e, e.vals = v, NEW n
  PROVE  /\ EnterPVS(e, base).op = "enter" /\ EnterPVS(e, base).serial = e.serial
         /\ Merge(base, EnterPVS(e, base).vals) = v
<1> DEFINE P == {p \in Props : v[p] # base[p]}
<1>1. EnterPVS(e, base) = [op |-> "enter", serial |-> e.serial, vals |-> SomeOf(v, P)]
  BY DEF EnterPVS, Bits
<1>2. SomeOf(v, P) = [p \in P |-> v[p]]
  BY DEF SomeOf
<1>3. Merge(base, SomeOf(v, P)) = [p \in Props |-> IF p \in P THEN v[p] ELSE base[p]]
  BY <1>2 DEF Merge
<1>4. [p \in Props |-> IF p \in P THEN v[p] ELSE base[p]] = v
  BY DEF ValsType
<1> QED BY <1>1, <1>3, <1>4

\* The updates of a slot.
LEMMA DeltaCases ==
  ASSUME NEW s, NEW f, NEW g, NEW bl, NEW u, u = DeltaUpdate(s, f, g, bl)
  PROVE  \/ /\ s \in g.transmit /\ u.op = "enter"
            /\ u = EnterPVS(g.ents[s], BaselineFor(bl[s], g.ents[s].serial))
         \/ /\ s \in g.transmit /\ s \in f.transmit /\ ~NeedsCreate(s, f, g) /\ u.op = "delta"
            /\ u.vals = SomeOf(g.ents[s].vals, Later(g.ents[s], f.tick))
         \/ /\ s \in g.transmit /\ s \in f.transmit /\ ~NeedsCreate(s, f, g) /\ u.op = "none"
            /\ f.ents[s] = g.ents[s] \/ Later(g.ents[s], f.tick) = {}
         \/ s \notin g.transmit /\ s \in f.transmit /\ NeedsDestroy(s, f, g) /\ u.op = "delete"
         \/ s \notin g.transmit /\ s \in f.transmit /\ ~NeedsDestroy(s, f, g) /\ u.op = "leave"
         \/ s \notin g.transmit /\ s \notin f.transmit /\ u.op = "none"
<1>1. CASE s \in g.transmit /\ (s \notin f.transmit \/ NeedsCreate(s, f, g))
  <2>1. u = EnterPVS(g.ents[s], BaselineFor(bl[s], g.ents[s].serial))
    BY <1>1 DEF DeltaUpdate
  <2> QED BY <1>1, <2>1 DEF EnterPVS, Bits
<1>2. CASE s \in g.transmit /\ s \in f.transmit /\ ~NeedsCreate(s, f, g)
  <2> DEFINE P == Later(g.ents[s], f.tick)
  <2>1. u = IF f.ents[s] = g.ents[s] THEN Nothing ELSE DeltaOf(g.ents[s], f)
    BY <1>2 DEF DeltaUpdate
  <2>2. DeltaOf(g.ents[s], f) = IF P = {} THEN Nothing ELSE Bits("delta", 0, SomeOf(g.ents[s].vals, P))
    BY DEF DeltaOf, Later
  <2>3. Nothing.op = "none"
    BY DEF Nothing, Bits
  <2>4. CASE u = Nothing /\ f.ents[s] = g.ents[s]
    BY <1>2, <2>3, <2>4
  <2>5. CASE u = Nothing /\ P = {}
    BY <1>2, <2>3, <2>5
  <2>6. CASE u = Bits("delta", 0, SomeOf(g.ents[s].vals, P))
    <3>1. u.op = "delta" /\ u.vals = SomeOf(g.ents[s].vals, P)
      BY <2>6 DEF Bits
    <3> QED BY <1>2, <3>1
  <2> QED BY <2>1, <2>2, <2>4, <2>5, <2>6
<1>3. CASE s \notin g.transmit /\ s \in f.transmit
  <2>1. u = Bits(IF NeedsDestroy(s, f, g) THEN "delete" ELSE "leave", 0, <<>>)
    BY <1>3 DEF DeltaUpdate
  <2> QED BY <1>3, <2>1 DEF Bits
<1>4. CASE s \notin g.transmit /\ s \notin f.transmit
  <2>1. u = Nothing
    BY <1>4 DEF DeltaUpdate
  <2> QED BY <1>4, <2>1 DEF Bits, Nothing
<1> QED BY <1>1, <1>2, <1>3, <1>4

\* A full update enters the entities that are transmitted and says nothing of the others.
LEMMA FullCases ==
  ASSUME NEW s, NEW g, NEW u, u = FullUpdate(s, g)
  PROVE  \/ s \in g.transmit /\ u = EnterPVS(g.ents[s], Zero) /\ u.op = "enter"
         \/ s \notin g.transmit /\ u.op = "none"
BY DEF FullUpdate, EnterPVS, Nothing, Bits

\* The values that a kept entity gets.
LEMMA KeptValues ==
  ASSUME NEW e \in PackedEntity, NEW o, NEW k \in Nat, NEW a \in Nat, a <= k,
         o.vals \in ValsType, SameSince(e, o, k)
  PROVE  /\ Merge(o.vals, SomeOf(e.vals, Later(e, a))) = e.vals
         /\ Later(e, a) = {} => o.vals = e.vals
<1> DEFINE P == Later(e, a)
<1>1. e.vals \in ValsType /\ e.changed \in [Props -> Nat]
  BY DEF PackedEntity, ValsType
<1>2. \A p \in Props : p \notin P => o.vals[p] = e.vals[p]
  <2> SUFFICES ASSUME NEW p \in Props, p \notin P PROVE o.vals[p] = e.vals[p]
    OBVIOUS
  <2>1. e.changed[p] \in Nat /\ ~(e.changed[p] > a)
    BY <1>1 DEF Later
  <2>2. e.changed[p] <= k
    BY <2>1
  <2> QED BY <2>2 DEF SameSince
<1>3. Merge(o.vals, SomeOf(e.vals, P)) = [p \in Props |-> IF p \in P THEN e.vals[p] ELSE o.vals[p]]
  BY DEF Merge, SomeOf
<1>4. [p \in Props |-> IF p \in P THEN e.vals[p] ELSE o.vals[p]] = [p \in Props |-> e.vals[p]]
  BY <1>2
<1>5. [p \in Props |-> e.vals[p]] = e.vals
  BY <1>1 DEF ValsType
<1>6. ASSUME Later(e, a) = {}
      PROVE  o.vals = e.vals
  <2>1. \A p \in Props : o.vals[p] = e.vals[p]
    BY <1>2, <1>6
  <2> QED BY <2>1, <1>1 DEF ValsType
<1> QED BY <1>3, <1>4, <1>5, <1>6

\* The entities of frames.
LEMMA FrameFacts ==
  ASSUME WorldTyped, NEW H, History(H), NEW t \in Past, NEW s \in Slots
  PROVE  /\ t \in Nat /\ H[t] \in Frame /\ H[t].tick = t
         /\ H[t].transmit \subseteq Slots /\ H[t].ents \in [Slots -> PackedEntity]
         /\ H[t].ents[s] \in PackedEntity /\ H[t].ents[s].serial \in Int
         /\ H[t].ents[s].vals \in ValsType /\ H[t].ents[s].changed \in [Props -> Nat]
         /\ s \in H[t].transmit => /\ H[t].ents[s].serial > 0 /\ NotAfter(H[t].ents[s], t)
                                   /\ Rec(H[t], s) \in EntityOf /\ Rec(H[t], s) # NoEntity
<1>1. t \in Nat /\ H[t] \in Frame /\ H[t].tick = t /\ SlotOK(s, H)
  BY DEF WorldTyped, History, Past
<1>2. H[t].transmit \subseteq Slots /\ H[t].ents \in [Slots -> PackedEntity]
  BY <1>1 DEF Frame
<1>3. H[t].ents[s] \in PackedEntity
  BY <1>2
<1>4. /\ H[t].ents[s].serial \in Int
      /\ H[t].ents[s].vals \in ValsType /\ H[t].ents[s].changed \in [Props -> Nat]
  BY <1>3 DEF PackedEntity, ValsType
<1>5. ASSUME s \in H[t].transmit
      PROVE  /\ H[t].ents[s].serial > 0 /\ NotAfter(H[t].ents[s], t)
             /\ Rec(H[t], s) \in EntityOf /\ Rec(H[t], s) # NoEntity
  <2>1. H[t].ents[s].serial > 0 /\ NotAfter(H[t].ents[s], t)
    BY <1>1, <1>5 DEF SlotOK
  <2>2. H[t].ents[s].serial \in 0 .. Len(Class)
    <3>1. world[s].serial \in 0 .. Len(Class) /\ H[t].ents[s].serial \in -1 .. world[s].serial /\ Len(Class) \in Nat
      BY <1>1, ClassAssumption DEF SlotOK, WorldTyped, EdictOf
    <3> QED BY <2>1, <3>1
  <2>3. Rec(H[t], s) = [serial |-> H[t].ents[s].serial, vals |-> H[t].ents[s].vals]
    BY DEF Rec
  <2>4. Rec(H[t], s) \in EntityOf
    BY <2>2, <2>3, <1>4 DEF EntityOf, ValsType
  <2>5. Rec(H[t], s).serial > 0 /\ NoEntity.serial = 0
    BY <2>1, <2>3 DEF NoEntity
  <2> QED BY <2>1, <2>4, <2>5
<1> QED BY <1>1, <1>2, <1>3, <1>4, <1>5

\* What the client has of the entity that frame t shows in slot s, up to tick c.
SlotKept(s, t, c, H) ==
  s \in H[t].transmit =>
    \/ \E k \in t .. c : s \in H[k].transmit /\ entities[s] = Rec(H[k], s)
    \/ \E u \in t .. c : H[u].ents[s].serial # H[t].ents[s].serial

\* A slot that is kept in a delta from frame a to frame b: the client has it, as it was at some tick k.
LEMMA KeptSlot ==
  ASSUME WorldTyped, NEW H, History(H), NEW a \in Past, NEW b \in Past, NEW c \in Past, a <= c, c < b,
         NEW s \in Slots, s \in H[a].transmit, s \in H[b].transmit, ~NeedsCreate(s, H[a], H[b]), SlotKept(s, a, c, H)
  PROVE  /\ \E k \in a .. c : /\ k \in Past /\ s \in H[k].transmit /\ entities[s] = Rec(H[k], s)
                              /\ H[k].ents[s].serial = H[b].ents[s].serial
                              /\ SameSince(H[b].ents[s], H[k].ents[s], k)
         /\ ~NewIn(s, b, H)
<1>0. a \in Nat /\ b \in Nat /\ c \in Nat /\ tick \in Nat /\ b <= tick /\ 1 <= a
  BY DEF Past, WorldTyped
<1>1. H[a].ents[s].serial > 0 /\ H[b].ents[s].serial > 0 /\ H[a].ents[s].serial = H[b].ents[s].serial
  BY FrameFacts DEF NeedsCreate
<1>2. \A u \in a .. c : u \in Past /\ u <= b
  BY <1>0 DEF Past
<1>3. \A u \in a .. c : H[u].ents[s].serial = H[b].ents[s].serial
  <2>1. Lasting(H)
    BY DEF History
  <2> QED BY <2>1, <1>0, <1>1, <1>2 DEF Lasting
<1>4. a \in a .. c
  BY <1>0
<1>5. PICK k \in a .. c : s \in H[k].transmit /\ entities[s] = Rec(H[k], s)
  BY <1>1, <1>3, <1>4 DEF SlotKept
<1>6. k \in Past /\ k <= b /\ H[k].ents[s].serial = H[b].ents[s].serial
  BY <1>2, <1>3
<1>7. SameSince(H[b].ents[s], H[k].ents[s], k)
  <2>1. Unchanged(H)
    BY DEF History
  <2> QED BY <2>1, <1>5, <1>6 DEF Unchanged
<1>8. ~NewIn(s, b, H)
  <2>1. a \in 1 .. b - 1
    BY <1>0
  <2> QED BY <2>1, <1>1 DEF NewIn
<1> QED BY <1>5, <1>6, <1>7, <1>8

\* Reading slot s of a delta from frame a to frame b; c is the tick of the client.
LEMMA DeltaSlot ==
  ASSUME WorldTyped, NEW H, History(H), NEW a \in Past, NEW b \in Past, NEW c \in Past, a <= c, c < b,
         NEW m, MessageTyped(m), m.from = a, m.frame.tick = b,
         NEW bl, bl = clientBaselines[m.number], WrittenDelta(m, bl, H),
         clientBaselines \in [{0, 1} -> [Slots -> EntityOf]],
         NEW s \in Slots, SlotKept(s, a, c, H), NEW u, u = m.bits[s]
  PROVE  /\ s \in ReadTransmit(m, H[a].transmit) <=> s \in H[b].transmit
         /\ m.bits[s].op = "delta" => s \in H[a].transmit
         /\ m.bits[s].op = "enter" => s \in H[b].transmit /\ Entered(m, s) = Rec(H[b], s)
         /\ m.bits[s].op = "delta" => s \notin m.deletions
         /\ s \in H[b].transmit /\ m.bits[s].op # "enter" => entities[s] # NoEntity
         /\ s \in H[b].transmit => ReadEntity(m, s) = Rec(H[b], s)
         /\ s \notin H[b].transmit => ReadEntity(m, s) = entities[s] \/ (ReadEntity(m, s) = NoEntity /\ NewIn(s, b, H))
         /\ NeedsDestroy(s, H[a], H[b]) => ReadEntity(m, s) = NoEntity
<1> DEFINE R == ReadEntity(m, s)
<1>f. PICK f : f = H[a]
  OBVIOUS
<1>g. PICK g : g = H[b]
  OBVIOUS
<1> SUFFICES /\ s \in ReadTransmit(m, f.transmit) <=> s \in g.transmit
             /\ u.op = "delta" => s \in f.transmit
             /\ u.op = "enter" => s \in g.transmit /\ Entered(m, s) = Rec(g, s)
             /\ u.op = "delta" => s \notin m.deletions
             /\ s \in g.transmit /\ u.op # "enter" => entities[s] # NoEntity
             /\ s \in g.transmit => ReadEntity(m, s) = Rec(g, s)
             /\ s \notin g.transmit => ReadEntity(m, s) = entities[s] \/ (R = NoEntity /\ NewIn(s, b, H))
             /\ NeedsDestroy(s, f, g) => ReadEntity(m, s) = NoEntity
  BY <1>f, <1>g
<1>0. m.bits = [r \in Slots |-> DeltaUpdate(r, f, g, bl)]
  BY <1>f, <1>g DEF WrittenDelta
<1>1. u = DeltaUpdate(s, f, g, bl)
  BY <1>0
<1>2. /\ s \in m.deletions => NewIn(s, b, H)
      /\ NeedsDestroy(s, f, g) => s \in m.deletions
  BY <1>f, <1>g DEF WrittenDelta
<1>3. /\ a \in Nat /\ b \in Nat /\ a # -1
      /\ g.ents[s] \in PackedEntity /\ g.ents[s].serial \in Int /\ g.ents[s].vals \in ValsType
      /\ s \in f.transmit => f.ents[s].serial > 0 /\ NotAfter(f.ents[s], a) /\ Rec(f, s) # NoEntity
      /\ s \in g.transmit => g.ents[s].serial > 0
      /\ f.tick = a
  BY <1>f, <1>g, FrameFacts DEF Past
<1>4. R = CASE u.op = "enter" -> Entered(m, s)
            [] u.op # "enter" /\ (u.op = "delete" \/ s \in m.deletions) -> NoEntity
            [] u.op = "delta" /\ s \notin m.deletions -> [entities[s] EXCEPT !.vals = Merge(@, u.vals)]
            [] u.op \in {"leave", "none"} /\ s \notin m.deletions -> entities[s]
  BY <1>3 DEF ReadEntity
<1>5. s \in ReadTransmit(m, f.transmit) <=> u.op \in {"enter", "delta"} \/ (u.op = "none" /\ s \in f.transmit)
  BY DEF ReadTransmit
<1>6. NeedsDestroy(s, f, g) => s \notin g.transmit
  BY <1>3 DEF NeedsDestroy, Empty
<1> HIDE DEF R
<1>7. CASE s \in g.transmit /\ u.op = "enter" /\ u = EnterPVS(g.ents[s], BaselineFor(bl[s], g.ents[s].serial))
  <2>1. bl[s] \in EntityOf
    BY DEF MessageTyped
  <2>2. BaselineFor(bl[s], g.ents[s].serial) \in ValsType
    BY <2>1, ZeroTyped DEF BaselineFor, EntityOf, ValsType
  <2>3. /\ u.serial = g.ents[s].serial
        /\ Merge(BaselineFor(bl[s], g.ents[s].serial), u.vals) = g.ents[s].vals
    BY <2>2, <1>3, <1>7, EnterRead
  <2>4. Baselines(m)[m.number] = bl
    <3>1. m.number \in {0, 1} /\ m.number # 1 - m.number
      BY DEF MessageTyped
    <3>2. Baselines(m) = IF m.update THEN [clientBaselines EXCEPT ![1 - m.number] = clientBaselines[m.number]]
                         ELSE clientBaselines
      BY <1>3 DEF Baselines
    <3> QED BY <3>1, <3>2
  <2>5. Entered(m, s) = [serial |-> u.serial, vals |-> Merge(BaselineFor(bl[s], u.serial), u.vals)]
    BY <2>4, <1>3 DEF Entered
  <2>6. Entered(m, s) = Rec(g, s)
    BY <2>3, <2>5 DEF Rec
  <2>7. R = Rec(g, s)
    BY <2>6, <1>4, <1>7
  <2>8. s \in ReadTransmit(m, f.transmit)
    BY <1>5, <1>7
  <2>9. ~NeedsDestroy(s, f, g) /\ u.op # "delta"
    BY <1>6, <1>7
  <2> QED BY <2>6, <2>7, <2>8, <2>9, <1>7 DEF R
<1>8. CASE s \in g.transmit /\ s \in f.transmit /\ ~NeedsCreate(s, f, g) /\ u.op \in {"delta", "none"}
           /\ \/ u.op = "delta" /\ u.vals = SomeOf(g.ents[s].vals, Later(g.ents[s], f.tick))
              \/ u.op = "none" /\ (f.ents[s] = g.ents[s] \/ Later(g.ents[s], f.tick) = {})
  <2>1. PICK k \in a .. c : /\ k \in Past /\ s \in H[k].transmit /\ entities[s] = Rec(H[k], s)
                            /\ H[k].ents[s].serial = g.ents[s].serial
                            /\ SameSince(g.ents[s], H[k].ents[s], k)
    BY <1>f, <1>g, <1>8, KeptSlot
  <2>2. s \notin m.deletions
    BY <1>f, <1>g, <1>2, <1>8, KeptSlot
  <2>3. /\ k \in Nat /\ a <= k /\ H[k].ents[s].vals \in ValsType /\ entities[s] # NoEntity
    BY <2>1, FrameFacts
  <2>4. entities[s] = [serial |-> H[k].ents[s].serial, vals |-> H[k].ents[s].vals]
    BY <2>1 DEF Rec
  <2>5. /\ Merge(H[k].ents[s].vals, SomeOf(g.ents[s].vals, Later(g.ents[s], a))) = g.ents[s].vals
        /\ Later(g.ents[s], a) = {} => H[k].ents[s].vals = g.ents[s].vals
    BY <2>1, <2>3, <1>3, KeptValues
  <2>6. CASE u.op = "delta"
    <3>1. R = [entities[s] EXCEPT !.vals = Merge(@, u.vals)]
      BY <2>2, <2>6, <1>4
    <3>2. u.vals = SomeOf(g.ents[s].vals, Later(g.ents[s], a))
      BY <2>6, <1>3, <1>8
    <3>3. R = [serial |-> H[k].ents[s].serial, vals |-> Merge(H[k].ents[s].vals, u.vals)]
      BY <3>1, <2>4
    <3>4. R = Rec(g, s)
      BY <3>2, <3>3, <2>1, <2>5 DEF Rec
    <3> QED BY <3>4, <2>2, <2>3, <2>6, <1>5, <1>6, <1>8 DEF R
  <2>7. CASE u.op = "none"
    <3>1. R = entities[s]
      BY <2>2, <2>7, <1>4
    <3>2. Later(g.ents[s], a) = {}
      <4>1. CASE f.ents[s] = g.ents[s]
        <5>1. \A p \in Props : g.ents[s].changed[p] <= a /\ g.ents[s].changed[p] \in Nat
          BY <4>1, <1>3, <1>8 DEF NotAfter, PackedEntity
        <5> QED BY <5>1, <1>3 DEF Later
      <4> QED BY <4>1, <2>7, <1>3, <1>8
    <3>3. R = Rec(g, s)
      BY <3>1, <3>2, <2>1, <2>4, <2>5 DEF Rec
    <3> QED BY <3>3, <2>2, <2>3, <2>7, <1>5, <1>6, <1>8 DEF R
  <2> QED BY <1>8, <2>6, <2>7
<1>9. CASE s \notin g.transmit /\ (u.op \in {"delete", "leave"} \/ (u.op = "none" /\ s \notin f.transmit))
           /\ (u.op = "delete" => NeedsDestroy(s, f, g))
  <2>1. s \notin ReadTransmit(m, f.transmit)
    BY <1>5, <1>9
  <2>2. CASE u.op = "delete" \/ s \in m.deletions
    <3>1. R = NoEntity /\ NewIn(s, b, H)
      BY <2>2, <1>2, <1>4, <1>9
    <3> QED BY <3>1, <2>1, <1>9 DEF R
  <2>3. CASE u.op # "delete" /\ s \notin m.deletions
    <3>1. R = entities[s] /\ ~NeedsDestroy(s, f, g)
      BY <2>3, <1>2, <1>4, <1>9
    <3> QED BY <3>1, <2>1, <1>9 DEF R
  <2> QED BY <2>2, <2>3
<1>10. \/ s \in g.transmit /\ u.op = "enter" /\ u = EnterPVS(g.ents[s], BaselineFor(bl[s], g.ents[s].serial))
       \/ s \in g.transmit /\ s \in f.transmit /\ ~NeedsCreate(s, f, g) /\ u.op \in {"delta", "none"}
           /\ \/ u.op = "delta" /\ u.vals = SomeOf(g.ents[s].vals, Later(g.ents[s], f.tick))
              \/ u.op = "none" /\ (f.ents[s] = g.ents[s] \/ Later(g.ents[s], f.tick) = {})
       \/ s \notin g.transmit /\ (u.op \in {"delete", "leave"} \/ (u.op = "none" /\ s \notin f.transmit))
           /\ (u.op = "delete" => NeedsDestroy(s, f, g))
  BY ONLY <1>1, DeltaCases
<1> QED BY <1>7, <1>8, <1>9, <1>10

-----------------------------------------------------------------------------
(* Lists of messages.                                                      *)

\* Reading slot s of a full update.
LEMMA FullSlot ==
  ASSUME WorldTyped, NEW H, History(H), NEW b \in Past,
         NEW m, m.from = -1, m.frame.tick = b, WrittenFull(m, H), NEW s \in Slots, NEW u, u = m.bits[s]
  PROVE  /\ s \in ReadTransmit(m, {}) <=> s \in H[b].transmit
         /\ u.op = "enter" <=> s \in H[b].transmit
         /\ u.op # "delta"
         /\ s \in H[b].transmit => Entered(m, s) = Rec(H[b], s) /\ ReadEntity(m, s) = Rec(H[b], s)
         /\ s \notin H[b].transmit => ReadEntity(m, s) = NoEntity
<1>g. PICK g : g = H[b]
  OBVIOUS
<1> SUFFICES /\ s \in ReadTransmit(m, {}) <=> s \in g.transmit
             /\ u.op = "enter" <=> s \in g.transmit
             /\ u.op # "delta"
             /\ s \in g.transmit => Entered(m, s) = Rec(g, s) /\ ReadEntity(m, s) = Rec(g, s)
             /\ s \notin g.transmit => ReadEntity(m, s) = NoEntity
  BY <1>g
<1>1. u = FullUpdate(s, g) /\ m.deletions = {}
  BY <1>g DEF WrittenFull
<1>2. \/ s \in g.transmit /\ u = EnterPVS(g.ents[s], Zero) /\ u.op = "enter"
      \/ s \notin g.transmit /\ u.op = "none"
  BY ONLY <1>1, FullCases
<1>3. s \in ReadTransmit(m, {}) <=> u.op \in {"enter", "delta"}
  BY DEF ReadTransmit
<1>4. CASE s \in g.transmit
  <2>1. u = EnterPVS(g.ents[s], Zero) /\ u.op = "enter"
    BY <1>2, <1>4
  <2>2. g.ents[s].vals \in ValsType
    BY <1>g, FrameFacts
  <2>3. u.serial = g.ents[s].serial /\ Merge(Zero, u.vals) = g.ents[s].vals
    <3>1. Zero \in ValsType
      BY ZeroTyped DEF ValsType
    <3> QED BY <2>1, <2>2, <3>1, EnterRead
  <2>4. Entered(m, s) = [serial |-> u.serial, vals |-> Merge(Zero, u.vals)]
    BY DEF Entered
  <2>5. Entered(m, s) = Rec(g, s)
    BY <2>3, <2>4 DEF Rec
  <2>6. ReadEntity(m, s) = Entered(m, s)
    BY <2>1 DEF ReadEntity
  <2> QED BY <1>3, <1>4, <2>1, <2>5, <2>6
<1>5. CASE s \notin g.transmit
  <2>1. u.op = "none"
    BY <1>2, <1>5
  <2>2. ReadEntity(m, s) = NoEntity
    BY <2>1, <1>1 DEF ReadEntity
  <2> QED BY <1>3, <1>5, <2>1, <2>2
<1> QED BY <1>4, <1>5

\* The length and the domain of a list.
LEMMA ListFacts ==
  ASSUME NEW q, IsList(q)
  PROVE  Len(q) \in Nat /\ DOMAIN q = 1 .. Len(q) /\ (q = <<>> <=> Len(q) = 0)
<1>1. q \in Seq(ToSet(q))
  BY DEF IsList
<1> QED BY <1>1, LenProperties, EmptySeq

\* The empty list.
LEMMA EmptyList == IsList(<<>>) /\ Len(<<>>) = 0
BY EmptySeq DEF IsList

\* A sequence over any set is one over its own elements.
LEMMA OwnElements ==
  ASSUME NEW S, NEW q \in Seq(S)
  PROVE  IsList(q)
<1>1. q \in [1 .. Len(q) -> S] /\ Len(q) \in Nat /\ DOMAIN q = 1 .. Len(q)
  BY LenProperties
<1>2. \A i \in 1 .. Len(q) : q[i] \in ToSet(q)
  BY <1>1 DEF ToSet
<1>3. q \in [1 .. Len(q) -> ToSet(q)]
  BY <1>1, <1>2
<1>4. q \in UNION {[1 .. n -> ToSet(q)] : n \in Nat}
  BY <1>1, <1>3
<1> QED BY <1>4, SeqDef DEF IsList

\* A list without its first message.
LEMMA ListTail ==
  ASSUME NEW q, IsList(q), q # <<>>, NEW r, r = Tail(q)
  PROVE  /\ IsList(r) /\ Len(q) = Len(r) + 1 /\ Head(q) = q[1] /\ 1 \in DOMAIN q
         /\ \A i \in DOMAIN r : i + 1 \in DOMAIN q /\ r[i] = q[i + 1]
<1>1. q \in Seq(ToSet(q))
  BY DEF IsList
<1>2. r \in Seq(ToSet(q)) /\ Len(r) = Len(q) - 1 /\ \A i \in 1 .. Len(r) : r[i] = q[i + 1]
  BY <1>1, HeadTailProperties
<1>3. Len(q) \in Nat /\ DOMAIN q = 1 .. Len(q) /\ Len(q) # 0 /\ Len(r) \in Nat /\ DOMAIN r = 1 .. Len(r) /\ IsList(r)
  <2>1. IsList(r)
    BY <1>2, OwnElements
  <2> QED BY <2>1, ListFacts
<1> QED BY <1>1, <1>2, <1>3

\* r is q with m after it.
Longer(r, q, m) ==
  /\ IsList(r) /\ Len(r) = Len(q) + 1 /\ r # <<>> /\ r[Len(r)] = m
  /\ DOMAIN r = DOMAIN q \cup {Len(r)} /\ Len(r) \notin DOMAIN q
  /\ \A i \in DOMAIN q : i < Len(r) /\ r[i] = q[i]

\* A list with one more message.
LEMMA ListAppend ==
  ASSUME NEW q, IsList(q), NEW m, NEW r, r = Append(q, m)
  PROVE  Longer(r, q, m)
<1> DEFINE S == ToSet(q) \cup {m}
<1>1. q \in Seq(ToSet(q)) /\ ToSet(q) \subseteq S /\ m \in S
  BY DEF IsList
<1>2. q \in Seq(S)
  BY <1>1, SeqMonotonic
<1>3. r \in Seq(S) /\ Len(r) = Len(q) + 1 /\ r[Len(q) + 1] = m /\ \A i \in 1 .. Len(q) : r[i] = q[i]
  BY <1>1, <1>2, AppendProperties
<1>4. IsList(r)
  BY <1>3, OwnElements
<1>5. Len(q) \in Nat /\ DOMAIN q = 1 .. Len(q) /\ DOMAIN r = 1 .. Len(r) /\ (r = <<>> <=> Len(r) = 0)
  BY <1>4, ListFacts
<1>6. 1 .. Len(r) = 1 .. Len(q) \cup {Len(r)}
  BY <1>3, <1>5
<1> QED BY <1>3, <1>4, <1>5, <1>6 DEF Longer

\* The first two messages change places.
LEMMA ListSwap ==
  ASSUME NEW q, IsList(q), Len(q) > 1, NEW r, r = <<q[2], q[1]>> \o SubSeq(q, 3, Len(q))
  PROVE  /\ IsList(r) /\ Len(r) = Len(q) /\ r[1] = q[2] /\ r[2] = q[1]
         /\ \A i \in DOMAIN q : i \notin {1, 2} => r[i] = q[i]
<1> DEFINE S == ToSet(q)
           p == <<q[2], q[1]>>
           t == SubSeq(q, 3, Len(q))
<1>1. q \in Seq(S) /\ Len(q) \in Nat /\ DOMAIN q = 1 .. Len(q)
  BY ListFacts DEF IsList
<1>2. q[1] \in S /\ q[2] \in S
  BY <1>1, ElementOfSeq
<1>3. p \in Seq(S) /\ Len(p) = 2 /\ p[1] = q[2] /\ p[2] = q[1]
  BY <1>2
<1>4. t \in Seq(S) /\ Len(t) = Len(q) - 2 /\ \A i \in 1 .. Len(q) - 2 : t[i] = q[i + 2]
  BY <1>1
<1> HIDE DEF p, t, S
<1>5. /\ p \o t \in Seq(S) /\ Len(p \o t) = Len(p) + Len(t)
      /\ \A i \in 1 .. Len(p) + Len(t) : (p \o t)[i] = IF i <= Len(p) THEN p[i] ELSE t[i - Len(p)]
  <2>1. p \in Seq(S) /\ t \in Seq(S)
    BY <1>3, <1>4
  <2> QED BY ONLY <2>1, ConcatProperties
<1>6. r = p \o t /\ Len(p) + Len(t) = Len(q)
  BY <1>1, <1>3, <1>4 DEF p, t
<1>7. IsList(r)
  BY <1>5, <1>6, OwnElements
<1>8. \A i \in 1 .. Len(q) : r[i] = IF i <= 2 THEN p[i] ELSE t[i - 2]
  BY <1>3, <1>5, <1>6
<1>9. \A i \in 1 .. Len(q) : i \notin {1, 2} => r[i] = q[i]
  <2> SUFFICES ASSUME NEW i \in 1 .. Len(q), i \notin {1, 2}  PROVE  r[i] = q[i]
    OBVIOUS
  <2>1. i - 2 \in 1 .. Len(q) - 2 /\ (i - 2) + 2 = i /\ ~(i <= 2)
    BY <1>1
  <2> QED BY <2>1, <1>4, <1>8
<1>10. 1 \in 1 .. Len(q) /\ 2 \in 1 .. Len(q)
  BY <1>1
<1>11. r[1] = q[2] /\ r[2] = q[1]
  BY <1>3, <1>8, <1>10
<1>12. Len(r) = Len(q)
  BY <1>5, <1>6
<1> QED BY <1>1, <1>7, <1>9, <1>11, <1>12

-----------------------------------------------------------------------------
(* Steps that take no snapshot keep the history.                           *)

\* The server's side when the game does not run; frames may be dropped.
LEMMA HistorySame ==
  ASSUME WorldTyped, NEW H, History(H), UNCHANGED <<worldVars, tick>>, frames' \subseteq frames
  PROVE  WorldTyped' /\ History(H)'
<1>1. WorldTyped' /\ Past' = Past
  BY DEF WorldTyped, worldVars, Past
<1>2. \A s \in Slots : SlotOK(s, H)' /\ PackedOK(s, H)'
  BY <1>1 DEF History, SlotOK, PackedOK, worldVars
<1>3. Lasting(H)' /\ Unchanged(H)'
  BY <1>1 DEF History, Lasting, Unchanged
<1> QED BY <1>1, <1>2, <1>3 DEF History

\* A delta that is lost, or is not taken.
LEMMA DropSnapshot ==
  ASSUME NEW H, SnapInv(H), toClient # <<>>, Head(toClient).from # -1, toClient' = Tail(toClient),
         UNCHANGED <<clientVars, worldVars, tick, frames, sendVars, fullsSent, toServer>>
  PROVE  SnapInv(H)'
<1> DEFINE q == toClient
<1>r. PICK r : r = toClient'
  OBVIOUS
<1> USE DEF worldVars, clientVars, sendVars
<1>0. WorldTyped /\ History(H) /\ OrderInv /\ WaitInv /\ FullInv(H) /\ FramesInv(H) /\ SentInv(H) /\ ClientInv(H) /\ Typed
  BY DEF SnapInv
<1>1. /\ IsList(r) /\ Len(q) = Len(r) + 1 /\ Head(q) = q[1] /\ 1 \in DOMAIN q
      /\ \A i \in DOMAIN r : i + 1 \in DOMAIN q /\ r[i] = q[i + 1]
  BY <1>r, <1>0, ListTail DEF OrderInv, TicksTyped
<1>2. /\ Len(q) \in Nat /\ DOMAIN q = 1 .. Len(q) /\ Len(r) \in Nat /\ DOMAIN r = 1 .. Len(r)
      /\ r = <<>> <=> Len(r) = 0
  BY <1>0, <1>1, ListFacts DEF OrderInv, TicksTyped
<1>3. WorldTyped' /\ History(H)' /\ Past' = Past
  BY <1>0, HistorySame DEF Past
<1>4. TicksTyped'
  <2>1. \A i \in DOMAIN q : MessageTyped(q[i])
    BY <1>0 DEF OrderInv, TicksTyped
  <2>2. \A i \in DOMAIN r : MessageTyped(r[i])'
    BY <2>1, <1>1, <1>3 DEF MessageTyped
  <2> QED BY <2>2, <1>0, <1>1, <1>3, <1>r DEF OrderInv, TicksTyped, AnswerTyped
<1>5. SnapshotOrder' /\ AnswerOrder'
  <2>1. \A i, j \in DOMAIN r : i < j => i + 1 < j + 1
    BY <1>2
  <2>2. \A i, j \in DOMAIN r : i < j => r[i].frame.tick < r[j].frame.tick
    BY <2>1, <1>0, <1>1 DEF OrderInv, SnapshotOrder
  <2>3. \A i \in DOMAIN r : NewerThan(r[i].frame.tick)'
    BY <1>0, <1>1 DEF OrderInv, SnapshotOrder, NewerThan
  <2>4. AnswerOrder'
    BY <1>0 DEF OrderInv, AnswerOrder
  <2> QED BY <2>2, <2>3, <2>4, <1>r DEF SnapshotOrder
<1>6. WaitInv'
  <2>1. \A i \in DOMAIN r : r[i].from = -1 =>
          i = Len(r) /\ fullsSent = fullsRead + 1 /\ forceWait = r[i].frame.tick
    <3>1. \A i \in DOMAIN r : i + 1 = Len(q) => i = Len(r)
      BY <1>1, <1>2
    <3> QED BY <3>1, <1>0, <1>1 DEF WaitInv
  <2>2. fullsSent # fullsRead => r # <<>> /\ r[Len(r)].from = -1
    <3>1. ASSUME fullsSent # fullsRead
          PROVE  Len(r) \in DOMAIN r /\ r[Len(r)] = q[Len(q)]
      <4>1. q[Len(q)].from = -1
        BY <3>1, <1>0 DEF WaitInv
      <4>2. Len(q) # 1
        BY <4>1, <1>1
      <4>3. Len(r) \in 1 .. Len(r)
        BY <4>2, <1>1, <1>2
      <4> QED BY <4>3, <1>1, <1>2
    <3> QED BY <3>1, <1>0, <1>2 DEF WaitInv
  <2>3. toClient = <<>> => r = <<>>
    BY <1>0
  <2>4. \A j \in DOMAIN toServer : IsTick(toServer[j]) => TickWaits(toServer[j])'
    BY <1>0 DEF WaitInv, TickWaits
  <2> QED BY <2>1, <2>2, <2>3, <2>4, <1>0, <1>r DEF WaitInv
<1>7. FullInv(H)' /\ FramesInv(H)' /\ SentInv(H)'
  <2>1. FullInv(H)'
    BY <1>0, <1>1, <1>r DEF FullInv, WrittenFull
  <2> QED BY <2>1, <1>0, <1>3 DEF FramesInv, SentInv
<1>8. ClientInv(H)'
  <2> SUFFICES ASSUME clientTick # -1
               PROVE  ShownInv(H)' /\ KeptInv(H)' /\ DeltaInv(H)' /\ (fullsRead = fullsSent => SyncInv(H)')
    BY DEF ClientInv
  <2>0. ShownInv(H) /\ KeptInv(H) /\ DeltaInv(H) /\ (fullsRead = fullsSent => SyncInv(H))
    BY <1>0 DEF ClientInv
  <2>1. ShownInv(H)'
    BY <2>0 DEF ShownInv
  <2>2. Known' = Known
    BY DEF Known
  <2>3. \A t : Remembered(t, H)' = Remembered(t, H)
    BY DEF Remembered
  <2>4. \A i \in DOMAIN r : \A j \in 1 .. i : j + 1 \in 1 .. i + 1
    BY <1>2
  <2>5. KeptInv(H)'
    BY <2>0, <2>2, <2>3, <2>4, <1>1, <1>r, <1>2 DEF KeptInv
  <2>6. DeltaInv(H)'
    <3>1. \A i \in DOMAIN r : \A j \in 1 .. i - 1 : j + 1 \in 1 .. (i + 1) - 1 /\ j \in DOMAIN r
      BY <1>2
    <3> QED BY <3>1, <2>0, <1>1, <1>r DEF DeltaInv, WrittenDelta
  <2>7. ASSUME SyncInv(H) PROVE SyncInv(H)'
    BY <2>7, <1>1, <1>r DEF SyncInv
  <2> QED BY <2>0, <2>1, <2>5, <2>6, <2>7
<1>9. Typed'
  BY <1>0 DEF Typed
<1> QED BY <1>3, <1>4, <1>5, <1>6, <1>7, <1>8, <1>9 DEF SnapInv, OrderInv

-----------------------------------------------------------------------------
(* The client answers, or asks for a full update.                          *)

\* The Tick that the client sends now.
TickNow == [op |-> "tick", tick |-> clientTick, number |-> 0, read |-> fullsRead]

\* Only the messages to the server change: some are gone, Ticks of now are new, and the Ticks are in order.
LEMMA AnswersChange ==
  ASSUME NEW H, SnapInv(H), NEW r, r = toServer', IsList(r),
         \A i \in DOMAIN r : r[i] = TickNow \/ \E j \in DOMAIN toServer : r[i] = toServer[j],
         \A i, j \in DOMAIN r : i < j /\ IsTick(r[i]) /\ IsTick(r[j]) => InOrder(r[i], r[j]),
         UNCHANGED <<clientVars, worldVars, tick, frames, sendVars, fullsSent, toClient>>
  PROVE  SnapInv(H)'
<1> DEFINE q == toServer
<1> USE DEF worldVars, clientVars, sendVars
<1>0. WorldTyped /\ History(H) /\ OrderInv /\ WaitInv /\ FullInv(H) /\ FramesInv(H) /\ SentInv(H) /\ ClientInv(H) /\ Typed
  BY DEF SnapInv
<1>1. \A i \in DOMAIN r : r[i] = TickNow \/ \E j \in DOMAIN q : r[i] = q[j]
  OBVIOUS
<1>2. /\ TickNow.op = "tick" /\ TickNow.tick = clientTick /\ TickNow.number = 0 /\ TickNow.read = fullsRead
      /\ IsTick(TickNow)
  BY DEF TickNow, IsTick
<1>3. WorldTyped' /\ History(H)' /\ Past' = Past
  BY <1>0, HistorySame DEF Past
<1>4. TicksTyped'
  <2>1. \A j \in DOMAIN q : AnswerTyped(q[j])
    BY <1>0 DEF OrderInv, TicksTyped
  <2>2. AnswerTyped(TickNow)
    BY <1>2, <1>0 DEF AnswerTyped, OrderInv, TicksTyped, WaitInv
  <2>3. \A i \in DOMAIN r : AnswerTyped(r[i])
    BY <2>1, <2>2, <1>1
  <2>4. \A i \in DOMAIN r : AnswerTyped(r[i])'
    BY <2>3, <1>3 DEF AnswerTyped
  <2> QED BY <2>4, <1>0, <1>3 DEF OrderInv, TicksTyped, MessageTyped
<1>5. SnapshotOrder' /\ AnswerOrder'
  <2>1. ASSUME NEW t, NewerThan(t)
        PROVE  NewerThan(t)'
    <3>1. \A i \in DOMAIN r : r[i].tick < t
      BY <2>1, <1>1, <1>2 DEF NewerThan
    <3> QED BY <3>1, <2>1 DEF NewerThan
  <2>2. SnapshotOrder'
    BY <2>1, <1>0 DEF OrderInv, SnapshotOrder
  <2>3. clientTick # -1 => \A i \in DOMAIN r : r[i].tick <= clientTick
    <3>1. clientTick \in Int
      BY <1>0 DEF OrderInv, TicksTyped, Past
    <3> QED BY <3>1, <1>0, <1>1, <1>2 DEF OrderInv, AnswerOrder
  <2>4. AnswerOrder'
    BY <2>3 DEF AnswerOrder
  <2> QED BY <2>2, <2>4
<1>6. WaitInv'
  <2>1. TickWaits(TickNow)
    <3>0. clientTick \in {-1} \cup Past /\ forceWait \in {-1} \cup Past /\ tick \in Nat /\ fullsRead \in Nat /\ fullsSent \in Nat
      BY <1>0 DEF OrderInv, TicksTyped, WorldTyped, WaitInv
    <3>1. clientTick \in Int /\ forceWait \in Int
      BY <3>0 DEF Past
    <3>2. ASSUME fullsRead < fullsSent, forceWait # -1
          PROVE  clientTick < forceWait
      <4>1. toClient # <<>> /\ toClient[Len(toClient)].from = -1
        BY <3>0, <3>2, <1>0 DEF WaitInv
      <4>2. Len(toClient) \in DOMAIN toClient
        BY <4>1, <1>0, ListFacts DEF OrderInv, TicksTyped
      <4>3. forceWait = toClient[Len(toClient)].frame.tick /\ clientTick < toClient[Len(toClient)].frame.tick
        BY <4>1, <4>2, <1>0 DEF WaitInv, OrderInv, SnapshotOrder, NewerThan
      <4> QED BY <4>3
    <3> QED BY <3>0, <3>1, <3>2, <1>0, <1>2 DEF WaitInv, TickWaits
  <2>2. \A i \in DOMAIN r : IsTick(r[i]) => TickWaits(r[i])
    BY <2>1, <1>0, <1>1 DEF WaitInv
  <2>3. \A i \in DOMAIN r : IsTick(r[i]) => TickWaits(r[i])'
    BY <2>2 DEF TickWaits
  <2> QED BY <2>3, <1>0 DEF WaitInv
<1>7. FullInv(H)' /\ FramesInv(H)' /\ SentInv(H)'
  BY <1>0, <1>3 DEF FullInv, WrittenFull, FramesInv, SentInv
<1>8. ClientInv(H)'
  <2> SUFFICES ASSUME clientTick # -1
               PROVE  ShownInv(H)' /\ KeptInv(H)' /\ DeltaInv(H)' /\ (fullsRead = fullsSent => SyncInv(H)')
    BY DEF ClientInv
  <2>0. ShownInv(H) /\ KeptInv(H) /\ DeltaInv(H) /\ (fullsRead = fullsSent => SyncInv(H))
    BY <1>0 DEF ClientInv
  <2>1. ShownInv(H)'
    BY <2>0 DEF ShownInv
  <2>2. Known' \subseteq Known
    <3>1. \A i \in DOMAIN r : IsTick(r[i]) /\ r[i].read = fullsRead => r[i].tick \in Known
      BY <1>1, <1>2 DEF Known
    <3>2. \A t \in Known' : t \in Known
      BY <3>1 DEF Known
    <3> QED BY <3>2
  <2>3. \A t : Remembered(t, H)' = Remembered(t, H)
    BY DEF Remembered
  <2>5. KeptInv(H)'
    BY <2>0, <2>2, <2>3 DEF KeptInv
  <2>6. DeltaInv(H)'
    BY <2>0 DEF DeltaInv, WrittenDelta
  <2>7. ASSUME SyncInv(H) PROVE SyncInv(H)'
    <3> DEFINE B == clientBaselines[1 - baselineUsed] =
                      [s \in Slots |-> IF s \in baselinesSent THEN Rec(H[baselineTick], s) ELSE baseline[s]]
    <3>1. ASSUME NEW i \in DOMAIN r, r[i].op = "baseline", r[i].tick = baselineTick, r[i].number = baselineUsed
          PROVE  B
      <4>1. \E j \in DOMAIN q : r[i] = q[j]
        BY <3>1, <1>1, <1>2
      <4> QED BY <4>1, <3>1, <2>7 DEF SyncInv
    <3> QED BY <3>1, <2>7 DEF SyncInv
  <2> QED BY <2>0, <2>1, <2>5, <2>6, <2>7
<1>9. Typed'
  BY <1>0 DEF Typed
<1> QED BY <1>3, <1>4, <1>5, <1>6, <1>7, <1>8, <1>9 DEF SnapInv, OrderInv

\* The three steps that change no more than that.
LEMMA AnswerSteps ==
  ASSUME NEW H, SnapInv(H), SendTick \/ LoseTick \/ ResendBaselineAck
  PROVE  SnapInv(H)'
<1> DEFINE q == toServer
<1>r. PICK r : r = toServer'
  OBVIOUS
<1>0. OrderInv /\ WaitInv /\ IsList(q) /\ Len(q) \in Nat /\ DOMAIN q = 1 .. Len(q)
  BY ListFacts DEF SnapInv, OrderInv, TicksTyped
<1>1. UNCHANGED <<clientVars, worldVars, tick, frames, sendVars, fullsSent, toClient>>
  BY DEF SendTick, LoseTick, ResendBaselineAck
<1>2. \A i, j \in DOMAIN q : i < j /\ IsTick(q[i]) /\ IsTick(q[j]) => InOrder(q[i], q[j])
  BY <1>0 DEF OrderInv, AnswerOrder
<1> SUFFICES /\ IsList(r)
             /\ \A i \in DOMAIN r : r[i] = TickNow \/ \E j \in DOMAIN toServer : r[i] = toServer[j]
             /\ \A i, j \in DOMAIN r : i < j /\ IsTick(r[i]) /\ IsTick(r[j]) => InOrder(r[i], r[j])
  BY <1>r, <1>1, AnswersChange
<1>3. CASE SendTick
  <2>1. r = Append(q, TickNow)
    BY <1>r, <1>3 DEF SendTick, TickNow
  <2>2. /\ IsList(r) /\ Len(r) = Len(q) + 1 /\ r[Len(r)] = TickNow
        /\ DOMAIN r = DOMAIN q \cup {Len(r)} /\ Len(r) \notin DOMAIN q
        /\ \A i \in DOMAIN q : i < Len(r) /\ r[i] = q[i]
    <3>1. PICK m : m = TickNow
      OBVIOUS
    <3>2. r = Append(q, m)
      BY <2>1, <3>1
    <3>3. Longer(r, q, m)
      BY <3>2, <1>0, ListAppend
    <3> QED BY ONLY <3>1, <3>3 DEF Longer
  <2>3. \A i \in DOMAIN q : IsTick(q[i]) => InOrder(q[i], TickNow)
    BY <1>0 DEF WaitInv, TickWaits, OrderInv, AnswerOrder, InOrder, TickNow
  <2>4. ASSUME NEW i \in DOMAIN r, NEW j \in DOMAIN r, i < j, IsTick(r[i]), IsTick(r[j])
        PROVE  InOrder(r[i], r[j])
    <3>1. i \in DOMAIN q
      BY <2>2, <2>4, <1>0
    <3>2. CASE j \in DOMAIN q
      BY <3>1, <3>2, <2>2, <2>4, <1>2
    <3>3. CASE j = Len(r)
      BY <3>1, <3>3, <2>2, <2>3, <2>4
    <3> QED BY <3>2, <3>3, <2>2
  <2> QED BY <2>2, <2>4
<1>4. CASE LoseTick
  <2>1. q # <<>> /\ r = Tail(q)
    BY <1>r, <1>4 DEF LoseTick
  <2>2. IsList(r) /\ \A i \in DOMAIN r : i + 1 \in DOMAIN q /\ r[i] = q[i + 1]
    BY <2>1, <1>0, ListTail
  <2>3. DOMAIN r = 1 .. Len(r) /\ Len(r) \in Nat
    BY <2>2, ListFacts
  <2>4. \A i, j \in DOMAIN r : i < j => i + 1 < j + 1
    BY <2>3
  <2> QED BY <2>2, <2>4, <1>2
<1>5. CASE ResendBaselineAck
  <2>1. Len(q) > 1 /\ q[1].op = "baseline" /\ r = <<q[2], q[1]>> \o SubSeq(q, 3, Len(q))
    BY <1>r, <1>5 DEF ResendBaselineAck
  <2>2. /\ IsList(r) /\ Len(r) = Len(q) /\ r[1] = q[2] /\ r[2] = q[1]
        /\ \A i \in DOMAIN q : i \notin {1, 2} => r[i] = q[i]
    BY <2>1, <1>0, ListSwap
  <2>3. DOMAIN r = DOMAIN q /\ 1 \in DOMAIN q /\ 2 \in DOMAIN q /\ ~IsTick(q[1])
    BY <2>1, <2>2, <1>0, ListFacts DEF IsTick
  <2>4. \A i \in DOMAIN r : \E j \in DOMAIN q : r[i] = q[j]
    BY <2>2, <2>3
  <2>5. ASSUME NEW i \in DOMAIN r, NEW j \in DOMAIN r, i < j, IsTick(r[i]), IsTick(r[j])
        PROVE  InOrder(r[i], r[j])
    <3>1. i # 2 /\ j # 2
      BY <2>2, <2>3, <2>5
    <3>2. j # 1 /\ j \notin {1, 2} /\ r[j] = q[j]
      BY <3>1, <2>2, <2>3, <2>5, <1>0
    <3>3. CASE i = 1
      <4>1. 2 < j /\ r[i] = q[2]
        BY <3>2, <3>3, <2>2, <2>3, <2>5, <1>0
      <4> QED BY <4>1, <3>2, <2>3, <2>5, <1>2
    <3>4. CASE i # 1
      BY <3>1, <3>2, <3>4, <2>2, <2>3, <2>5, <1>2
    <3> QED BY <3>3, <3>4
  <2> QED BY <2>2, <2>4, <2>5
<1> QED BY <1>3, <1>4, <1>5

\* The client asks for a full update: what it has is of no more use.
LEMMA ForceStep ==
  ASSUME NEW H, SnapInv(H), ForceFullUpdate
  PROVE  SnapInv(H)'
<1> USE DEF worldVars, sendVars, networkVars
<1>0. WorldTyped /\ History(H) /\ OrderInv /\ WaitInv /\ FullInv(H) /\ FramesInv(H) /\ SentInv(H) /\ ClientInv(H) /\ Typed
  BY DEF SnapInv
<1>1. /\ clientTick # -1 /\ requests < MaxRequests /\ requests' = requests + 1 /\ clientTick' = -1
      /\ clientBaselines' = NoBaselines
      /\ UNCHANGED <<entities, clientFrames, fullsRead, shown, world, lastPacked, changes, tick, frames,
           deltaTick, forceWait, baseline, baselineUsed, baselineTick, baselinesSent, fullsSent, toClient, toServer>>
  BY DEF ForceFullUpdate
<1>3. WorldTyped' /\ History(H)' /\ Past' = Past
  BY <1>0, <1>1, HistorySame DEF Past
<1>4. TicksTyped'
  BY <1>0, <1>1, <1>3 DEF OrderInv, TicksTyped, MessageTyped, AnswerTyped
<1>5. SnapshotOrder' /\ AnswerOrder'
  <2>1. \A i \in DOMAIN toClient : -1 < toClient[i].frame.tick
    BY <1>0 DEF OrderInv, TicksTyped, MessageTyped, WorldTyped, Past
  <2> QED BY <2>1, <1>0, <1>1 DEF OrderInv, SnapshotOrder, NewerThan, AnswerOrder
<1>6. WaitInv'
  BY <1>0, <1>1 DEF WaitInv, TickWaits
<1>7. FullInv(H)' /\ FramesInv(H)' /\ SentInv(H)' /\ ClientInv(H)'
  BY <1>0, <1>1, <1>3 DEF FullInv, WrittenFull, FramesInv, SentInv, ClientInv
<1>8. NoBaselines \in [{0, 1} -> [Slots -> EntityOf]]
  BY ZeroTyped, ClassAssumption DEF NoBaselines, NoBaseline, NoEntity, EntityOf
<1>9. Typed'
  <2>1. tick \in Nat /\ MaxTick \in Nat /\ MaxRequests \in Nat /\ requests \in 0 .. MaxRequests
    BY <1>0, BoundsAssumption DEF WorldTyped, Typed
  <2>2. requests' \in 0 .. MaxRequests /\ tick <= MaxTick + requests' + 1 /\ tick <= MaxTick + requests'
    BY <2>1, <1>0, <1>1 DEF Typed
  <2> QED BY <2>2, <1>0, <1>1, <1>8 DEF Typed
<1> QED BY <1>3, <1>4, <1>5, <1>6, <1>7, <1>9 DEF SnapInv, OrderInv

-----------------------------------------------------------------------------
(* The server reads a Tick.                                                *)

\* The server takes the first message of the client; what it keeps for writing may change.
LEMMA ServerReceives ==
  ASSUME NEW H, SnapInv(H), toServer # <<>>, toServer' = Tail(toServer), frames' \subseteq frames,
         UNCHANGED <<clientVars, worldVars, tick, fullsSent, toClient>>,
         deltaTick' \in {-1} \cup Past, forceWait' \in {-1} \cup Past, baselineTick' \in {-1} \cup Past,
         baselineUsed' \in {0, 1}, baselinesSent' \subseteq Slots, baseline' \in [Slots -> EntityOf],
         WaitInv', FullInv(H)', SentInv(H)',
         clientTick # -1 => Known' \subseteq Known /\ (fullsRead = fullsSent => SyncInv(H)')
  PROVE  SnapInv(H)'
<1> DEFINE q == toServer
<1> USE DEF worldVars, clientVars
<1>r. PICK r : r = toServer'
  OBVIOUS
<1>0. WorldTyped /\ History(H) /\ OrderInv /\ FramesInv(H) /\ ClientInv(H) /\ Typed
  BY DEF SnapInv
<1>1. /\ IsList(r) /\ Len(q) = Len(r) + 1
      /\ \A i \in DOMAIN r : i + 1 \in DOMAIN q /\ r[i] = q[i + 1]
  BY <1>r, <1>0, ListTail DEF OrderInv, TicksTyped
<1>2. Len(r) \in Nat /\ DOMAIN r = 1 .. Len(r)
  BY <1>1, ListFacts
<1>3. WorldTyped' /\ History(H)' /\ Past' = Past
  BY <1>0, HistorySame DEF Past
<1>4. TicksTyped'
  <2>1. \A j \in DOMAIN r : AnswerTyped(r[j])'
    BY <1>0, <1>1, <1>3 DEF OrderInv, TicksTyped, AnswerTyped
  <2> QED BY <2>1, <1>r, <1>0, <1>1, <1>3 DEF OrderInv, TicksTyped, MessageTyped
<1>5. SnapshotOrder' /\ AnswerOrder'
  <2>1. ASSUME NEW t, NewerThan(t)
        PROVE  NewerThan(t)'
    BY <2>1, <1>r, <1>1 DEF NewerThan
  <2>2. SnapshotOrder'
    BY <2>1, <1>0 DEF OrderInv, SnapshotOrder
  <2>3. \A i, j \in DOMAIN r : i < j => i + 1 < j + 1
    BY <1>2
  <2>4. AnswerOrder'
    BY <2>3, <1>r, <1>0, <1>1 DEF OrderInv, AnswerOrder
  <2> QED BY <2>2, <2>4
<1>6. FramesInv(H)'
  BY <1>0, <1>3 DEF FramesInv
<1>7. ClientInv(H)'
  <2> SUFFICES ASSUME clientTick # -1
               PROVE  ShownInv(H)' /\ KeptInv(H)' /\ DeltaInv(H)' /\ (fullsRead = fullsSent => SyncInv(H)')
    BY DEF ClientInv
  <2>0. ShownInv(H) /\ KeptInv(H) /\ DeltaInv(H)
    BY <1>0 DEF ClientInv
  <2>1. ShownInv(H)'
    BY <2>0 DEF ShownInv
  <2>3. \A t : Remembered(t, H)' = Remembered(t, H)
    BY DEF Remembered
  <2>5. KeptInv(H)'
    BY <2>0, <2>3 DEF KeptInv
  <2>6. DeltaInv(H)'
    BY <2>0 DEF DeltaInv, WrittenDelta
  <2> QED BY <2>1, <2>5, <2>6
<1>8. IsFiniteSet(frames') /\ Cardinality(frames') <= MaxFrames
  <2>1. IsFiniteSet(frames) /\ Cardinality(frames) <= MaxFrames
    BY <1>0 DEF Typed
  <2>2. IsFiniteSet(frames') /\ Cardinality(frames') <= Cardinality(frames)
    BY <2>1, FS_Subset
  <2>3. Cardinality(frames) \in Nat /\ Cardinality(frames') \in Nat /\ MaxFrames \in Nat
    BY <2>1, <2>2, FS_CardinalityType, FramesAssumption
  <2> QED BY <2>1, <2>2, <2>3
<1>9. Typed'
  BY <1>0, <1>8 DEF Typed
<1> QED BY <1>3, <1>4, <1>5, <1>6, <1>7, <1>9 DEF SnapInv, OrderInv

\* A Tick is taken.  It is neither for a frame that was not sent nor for one before the delta tick.
LEMMA TickStep ==
  ASSUME NEW H, SnapInv(H), NEW other \in BOOLEAN, ReceiveTick(other)
  PROVE  SnapInv(H)' /\ failures' = failures
<1> DEFINE q == toServer
<1>r. PICK r : r = toServer'
  OBVIOUS
<1>m. PICK m : m = Head(toServer)
  OBVIOUS
<1>n. PICK t, n : t = m.tick /\ n = m.read
  OBVIOUS
<1>0. /\ WorldTyped /\ OrderInv /\ WaitInv /\ FullInv(H) /\ SentInv(H) /\ ClientInv(H) /\ Typed
      /\ tick \in Nat
  BY DEF SnapInv, WorldTyped
<1>1. /\ q # <<>> /\ m.op = "tick" /\ r = Tail(q)
      /\ frames' = IF t # deltaTick /\ t > 0 THEN {f \in frames : f.tick >= t} ELSE frames
      /\ IF forceWait > 0 THEN AckWhileWaiting(t, n, other) ELSE AckOfDelta(t)
      /\ UNCHANGED <<worldVars, tick, fullsSent, clientVars, toClient>>
  BY <1>r, <1>m, <1>n DEF ReceiveTick
<1>2. /\ IsList(r) /\ Len(q) = Len(r) + 1 /\ m = q[1] /\ 1 \in DOMAIN q
      /\ \A i \in DOMAIN r : i + 1 \in DOMAIN q /\ r[i] = q[i + 1]
  BY <1>m, <1>1, <1>0, ListTail DEF OrderInv, TicksTyped
<1>3. /\ t \in {-1} \cup Past /\ n \in Nat /\ IsTick(m)
      /\ n <= fullsRead
      /\ n = fullsRead /\ t = -1 => clientTick = -1
      /\ forceWait = -1 => n = fullsSent /\ (t # -1 => deltaTick <= t)
      /\ forceWait # -1 /\ n < fullsSent => t < forceWait
      /\ forceWait # -1 /\ n = fullsSent => t \in {-1, forceWait}
      /\ clientTick # -1 => t <= clientTick
      /\ \A i \in DOMAIN toClient : t < toClient[i].frame.tick
  <2>1. AnswerTyped(m) /\ IsTick(m) /\ TickWaits(m)
    BY <1>0, <1>1, <1>2 DEF OrderInv, TicksTyped, WaitInv, IsTick
  <2>2. t \in {-1} \cup Past /\ n \in Nat
    BY <2>1, <1>n DEF AnswerTyped
  <2>3. /\ clientTick # -1 => t <= clientTick
        /\ \A i \in DOMAIN toClient : t < toClient[i].frame.tick
    BY <1>n, <1>2, <1>0 DEF OrderInv, AnswerOrder, SnapshotOrder, NewerThan
  <2> QED BY <2>1, <2>2, <2>3, <1>n DEF TickWaits
<1>4. /\ forceWait \in Int /\ (forceWait = -1 \/ forceWait > 0) /\ deltaTick \in Int /\ t \in Int
      /\ (t = -1 \/ t > 0) /\ (deltaTick = -1 \/ deltaTick > 0)
      /\ forceWait \in {-1} \cup Past /\ deltaTick \in {-1} \cup Past /\ baselineTick \in {-1} \cup Past
      /\ baselineTick \in Int
  BY <1>0, <1>3 DEF OrderInv, TicksTyped, Past
<1>5. fullsRead \in Nat /\ fullsSent \in Nat /\ fullsSent \in {fullsRead, fullsRead + 1}
  <2>1. fullsSent # fullsRead => Len(toClient) \in DOMAIN toClient
    <3>1. Len(toClient) \in Nat /\ DOMAIN toClient = 1 .. Len(toClient) /\ (toClient = <<>> <=> Len(toClient) = 0)
      BY <1>0, ListFacts DEF OrderInv, TicksTyped
    <3> QED BY <3>1, <1>0 DEF WaitInv
  <2> QED BY <2>1, <1>0 DEF WaitInv
<1>6. forceWait = -1 \/ fullsSent = fullsRead => \A i \in DOMAIN toClient : toClient[i].from # -1
  <2>1. \A i \in DOMAIN toClient : toClient[i].frame.tick \in Past
    BY <1>0 DEF OrderInv, TicksTyped, MessageTyped
  <2>2. -1 \notin Past
    BY DEF Past
  <2> QED BY <2>1, <2>2, <1>5, <1>0 DEF WaitInv
<1>7. \A i \in DOMAIN r : IsTick(r[i]) => /\ TickWaits(r[i]) /\ n <= r[i].read
                                         /\ (r[i].tick # -1 => t <= r[i].tick)
                                         /\ r[i].read \in Nat /\ r[i].tick \in {-1} \cup Past
  <2>1. \A i \in DOMAIN r : 1 < i + 1
    BY <1>2, ListFacts
  <2>2. \A i \in DOMAIN r : IsTick(r[i]) => TickWaits(r[i]) /\ InOrder(m, r[i]) /\ AnswerTyped(r[i])
    BY <2>1, <1>0, <1>2, <1>3 DEF WaitInv, OrderInv, AnswerOrder, TicksTyped
  <2> QED BY <2>2, <1>n DEF InOrder, AnswerTyped
<1>8. frames' \subseteq frames
  BY <1>1
<1>9. \A i \in DOMAIN r : IsTick(r[i]) /\ r[i].read = fullsRead => r[i].tick \in Known
  BY <1>2 DEF Known
\* What is left of the proof, when it is known what the server keeps for writing.
<1>10. ASSUME deltaTick' \in {-1} \cup Past, forceWait' \in {-1} \cup Past,
              baselineTick' = baselineTick \/ baselineTick' = -1,
              UNCHANGED <<baseline, baselineUsed, baselinesSent>> \/
                (baseline' = NoBaseline /\ baselineUsed' = 0 /\ baselinesSent' = {} /\ clientTick = -1),
              (\A i \in DOMAIN toClient : toClient[i].from # -1) \/ UNCHANGED <<baseline, baselineUsed, baselinesSent, baselineTick>>,
              baselineTick' # baselineTick => clientTick = -1 \/ \A i \in DOMAIN toClient : ~toClient[i].update,
              \A i \in DOMAIN toClient : toClient[i].from = -1 => forceWait' = toClient[i].frame.tick,
              \A i \in DOMAIN r : IsTick(r[i]) => TickWaits(r[i])',
              forceWait' = -1 => /\ fullsSent = fullsRead
                                 /\ deltaTick' = -1 => clientTick = -1
                                 /\ clientTick # -1 => deltaTick' <= clientTick,
              forceWait' # -1 => forceWait' = forceWait,
              clientTick # -1 /\ forceWait' = -1 => deltaTick' \in Known
       PROVE  SnapInv(H)'
  <2>1. UNCHANGED <<clientVars, worldVars, tick, fullsSent, toClient>>
    BY <1>1
  <2>2. UNCHANGED <<clientTick, fullsRead, clientFrames, entities, shown, clientBaselines, requests>>
    BY <1>1 DEF clientVars
  <2>3. WaitInv'
    BY <2>1, <2>2, <1>0, <1>10, <1>r DEF WaitInv
  <2>4. FullInv(H)'
    BY <2>1, <2>2, <1>0, <1>10 DEF FullInv, WrittenFull
  <2>5. SentInv(H)'
    BY <1>0, <1>10 DEF SentInv
  <2>6. ASSUME clientTick # -1 PROVE Known' \subseteq Known
    <3>1. \A k \in Known' : k \in Known
      BY <2>2, <2>6, <1>9, <1>10, <1>r DEF Known
    <3> QED BY <3>1
  <2>7. ASSUME clientTick # -1, fullsRead = fullsSent PROVE SyncInv(H)'
    <3>1. SyncInv(H) /\ UNCHANGED <<baseline, baselineUsed, baselinesSent>>
      BY <2>7, <1>0, <1>10 DEF ClientInv
    <3>2. \A j \in DOMAIN r : r[j].op = "baseline" => r[j].tick # -1
      BY <1>0, <1>2 DEF OrderInv, TicksTyped, AnswerTyped, Past
    <3> QED BY <3>1, <3>2, <2>1, <2>2, <2>7, <1>2, <1>10, <1>r DEF SyncInv
  <2>8. baselineUsed' \in {0, 1} /\ baselinesSent' \subseteq Slots /\ baseline' \in [Slots -> EntityOf]
    <3>1. NoBaseline \in [Slots -> EntityOf]
      BY ZeroTyped, ClassAssumption DEF NoBaseline, NoEntity, EntityOf
    <3> QED BY <3>1, <1>0, <1>10 DEF Typed
  <2>9. baselineTick' \in {-1} \cup Past
    BY <1>4, <1>10
  <2> QED BY <2>1, <2>3, <2>4, <2>5, <2>6, <2>7, <2>8, <2>9, <1>1, <1>8, <1>10, <1>r, ServerReceives
<1>11. UNCHANGED <<clientTick, fullsRead, fullsSent>>
  BY <1>1 DEF clientVars
\* The Tick has no effect.
<1>12. ASSUME Ignore
       PROVE  SnapInv(H)'
  <2>1. UNCHANGED sendVars
    BY <1>12 DEF Ignore
  <2>2. \A i \in DOMAIN r : IsTick(r[i]) => TickWaits(r[i])'
    BY <2>1, <1>7, <1>11 DEF TickWaits, sendVars
  <2> QED BY <2>1, <2>2, <1>0, <1>4, <1>10 DEF sendVars, WaitInv, Known
\* A full update is requested when the client waits for one.
<1>13. ASSUME RequestFull, forceWait' = -1, clientTick = -1, fullsSent = fullsRead, n = fullsSent
       PROVE  SnapInv(H)'
  <2>1. deltaTick' = -1 /\ baseline' = NoBaseline /\ baselineUsed' = 0 /\ baselineTick' = -1 /\ baselinesSent' = {}
    BY <1>13 DEF RequestFull, FreshBaseline
  <2>2. \A i \in DOMAIN r : IsTick(r[i]) => TickWaits(r[i])'
    <3> SUFFICES ASSUME NEW i \in DOMAIN r, IsTick(r[i]) PROVE TickWaits(r[i])'
      OBVIOUS
    <3>1. r[i].read <= fullsRead /\ n <= r[i].read /\ r[i].read \in Nat /\ r[i].tick \in {-1} \cup Past
      BY <1>7 DEF TickWaits
    <3>2. r[i].read = fullsSent
      BY <3>1, <1>5, <1>13
    <3>3. r[i].tick # -1 => -1 <= r[i].tick
      BY <3>1 DEF Past
    <3> QED BY <3>2, <3>3, <2>1, <1>11, <1>13, <3>1 DEF TickWaits
  <2> QED BY <2>1, <2>2, <1>6, <1>10, <1>13
\* The tick is taken as the delta tick.
<1>14. ASSUME Acknowledge(t), t # -1, forceWait' = -1, fullsSent = fullsRead, n = fullsSent
       PROVE  SnapInv(H)'
  <2>1. /\ deltaTick' = t /\ UNCHANGED <<baseline, baselineUsed, baselinesSent>>
        /\ baselineTick' = IF baselineTick > -1 /\ t > baselineTick THEN -1 ELSE baselineTick
    BY <1>14 DEF Acknowledge, BaselineTickAfter
  <2>2. \A i \in DOMAIN r : IsTick(r[i]) => TickWaits(r[i])'
    <3> SUFFICES ASSUME NEW i \in DOMAIN r, IsTick(r[i]) PROVE TickWaits(r[i])'
      OBVIOUS
    <3>1. /\ r[i].read <= fullsRead /\ n <= r[i].read /\ r[i].read \in Nat
          /\ r[i].tick # -1 => t <= r[i].tick
          /\ r[i].read = fullsRead /\ r[i].tick = -1 => clientTick = -1
      BY <1>7 DEF TickWaits
    <3>2. r[i].read = fullsSent
      BY <3>1, <1>5, <1>14
    <3> QED BY <3>1, <3>2, <2>1, <1>11, <1>14 DEF TickWaits
  <2>3. t \in Known
    BY <1>1, <1>2, <1>3, <1>n, <1>14 DEF Known
  <2>4. ASSUME baselineTick' # baselineTick, clientTick # -1
        PROVE  \A i \in DOMAIN toClient : ~toClient[i].update
    <3>1. SyncInv(H)
      BY <2>4, <1>0, <1>14 DEF ClientInv
    <3>2. t > baselineTick
      BY <2>1, <2>4
    <3>3. \A i \in DOMAIN toClient : toClient[i].update => t < baselineTick
      BY <3>1, <1>3 DEF SyncInv
    <3> QED BY <3>2, <3>3, <1>4
  <2>5. deltaTick' \in {-1} \cup Past /\ (baselineTick' = baselineTick \/ baselineTick' = -1)
    BY <2>1, <1>3
  <2>6. \A i \in DOMAIN toClient : toClient[i].from # -1
    BY <1>6, <1>14
  <2>7. clientTick # -1 => deltaTick' <= clientTick
    BY <2>1, <1>3
  <2> QED BY <2>1, <2>2, <2>3, <2>4, <2>5, <2>6, <2>7, <1>10, <1>14
\* The client has asked for a full update before the one on its way has come.
<1>15. ASSUME Acknowledge(-1), forceWait # -1, forceWait' = forceWait
       PROVE  SnapInv(H)'
  <2>1. /\ deltaTick' = -1 /\ UNCHANGED <<baseline, baselineUsed, baselinesSent>>
        /\ baselineTick' = baselineTick
    BY <1>4, <1>15 DEF Acknowledge, BaselineTickAfter
  <2>2. \A i \in DOMAIN r : IsTick(r[i]) => TickWaits(r[i])'
    BY <2>1, <1>7, <1>11, <1>15 DEF TickWaits
  <2> QED BY <2>1, <2>2, <1>0, <1>4, <1>10, <1>15 DEF WaitInv
<1>16. CASE forceWait > 0
  <2>0. forceWait # -1
    BY <1>4, <1>16
  <2>1. AckWhileWaiting(t, n, other)
    BY <1>1, <1>16
  <2>2. ~(t > forceWait)
    BY <2>0, <1>3, <1>4, <1>5, <1>16
  <2>3. CASE t \in 0 .. forceWait - 1 /\ Ignore /\ UNCHANGED failures
    BY <2>3, <1>12
  <2>4. CASE t = forceWait /\ forceWait' = -1 /\ Acknowledge(t) /\ UNCHANGED failures
    <3>1. n = fullsSent /\ fullsSent = fullsRead
      BY <2>0, <2>4, <1>3, <1>4, <1>5
    <3> QED BY <3>1, <2>0, <2>4, <1>14
  <2>5. CASE t = -1 /\ ForcedAgain(t, n, other) /\ forceWait' = -1 /\ RequestFull /\ UNCHANGED failures
    <3>1. ~(n < fullsSent)
      BY <2>5 DEF ForcedAgain, Pending
    <3>2. n = fullsSent /\ fullsSent = fullsRead /\ clientTick = -1
      BY <3>1, <2>5, <1>3, <1>5
    <3> QED BY <3>2, <2>5, <1>13
  <2>6. CASE t = -1 /\ ~ForcedAgain(t, n, other) /\ UNCHANGED forceWait /\ Acknowledge(t) /\ UNCHANGED failures
    BY <2>0, <2>6, <1>15
  <2> QED BY <2>1, <2>2, <2>3, <2>4, <2>5, <2>6 DEF AckWhileWaiting
<1>17. CASE ~(forceWait > 0)
  <2>0. forceWait = -1 /\ fullsSent = fullsRead /\ n = fullsSent
    BY <1>0, <1>3, <1>4, <1>17 DEF WaitInv
  <2>1. AckOfDelta(t)
    BY <1>1, <1>17
  <2>2. UNCHANGED forceWait
    BY <2>1 DEF AckOfDelta
  <2>3. CASE deltaTick = -1 /\ Ignore /\ UNCHANGED failures
    BY <2>3, <1>12
  <2>4. CASE deltaTick # -1 /\ t = -1 /\ RequestFull /\ UNCHANGED failures
    <3>1. clientTick = -1
      BY <2>0, <2>4, <1>3
    <3> QED BY <3>1, <2>0, <2>2, <2>4, <1>13
  <2>5. ~(t # -1 /\ deltaTick > t)
    BY <2>0, <1>3, <1>4
  <2>6. CASE deltaTick # -1 /\ t >= deltaTick /\ Acknowledge(t) /\ UNCHANGED failures
    <3>1. t # -1
      BY <2>6, <1>4
    <3> QED BY <3>1, <2>0, <2>2, <2>6, <1>14
  <2> QED BY <2>1, <2>3, <2>4, <2>5, <2>6 DEF AckOfDelta
<1> QED BY <1>16, <1>17

-----------------------------------------------------------------------------
(* The server reads the acknowledgement of a baseline.                     *)

\* The entities sent from a baseline become the new baseline: the client has made the same one.
LEMMA BaselineStep ==
  ASSUME NEW H, SnapInv(H), ReceiveBaselineAck
  PROVE  SnapInv(H)'
<1> DEFINE q == toServer
<1>r. PICK r : r = toServer'
  OBVIOUS
<1>m. PICK m : m = Head(toServer)
  OBVIOUS
<1>0. WorldTyped /\ History(H) /\ OrderInv /\ WaitInv /\ FullInv(H) /\ SentInv(H) /\ ClientInv(H) /\ Typed
  BY DEF SnapInv
<1>1. /\ q # <<>> /\ m.op = "baseline" /\ r = Tail(q)
      /\ UNCHANGED <<worldVars, tick, frames, deltaTick, forceWait, baselinesSent, fullsSent,
                     clientVars, failures, toClient>>
      /\ IF m.tick # baselineTick \/ m.number # baselineUsed \/ FrameAt(frames, baselineTick) = {}
         THEN UNCHANGED <<baseline, baselineUsed, baselineTick>>
         ELSE /\ \E f \in FrameAt(frames, baselineTick) : baseline' = [s \in Slots |->
                   IF s \in baselinesSent THEN [serial |-> f.ents[s].serial, vals |-> f.ents[s].vals]
                   ELSE baseline[s]]
              /\ baselineUsed' = 1 - baselineUsed
              /\ baselineTick' = -1
  BY <1>r, <1>m DEF ReceiveBaselineAck
<1>2. /\ IsList(r) /\ Len(q) = Len(r) + 1 /\ m = q[1] /\ 1 \in DOMAIN q
      /\ \A i \in DOMAIN r : i + 1 \in DOMAIN q /\ r[i] = q[i + 1]
  <2>1. IsList(q) /\ q # <<>> /\ r = Tail(q) /\ m = Head(q)
    BY <1>m, <1>1, <1>0 DEF OrderInv, TicksTyped
  <2> QED BY ONLY <2>1, ListTail
<1>3. UNCHANGED <<clientTick, fullsRead, fullsSent, clientFrames, entities, shown, clientBaselines, requests>>
  BY <1>1 DEF clientVars
<1>4. baselineTick \in {-1} \cup Past /\ m.tick \in Past /\ \A j \in DOMAIN r : r[j].op = "baseline" => r[j].tick # -1
  BY <1>0, <1>1, <1>2 DEF OrderInv, TicksTyped, AnswerTyped, Past
<1>5. WaitInv'
  <2>1. \A i \in DOMAIN r : IsTick(r[i]) => TickWaits(r[i])'
    BY <1>0, <1>1, <1>2, <1>3 DEF WaitInv, TickWaits
  <2> QED BY <2>1, <1>0, <1>1, <1>3, <1>r DEF WaitInv
<1>6. Known' \subseteq Known
  <2>1. \A i \in DOMAIN r : IsTick(r[i]) /\ r[i].read = fullsRead => r[i].tick \in Known
    BY <1>2 DEF Known
  <2>2. \A k \in Known' : k \in Known
    BY <2>1, <1>1, <1>3, <1>r DEF Known
  <2> QED BY <2>2
<1>7. CASE UNCHANGED <<baseline, baselineUsed, baselineTick>>
  <2>1. FullInv(H)' /\ SentInv(H)'
    BY <1>0, <1>1, <1>3, <1>7 DEF FullInv, WrittenFull, SentInv
  <2>2. ASSUME clientTick # -1, fullsRead = fullsSent PROVE SyncInv(H)'
    <3>1. SyncInv(H)
      BY <2>2, <1>0 DEF ClientInv
    <3> QED BY <3>1, <1>1, <1>2, <1>3, <1>7, <1>r DEF SyncInv
  <2> QED BY <2>1, <2>2, <1>0, <1>1, <1>4, <1>5, <1>6, <1>7, <1>r, ServerReceives DEF OrderInv, TicksTyped, Typed, clientVars
<1>8. CASE ~(m.tick # baselineTick \/ m.number # baselineUsed \/ FrameAt(frames, baselineTick) = {})
  <2>0. m.tick = baselineTick /\ m.number = baselineUsed /\ baselineUsed' = 1 - baselineUsed /\ baselineTick' = -1
    BY <1>1, <1>8
  <2>1. PICK f \in FrameAt(frames, baselineTick) : baseline' = [s \in Slots |->
          IF s \in baselinesSent THEN [serial |-> f.ents[s].serial, vals |-> f.ents[s].vals] ELSE baseline[s]]
    BY <1>1, <1>8
  <2>2. f = H[baselineTick] /\ baselineTick \in Past
    BY <2>0, <1>0, <1>4 DEF FrameAt, History
  <2>3. baseline' = [s \in Slots |-> IF s \in baselinesSent THEN Rec(H[baselineTick], s) ELSE baseline[s]]
    BY <2>1, <2>2 DEF Rec
  <2>4. \A i \in DOMAIN toClient : baselineTick < toClient[i].frame.tick
    BY <2>0, <1>0, <1>2 DEF OrderInv, SnapshotOrder, NewerThan
  <2>5. \A i \in DOMAIN toClient : toClient[i].from # -1
    <3>1. \A i \in DOMAIN toClient : toClient[i].from = -1 => baselineTick = toClient[i].frame.tick
      BY <1>0 DEF FullInv
    <3>2. baselineTick \in Int
      BY <2>2 DEF Past
    <3> QED BY <3>1, <3>2, <2>4
  <2>6. FullInv(H)' /\ SentInv(H)'
    BY <2>0, <2>5, <1>1 DEF FullInv, SentInv
  <2>7. ASSUME clientTick # -1, fullsRead = fullsSent PROVE SyncInv(H)'
    <3>1. SyncInv(H)
      BY <2>7, <1>0 DEF ClientInv
    <3>2. clientBaselines[1 - baselineUsed] = baseline'
      BY <3>1, <2>0, <2>3, <1>1, <1>2 DEF SyncInv
    <3>3. \A i \in DOMAIN toClient : ~toClient[i].update
      <4>1. \A i \in DOMAIN toClient : toClient[i].update => toClient[i].frame.tick = baselineTick
        BY <3>1 DEF SyncInv
      <4>2. baselineTick \in Int
        BY <2>2 DEF Past
      <4> QED BY <4>1, <4>2, <2>4
    <3> QED BY <3>2, <3>3, <2>0, <1>1, <1>3, <1>4, <1>r DEF SyncInv
  <2>8. baselineUsed' \in {0, 1}
    BY <2>0, <1>0 DEF Typed
  <2>9. baseline' \in [Slots -> EntityOf]
    <3>1. baselinesSent \subseteq H[baselineTick].transmit
      BY <2>2, <1>0 DEF SentInv, Past
    <3>2. \A s \in baselinesSent : s \in Slots /\ Rec(H[baselineTick], s) \in EntityOf
      BY <3>1, <2>2, <1>0, FrameFacts DEF Typed
    <3>3. \A s \in Slots : (IF s \in baselinesSent THEN Rec(H[baselineTick], s) ELSE baseline[s]) \in EntityOf
      BY <3>2, <1>0 DEF Typed
    <3> QED BY <3>3, <2>3
  <2>10. deltaTick' \in {-1} \cup Past /\ forceWait' \in {-1} \cup Past /\ baselineTick' \in {-1} \cup Past
         /\ frames' \subseteq frames /\ baselinesSent' \subseteq Slots
    BY <2>0, <1>0, <1>1 DEF OrderInv, TicksTyped, Typed
  <2> QED BY <2>6, <2>7, <2>8, <2>9, <2>10, <1>1, <1>5, <1>6, <1>r, ServerReceives
<1> QED BY <1>1, <1>7, <1>8

-----------------------------------------------------------------------------
(* The client reads a full update.                                         *)

\* The acknowledgement of the baseline that the message m updates.
AckOf(m) == [op |-> "baseline", tick |-> m.frame.tick, number |-> m.number, read |-> 0]

\* What the client's messages are after m is read: R instead of q.
Answered(R, q, m) ==
  /\ IsList(R) /\ DOMAIN q \subseteq DOMAIN R /\ \A i \in DOMAIN q : R[i] = q[i]
  /\ \A i \in DOMAIN R : (i \in DOMAIN q /\ R[i] = q[i]) \/ (m.update /\ i = Len(R) /\ R[i] = AckOf(m))
  /\ m.update \/ R = q
  /\ \A i, j \in DOMAIN R : i < j => i \in DOMAIN q

\* Reading a snapshot adds the acknowledgement of its baseline or nothing.
LEMMA AnswerRead ==
  ASSUME NEW q, IsList(q), NEW m, NEW R, R = IF m.update THEN Append(q, AckOf(m)) ELSE q
  PROVE  Answered(R, q, m)
<1>0. Len(q) \in Nat /\ DOMAIN q = 1 .. Len(q)
  BY ListFacts
<1>1. CASE m.update
  <2>a. PICK a : a = AckOf(m)
    OBVIOUS
  <2>1. Longer(R, q, a)
    BY <1>1, <2>a, ListAppend
  <2>2. /\ IsList(R) /\ Len(R) = Len(q) + 1 /\ R[Len(R)] = a
        /\ DOMAIN R = DOMAIN q \cup {Len(R)}
        /\ \A i \in DOMAIN q : i < Len(R) /\ R[i] = q[i]
    BY ONLY <2>1 DEF Longer
  <2>3. \A i, j \in DOMAIN R : i < j => i \in DOMAIN q
    BY <1>0, <2>2
  <2> QED BY ONLY <2>2, <2>3, <2>a, <1>1 DEF Answered
<1>2. CASE ~m.update
  BY <1>2 DEF Answered
<1> QED BY <1>1, <1>2

\* The parts of the acknowledgement of a baseline.
LEMMA AckFacts ==
  ASSUME NEW m
  PROVE  /\ AckOf(m).op = "baseline" /\ AckOf(m).tick = m.frame.tick
         /\ AckOf(m).number = m.number /\ AckOf(m).read = 0 /\ ~IsTick(AckOf(m))
BY DEF AckOf, IsTick

\* The first snapshot under way.
LEMMA SnapshotHead ==
  ASSUME NEW H, SnapInv(H), toClient # <<>>, NEW m, m = Head(toClient), NEW r, r = Tail(toClient)
  PROVE  /\ m = toClient[1] /\ 1 \in DOMAIN toClient /\ MessageTyped(m) /\ NewerThan(m.frame.tick)
         /\ m.frame.tick \in Past /\ m.frame.tick \in Nat /\ m.frame.tick > 0
         /\ IsList(r) /\ Len(toClient) = Len(r) + 1 /\ Len(r) \in Nat /\ DOMAIN r = 1 .. Len(r)
         /\ r = <<>> <=> Len(r) = 0
         /\ \A i \in DOMAIN r : /\ i + 1 \in DOMAIN toClient /\ r[i] = toClient[i + 1] /\ 1 < i + 1
                                /\ m.frame.tick < r[i].frame.tick
         /\ FrameAt(clientFrames, -1) = {}
<1>0. OrderInv /\ WorldTyped /\ FramesInv(H)
  BY DEF SnapInv
<1>1. /\ IsList(r) /\ Len(toClient) = Len(r) + 1 /\ m = toClient[1] /\ 1 \in DOMAIN toClient
      /\ \A i \in DOMAIN r : i + 1 \in DOMAIN toClient /\ r[i] = toClient[i + 1]
  <2>1. IsList(toClient)
    BY <1>0 DEF OrderInv, TicksTyped
  <2> QED BY <2>1, ListTail
<1>2. Len(r) \in Nat /\ DOMAIN r = 1 .. Len(r) /\ (r = <<>> <=> Len(r) = 0)
  BY <1>1, ListFacts
<1>3. MessageTyped(m) /\ NewerThan(m.frame.tick)
  BY <1>0, <1>1 DEF OrderInv, TicksTyped, SnapshotOrder
<1>4. m.frame.tick \in Past /\ m.frame.tick \in Nat /\ m.frame.tick > 0
  BY <1>0, <1>3 DEF MessageTyped, Past, WorldTyped
<1>5. \A i \in DOMAIN r : 1 < i + 1
  BY <1>2
<1>6. \A i \in DOMAIN r : m.frame.tick < r[i].frame.tick
  BY <1>0, <1>1, <1>5 DEF OrderInv, SnapshotOrder
<1>7. FrameAt(clientFrames, -1) = {}
  BY <1>0 DEF FramesInv, FrameAt, Past
<1> QED BY <1>1, <1>2, <1>3, <1>4, <1>5, <1>6, <1>7

\* The slots of no frame, and those of one.
LEMMA SlotsOf ==
  /\ UNION {f.transmit : f \in {}} = {}
  /\ \A f : UNION {g.transmit : g \in {f}} = f.transmit
OBVIOUS

\* A full update is read.
LEMMA ReadFull ==
  ASSUME NEW H, SnapInv(H), toClient # <<>>, NEW m, m = Head(toClient), m.from = -1,
         toClient' = Tail(toClient), fullsRead' = fullsRead + 1, Read(m, {}),
         UNCHANGED <<requests, worldVars, tick, frames, sendVars, fullsSent>>
  PROVE  SnapInv(H)'
<1> DEFINE q == toServer
<1>b. PICK b : b = m.frame.tick
  OBVIOUS
<1>g. PICK g : g = H[b]
  OBVIOUS
<1>r. PICK r : r = toClient'
  OBVIOUS
<1>R. PICK R : R = toServer'
  OBVIOUS
<1> USE DEF worldVars, sendVars
<1>0. WorldTyped /\ History(H) /\ OrderInv /\ WaitInv /\ FullInv(H) /\ FramesInv(H) /\ SentInv(H) /\ Typed
  BY DEF SnapInv
<1>1. /\ m = toClient[1] /\ 1 \in DOMAIN toClient /\ MessageTyped(m) /\ NewerThan(b)
      /\ b \in Past /\ b \in Nat /\ b > 0
      /\ IsList(r) /\ Len(toClient) = Len(r) + 1 /\ Len(r) \in Nat /\ DOMAIN r = 1 .. Len(r)
      /\ r = <<>> <=> Len(r) = 0
  BY <1>b, <1>r, SnapshotHead
<1>2. 1 = Len(toClient) /\ fullsSent = fullsRead + 1 /\ forceWait = b
  BY <1>0, <1>1, <1>b DEF WaitInv
<1>3. r = <<>> /\ DOMAIN r = {}
  BY <1>1, <1>2
<1>4. /\ WrittenFull(m, H) /\ baseline = NoBaseline /\ baselineUsed = 0 /\ baselineTick = b
      /\ baselinesSent = Entering(m.bits)
  BY <1>0, <1>1, <1>b DEF FullInv
<1>5. m.update /\ m.number = 0 /\ m.frame = Meant(g, NoFrame) /\ m.deletions = {}
  BY <1>4, <1>b, <1>g DEF WrittenFull
<1>6. Answered(R, q, m)
  <2>1. IsList(q)
    BY <1>0 DEF OrderInv, TicksTyped
  <2>2. R = IF m.update THEN Append(q, AckOf(m)) ELSE q
    BY <1>R DEF Read, AckOf
  <2> QED BY <2>1, <2>2, AnswerRead
<1>7. /\ IsList(R) /\ \A i \in DOMAIN R : (i \in DOMAIN q /\ R[i] = q[i]) \/ R[i] = AckOf(m)
      /\ \A i, j \in DOMAIN R : i < j => i \in DOMAIN q /\ R[i] = q[i]
  BY <1>6 DEF Answered
<1>8. \A s \in Slots : /\ s \in ReadTransmit(m, {}) <=> s \in g.transmit
                       /\ m.bits[s].op = "enter" <=> s \in g.transmit
                       /\ s \in g.transmit => Entered(m, s) = Rec(g, s) /\ ReadEntity(m, s) = Rec(g, s)
                       /\ s \notin g.transmit => ReadEntity(m, s) = NoEntity
  BY <1>0, <1>1, <1>4, <1>b, <1>g, FullSlot
<1>9. /\ g.tick = b /\ g.transmit \subseteq Slots
      /\ \A s \in g.transmit : s \in Slots /\ Rec(g, s) \in EntityOf
  <2>1. g.tick = b /\ g \in Frame
    BY <1>0, <1>1, <1>g DEF History
  <2>2. g.transmit \subseteq Slots
    BY <2>1 DEF Frame
  <2>3. \A s \in Slots : s \in g.transmit => Rec(g, s) \in EntityOf
    BY <1>0, <1>1, <1>g, FrameFacts
  <2> QED BY <2>1, <2>2, <2>3
<1>10. ReadTransmit(m, {}) = g.transmit
  BY <1>8, <1>9 DEF ReadTransmit
<1>11. Entering(m.bits) = g.transmit
  BY <1>8, <1>9 DEF Entering
<1>12. clientTick' = b /\ shown' = m.frame /\ \A c \in clientFrames' : c \in clientFrames \/ c = Seen(g)
  <2>1. clientFrames' = FramesAfter(m, {}) /\ clientTick' = b /\ shown' = m.frame
    BY <1>b DEF Read
  <2>2. Seen(g) = [tick |-> b, transmit |-> g.transmit]
    BY <1>9 DEF Seen
  <2> QED BY <2>1, <2>2, <1>b, <1>10 DEF FramesAfter
<1>13. Seen(g) \in clientFrames'
  <2>1. clientFrames' = FramesAfter(m, {})
    BY DEF Read
  <2>2. Seen(g) = [tick |-> b, transmit |-> g.transmit]
    BY <1>9 DEF Seen
  <2> QED BY <2>1, <2>2, <1>b, <1>10 DEF FramesAfter
<1>14. entities' = [s \in Slots |-> IF s \in g.transmit THEN Rec(g, s) ELSE NoEntity]
  <2>1. entities' = [s \in Slots |-> ReadEntity(m, s)]
    BY DEF Read
  <2>2. \A s \in Slots : ReadEntity(m, s) = IF s \in g.transmit THEN Rec(g, s) ELSE NoEntity
    BY <1>8
  <2> QED BY <2>1, <2>2
<1>15. clientBaselines' = [c \in {0, 1} |-> [s \in Slots |-> IF c = 1 /\ s \in g.transmit THEN Rec(g, s) ELSE NoEntity]]
  <2>1. Baselines(m) = [NoBaselines EXCEPT ![1 - m.number] = NoBaselines[m.number]]
    BY <1>5 DEF Baselines
  <2>2. NoBaselines[0] = NoBaseline /\ NoBaselines[1] = NoBaseline
    BY DEF NoBaselines
  <2>3. \A c \in {0, 1} : Baselines(m)[c] = NoBaseline
    BY <2>1, <2>2, <1>5 DEF NoBaselines
  <2>4. clientBaselines' = [c \in {0, 1} |-> [s \in Slots |->
          IF m.update /\ c = 1 - m.number /\ m.bits[s].op = "enter" THEN Entered(m, s) ELSE Baselines(m)[c][s]]]
    BY DEF Read
  <2>5. ASSUME NEW c \in {0, 1}, NEW s \in Slots
        PROVE  (IF m.update /\ c = 1 - m.number /\ m.bits[s].op = "enter" THEN Entered(m, s) ELSE Baselines(m)[c][s])
                 = IF c = 1 /\ s \in g.transmit THEN Rec(g, s) ELSE NoEntity
    <3>1. Baselines(m)[c][s] = NoEntity
      BY <2>3 DEF NoBaseline
    <3> QED BY <3>1, <1>5, <1>8
  <2> QED BY <2>4, <2>5
<1>16. WorldTyped' /\ History(H)' /\ Past' = Past
  BY <1>0, HistorySame DEF Past
<1>17. TicksTyped'
  <2>1. \A i \in DOMAIN R : AnswerTyped(R[i])
    <3>1. AnswerTyped(AckOf(m))
      BY <1>1, <1>5, <1>b, AckFacts DEF AnswerTyped
    <3> QED BY <3>1, <1>0, <1>7 DEF OrderInv, TicksTyped
  <2>2. \A i \in DOMAIN R : AnswerTyped(R[i])'
    BY <2>1, <1>16 DEF AnswerTyped
  <2> QED BY <2>2, <1>0, <1>1, <1>3, <1>7, <1>12, <1>16, <1>r, <1>R DEF OrderInv, TicksTyped
<1>18. SnapshotOrder' /\ AnswerOrder'
  <2>1. SnapshotOrder'
    BY <1>3, <1>r DEF SnapshotOrder
  <2>2. \A i \in DOMAIN R : R[i].tick <= b
    <3>1. \A i \in DOMAIN q : q[i].tick < b /\ q[i].tick \in Int
      BY <1>0, <1>1 DEF NewerThan, OrderInv, TicksTyped, AnswerTyped, Past
    <3>2. AckOf(m).tick <= b
      BY <1>b, <1>1, AckFacts
    <3> QED BY <3>1, <3>2, <1>1, <1>7
  <2>3. ASSUME NEW i \in DOMAIN R, NEW j \in DOMAIN R, i < j, IsTick(R[i]), IsTick(R[j])
        PROVE  InOrder(R[i], R[j])
    <3>1. i \in DOMAIN q /\ R[i] = q[i]
      BY <2>3, <1>7
    <3>2. j \in DOMAIN q /\ R[j] = q[j]
      BY <2>3, <1>7, AckFacts
    <3> QED BY <3>1, <3>2, <2>3, <1>0 DEF OrderInv, AnswerOrder
  <2> QED BY <2>1, <2>2, <2>3, <1>12, <1>R DEF AnswerOrder
<1>19. \A i \in DOMAIN R : IsTick(R[i]) => R[i].read <= fullsRead /\ R[i].read \in Nat /\ R[i].tick < b
  <2>1. \A i \in DOMAIN q : IsTick(q[i]) => q[i].read <= fullsRead /\ q[i].read \in Nat /\ q[i].tick < b
    BY <1>0, <1>1 DEF WaitInv, TickWaits, OrderInv, TicksTyped, AnswerTyped, NewerThan
  <2> QED BY <2>1, <1>7, AckFacts
<1>20. WaitInv'
  <2>0. fullsRead \in Nat /\ forceWait # -1 /\ fullsRead' = fullsSent /\ fullsRead' = fullsRead + 1
    BY <1>0, <1>1, <1>2 DEF WaitInv
  <2>1. \A i \in DOMAIN R : IsTick(R[i]) => TickWaits(R[i])'
    <3> SUFFICES ASSUME NEW i \in DOMAIN R, IsTick(R[i]) PROVE TickWaits(R[i])'
      OBVIOUS
    <3>1. R[i].read <= fullsRead /\ R[i].read \in Nat /\ R[i].tick < b
      BY <1>19
    <3>2. R[i].read < fullsRead' /\ R[i].read # fullsRead' /\ R[i].read <= fullsRead'
      BY <3>1, <2>0
    <3> QED BY <3>1, <3>2, <2>0, <1>2 DEF TickWaits
  <2>2. toClient' = <<>> /\ DOMAIN toClient' = {} /\ clientTick' = forceWait
    BY <1>2, <1>3, <1>r, <1>12
  <2> QED BY <2>0, <2>1, <2>2, <1>0, <1>2, <1>R DEF WaitInv
<1>21. FullInv(H)' /\ FramesInv(H)' /\ SentInv(H)'
  <2>1. FullInv(H)'
    BY <1>3, <1>r DEF FullInv
  <2>2. FramesInv(H)'
    <3>1. Seen(g).tick = b
      BY <1>9 DEF Seen
    <3> QED BY <3>1, <1>0, <1>1, <1>12, <1>16, <1>g DEF FramesInv
  <2> QED BY <2>1, <2>2, <1>0 DEF SentInv
<1>22. ShownInv(H)'
  <2>1. m.frame = [tick |-> g.tick, ents |-> [s \in g.transmit |-> [serial |-> g.ents[s].serial, vals |-> g.ents[s].vals]],
                   destroyed |-> {s \in Slots : Empty(g.ents[s]) /\ ~Empty(NoFrame.ents[s])}]
    BY <1>5 DEF Meant
  <2>2. \A s \in Slots : Empty(NoFrame.ents[s])
    BY DEF NoFrame, Empty, Free, Unpacked
  <2>3. shown'.tick = b /\ shown'.ents = [s \in g.transmit |-> Rec(g, s)] /\ shown'.destroyed = {}
    BY <2>1, <2>2, <1>9, <1>12 DEF Rec
  <2>4. \A s \in g.transmit : entities'[s] = Rec(g, s)
    BY <1>9, <1>14
  <2> QED BY <2>3, <2>4, <1>12, <1>g DEF ShownInv
<1>23. KeptInv(H)'
  <2>1. \A k \in Known' : k = b
    <3>1. \A i \in DOMAIN R : IsTick(R[i]) => R[i].read # fullsRead'
      BY <1>0, <1>19 DEF WaitInv
    <3>2. forceWait' # -1
      BY <1>1, <1>2
    <3> QED BY <3>1, <3>2, <1>12, <1>R DEF Known
  <2>2. Remembered(b, H)'
    <3>1. \A s \in g.transmit : entities'[s] = Rec(g, s)
      BY <1>9, <1>14
    <3>2. b \in b .. b
      BY <1>1
    <3>3. \A s \in H[b].transmit : \E k \in b .. clientTick' : s \in H[k].transmit /\ entities'[s] = Rec(H[k], s)
      BY <3>1, <3>2, <1>12, <1>g
    <3> QED BY <3>3 DEF Remembered
  <2>3. \A k \in Known' : Seen(H[k]) \in clientFrames' /\ Remembered(k, H)'
    BY <2>1, <2>2, <1>13, <1>g
  <2> QED BY <2>3, <1>3, <1>r DEF KeptInv
<1>24. DeltaInv(H)'
  BY <1>3, <1>r DEF DeltaInv
<1>25. SyncInv(H)'
  <2>1. clientBaselines'[0] = NoBaseline
    BY <1>15 DEF NoBaseline
  <2>2. clientBaselines'[1] = [s \in Slots |-> IF s \in baselinesSent THEN Rec(H[baselineTick], s) ELSE baseline[s]]
    <3>1. clientBaselines'[1] = [s \in Slots |-> IF s \in g.transmit THEN Rec(g, s) ELSE NoEntity]
      BY <1>15
    <3>2. H[baselineTick] = g /\ baselinesSent = g.transmit /\ \A s \in Slots : baseline[s] = NoEntity
      BY <1>4, <1>11, <1>g DEF NoBaseline
    <3> QED BY <3>1, <3>2
  <2>3. baselineUsed' = 0 /\ 1 - baselineUsed' = 1 /\ baseline' = NoBaseline
    BY <1>4
  <2> QED BY <2>1, <2>2, <2>3, <1>3, <1>r DEF SyncInv
<1>26. Typed'
  <2>0. NoEntity \in EntityOf
    BY ZeroTyped, ClassAssumption DEF NoEntity, EntityOf
  <2>1. entities' \in [Slots -> EntityOf]
    BY <2>0, <1>9, <1>14
  <2>2. clientBaselines' \in [{0, 1} -> [Slots -> EntityOf]]
    <3>1. \A c \in {0, 1} : [s \in Slots |-> IF c = 1 /\ s \in g.transmit THEN Rec(g, s) ELSE NoEntity] \in [Slots -> EntityOf]
      BY <2>0, <1>9
    <3> QED BY <3>1, <1>15
  <2>3. clientTick' # -1
    BY <1>1, <1>12
  <2> QED BY <2>1, <2>2, <2>3, <1>0 DEF Typed
<1>27. ClientInv(H)'
  BY <1>22, <1>23, <1>24, <1>25 DEF ClientInv
<1> QED BY <1>16, <1>17, <1>18, <1>20, <1>21, <1>26, <1>27 DEF SnapInv, OrderInv

-----------------------------------------------------------------------------
(* The client reads a delta.                                               *)

\* The frames that a delta relates, and what is known of the slots when it arrives: a is
\* the frame that it is a delta from, b its own, and the client is at clientTick.
DeltaKnown(m, a, b, H) ==
  /\ a \in Past /\ b \in Past /\ clientTick \in Past /\ a <= clientTick /\ clientTick < b
  /\ m.from = a /\ m.frame.tick = b /\ a # b /\ a # -1
  /\ WrittenDelta(m, clientBaselines[m.number], H)
  /\ \A s \in Slots : SlotKept(s, a, clientTick, H)
  /\ Seen(H[a]) \in clientFrames /\ FrameAt(clientFrames, a) = {Seen(H[a])}

\* What the invariant says of the first snapshot under way when it is a delta.
LEMMA DeltaHead ==
  ASSUME NEW H, SnapInv(H), toClient # <<>>, NEW m, m = Head(toClient), m.from # -1, clientTick # -1,
         NEW a, a = m.from, NEW b, b = m.frame.tick
  PROVE  DeltaKnown(m, a, b, H) /\ KeptInv(H) /\ DeltaInv(H) /\ ShownInv(H)
<1>0. WorldTyped /\ History(H) /\ OrderInv /\ FramesInv(H) /\ KeptInv(H) /\ DeltaInv(H) /\ ShownInv(H)
  BY DEF SnapInv, ClientInv
<1>1. m = toClient[1] /\ 1 \in DOMAIN toClient /\ MessageTyped(m) /\ NewerThan(b) /\ b \in Past
  <2>1. PICK r : r = Tail(toClient)
    OBVIOUS
  <2> QED BY <2>1, SnapshotHead
<1>2. /\ Seen(H[a]) \in clientFrames /\ Remembered(a, H) /\ \A t \in Known : a <= t
      /\ WrittenDelta(m, clientBaselines[m.number], H)
  BY <1>0, <1>1 DEF KeptInv, DeltaInv
<1>3. a \in Past /\ clientTick \in Past /\ a <= clientTick /\ clientTick < b /\ a # b
  <2>1. clientTick \in Known
    BY DEF Known
  <2>2. a \in Past /\ a < b
    BY <1>1 DEF MessageTyped
  <2> QED BY <2>1, <2>2, <1>0, <1>1, <1>2 DEF OrderInv, TicksTyped, NewerThan, Past
<1>4. \A s \in Slots : SlotKept(s, a, clientTick, H)
  BY <1>2 DEF Remembered, SlotKept
<1>5. FrameAt(clientFrames, a) = {Seen(H[a])}
  <2>1. Seen(H[a]).tick = a
    BY <1>0, <1>3 DEF Seen, History
  <2>2. \A c \in clientFrames : c.tick = a => c = Seen(H[a])
    BY <1>0 DEF FramesInv
  <2> QED BY <2>1, <2>2, <1>2 DEF FrameAt
<1>6. m.from = a /\ m.frame.tick = b /\ a # -1
  OBVIOUS
<1>7. DeltaKnown(m, a, b, H)
  BY ONLY <1>1, <1>2, <1>3, <1>4, <1>5, <1>6 DEF DeltaKnown
<1> QED BY <1>0, <1>7

\* What the slots are read as.
LEMMA DeltaSlots ==
  ASSUME NEW H, SnapInv(H), NEW m, MessageTyped(m), NEW a, NEW b, DeltaKnown(m, a, b, H)
  PROVE  \A s \in Slots :
         /\ s \in ReadTransmit(m, H[a].transmit) <=> s \in H[b].transmit
         /\ m.bits[s].op = "delta" => s \in H[a].transmit
         /\ m.bits[s].op = "enter" => s \in H[b].transmit /\ Entered(m, s) = Rec(H[b], s)
         /\ m.bits[s].op = "delta" => s \notin m.deletions
         /\ s \in H[b].transmit /\ m.bits[s].op # "enter" => entities[s] # NoEntity
         /\ s \in H[b].transmit => ReadEntity(m, s) = Rec(H[b], s)
         /\ s \notin H[b].transmit => ReadEntity(m, s) = entities[s] \/ (ReadEntity(m, s) = NoEntity /\ NewIn(s, b, H))
         /\ NeedsDestroy(s, H[a], H[b]) => ReadEntity(m, s) = NoEntity
<1> SUFFICES ASSUME NEW s \in Slots
             PROVE  /\ s \in ReadTransmit(m, H[a].transmit) <=> s \in H[b].transmit
                    /\ m.bits[s].op = "delta" => s \in H[a].transmit
                    /\ m.bits[s].op = "enter" => s \in H[b].transmit /\ Entered(m, s) = Rec(H[b], s)
                    /\ m.bits[s].op = "delta" => s \notin m.deletions
                    /\ s \in H[b].transmit /\ m.bits[s].op # "enter" => entities[s] # NoEntity
                    /\ s \in H[b].transmit => ReadEntity(m, s) = Rec(H[b], s)
                    /\ s \notin H[b].transmit => ReadEntity(m, s) = entities[s] \/ (ReadEntity(m, s) = NoEntity /\ NewIn(s, b, H))
                    /\ NeedsDestroy(s, H[a], H[b]) => ReadEntity(m, s) = NoEntity
  OBVIOUS
<1>1. PICK c, bl, u : c = clientTick /\ bl = clientBaselines[m.number] /\ u = m.bits[s]
  OBVIOUS
<1>2. /\ a \in Past /\ b \in Past /\ c \in Past /\ a <= c /\ c < b /\ m.from = a /\ m.frame.tick = b
      /\ WrittenDelta(m, bl, H) /\ SlotKept(s, a, c, H)
  BY <1>1 DEF DeltaKnown
<1>3. WorldTyped /\ History(H) /\ clientBaselines \in [{0, 1} -> [Slots -> EntityOf]]
  BY DEF SnapInv, Typed
<1> QED BY <1>1, <1>2, <1>3, DeltaSlot

\* A delta can be read if what it deletes is not among what it sends.
LEMMA Readable ==
  ASSUME NEW H, SnapInv(H), toClient # <<>>, NEW m, m = Head(toClient),
         m.from = -1 \/ clientTick # -1, NEW old, old = UNION {f.transmit : f \in FrameAt(clientFrames, m.from)},
         Unreadable(m, old)
  PROVE  m.from # -1 /\ m.deletions \cap DOMAIN m.frame.ents # {}
<1>b. PICK a, b : a = m.from /\ b = m.frame.tick
  OBVIOUS
<1>r. PICK r : r = Tail(toClient)
  OBVIOUS
<1>1. /\ m = toClient[1] /\ 1 \in DOMAIN toClient /\ MessageTyped(m) /\ b \in Past /\ b \in Nat /\ b > 0
      /\ FrameAt(clientFrames, -1) = {}
  BY <1>b, <1>r, SnapshotHead
<1>2. CASE a = -1
  <2>1. old = {}
    BY <1>1, <1>2, <1>b, SlotsOf
  <2>2. WrittenFull(m, H) /\ WorldTyped /\ History(H)
    BY <1>1, <1>2, <1>b DEF SnapInv, FullInv
  <2>3. m.deletions = {}
    BY <2>2 DEF WrittenFull
  <2>4. \A s \in Slots : /\ s \in ReadTransmit(m, {}) <=> s \in H[b].transmit
                         /\ m.bits[s].op = "enter" <=> s \in H[b].transmit
                         /\ m.bits[s].op # "delta"
    BY <1>1, <1>2, <1>b, <2>2, FullSlot
  <2>5. ReadTransmit(m, {}) \subseteq Slots
    BY DEF ReadTransmit
  <2>6. ~Unreadable(m, {})
    BY <2>3, <2>4, <2>5, <1>1, <1>2, <1>b DEF Unreadable
  <2> QED BY <2>1, <2>6
<1>3. CASE a # -1
  <2>1. DeltaKnown(m, a, b, H)
    BY <1>3, <1>b, DeltaHead
  <2>2. FrameAt(clientFrames, a) = {Seen(H[a])} /\ WrittenDelta(m, clientBaselines[m.number], H) /\ a # b
    BY <2>1 DEF DeltaKnown
  <2>3. old = H[a].transmit
    <3>1. old = Seen(H[a]).transmit
      <4>1. \A s : s \in old <=> s \in Seen(H[a]).transmit
        BY <2>2, <1>b
      <4> QED BY <4>1
    <3> QED BY <3>1 DEF Seen
  <2>4. \A s \in Slots :
         /\ s \in ReadTransmit(m, H[a].transmit) <=> s \in H[b].transmit
         /\ m.bits[s].op = "delta" => s \in H[a].transmit
         /\ m.bits[s].op = "enter" => s \in H[b].transmit
         /\ m.bits[s].op = "delta" => s \notin m.deletions
         /\ s \in H[b].transmit /\ m.bits[s].op # "enter" => entities[s] # NoEntity
    BY <2>1, <1>1, DeltaSlots
  <2>5. ReadTransmit(m, old) \subseteq Slots /\ m.deletions \subseteq Slots
    BY <2>2 DEF ReadTransmit, WrittenDelta
  <2>6. PICK s \in m.deletions : m.bits[s].op = "enter"
    BY <2>2, <2>3, <2>4, <2>5, <1>b DEF Unreadable
  <2>7. s \in H[b].transmit
    BY <2>4, <2>5, <2>6
  <2>8. m.frame.ents = [x \in H[b].transmit |-> Rec(H[b], x)]
    <3>1. m.frame = Meant(H[b], H[a])
      BY <2>2, <1>b DEF WrittenDelta
    <3>2. Meant(H[b], H[a]).ents = [x \in H[b].transmit |-> [serial |-> H[b].ents[x].serial, vals |-> H[b].ents[x].vals]]
      BY DEF Meant
    <3> QED BY <3>1, <3>2 DEF Rec
  <2> QED BY <2>6, <2>7, <2>8, <1>3, <1>b
<1> QED BY <1>2, <1>3

\* What the client remembers of frame t when it has read frame b.
LEMMA RememberedRead ==
  ASSUME NEW H, SnapInv(H), NEW a, NEW b, NEW m, MessageTyped(m), DeltaKnown(m, a, b, H),
         entities' = [s \in Slots |-> ReadEntity(m, s)], clientTick' = b,
         NEW t \in Past, t <= clientTick, Remembered(t, H)
  PROVE  Remembered(t, H)'
<1>0. WorldTyped /\ History(H) /\ a \in Past /\ b \in Past /\ clientTick < b /\ clientTick \in Past
  BY DEF SnapInv, DeltaKnown
<1>1. t \in Nat /\ b \in Nat /\ clientTick \in Nat /\ 1 <= t
  BY <1>0 DEF WorldTyped, Past
<1>2. b \in t .. b /\ \A u \in t .. clientTick : u \in t .. b
  BY <1>0, <1>1
<1>3. ASSUME NEW s \in H[t].transmit
      PROVE  \/ \E k \in t .. b : s \in H[k].transmit /\ entities'[s] = Rec(H[k], s)
             \/ \E u \in t .. b : H[u].ents[s].serial # H[t].ents[s].serial
  <2>1. s \in Slots /\ H[t].ents[s].serial > 0
    <3>1. s \in Slots
      BY <1>0 DEF History, Frame
    <3> QED BY <3>1, <1>0, FrameFacts
  <2>2. CASE \E u \in t .. clientTick : H[u].ents[s].serial # H[t].ents[s].serial
    BY <2>2, <1>2
  <2>3. CASE \E k \in t .. clientTick : s \in H[k].transmit /\ entities[s] = Rec(H[k], s)
    <3>1. /\ s \in H[b].transmit => ReadEntity(m, s) = Rec(H[b], s)
          /\ s \notin H[b].transmit => ReadEntity(m, s) = entities[s] \/ NewIn(s, b, H)
      BY <2>1, DeltaSlots
    <3>2. entities'[s] = ReadEntity(m, s)
      BY <2>1
    <3>3. CASE s \in H[b].transmit
      BY <3>1, <3>2, <3>3, <1>2
    <3>4. CASE ReadEntity(m, s) = entities[s]
      BY <3>2, <3>4, <2>3, <1>2
    <3>5. CASE NewIn(s, b, H)
      <4>1. t \in 1 .. b - 1
        BY <1>0, <1>1
      <4>2. H[b].ents[s].serial # H[t].ents[s].serial
        BY <4>1, <3>5, <2>1 DEF NewIn
      <4> QED BY <4>2, <1>2
    <3> QED BY <3>1, <3>3, <3>4, <3>5
  <2> QED BY <2>2, <2>3 DEF Remembered
<1> QED BY <1>3 DEF Remembered

\* The baselines after a delta is read.
LEMMA BaselinesRead ==
  ASSUME NEW H, SnapInv(H), NEW a, NEW b, NEW m, MessageTyped(m), DeltaKnown(m, a, b, H), NEW old, Read(m, old)
  PROVE  /\ clientBaselines'[m.number] = clientBaselines[m.number]
         /\ ~m.update => clientBaselines' = clientBaselines
         /\ m.update => clientBaselines'[1 - m.number] =
              [s \in Slots |-> IF m.bits[s].op = "enter" THEN Rec(H[b], s) ELSE clientBaselines[m.number][s]]
         /\ clientBaselines' \in [{0, 1} -> [Slots -> EntityOf]]
<1>0. WorldTyped /\ History(H) /\ clientBaselines \in [{0, 1} -> [Slots -> EntityOf]] /\ a # -1 /\ m.from = a
      /\ m.number \in {0, 1} /\ 1 - m.number \in {0, 1} /\ m.number # 1 - m.number /\ b \in Past
  BY DEF SnapInv, DeltaKnown, Typed, MessageTyped
<1>1. clientBaselines' = [c \in {0, 1} |-> [s \in Slots |->
          IF m.update /\ c = 1 - m.number /\ m.bits[s].op = "enter" THEN Entered(m, s) ELSE Baselines(m)[c][s]]]
  BY DEF Read
<1>2. Baselines(m) = IF m.update THEN [clientBaselines EXCEPT ![1 - m.number] = clientBaselines[m.number]]
                     ELSE clientBaselines
  BY <1>0 DEF Baselines
<1>3. Baselines(m) \in [{0, 1} -> [Slots -> EntityOf]] /\ Baselines(m)[m.number] = clientBaselines[m.number]
      /\ (m.update => Baselines(m)[1 - m.number] = clientBaselines[m.number])
      /\ (~m.update => Baselines(m) = clientBaselines)
  BY <1>0, <1>2
<1>4. \A s \in Slots : m.bits[s].op = "enter" => Entered(m, s) = Rec(H[b], s) /\ Rec(H[b], s) \in EntityOf
  <2>1. \A s \in Slots : m.bits[s].op = "enter" => s \in H[b].transmit /\ Entered(m, s) = Rec(H[b], s)
    BY DeltaSlots
  <2>2. \A s \in Slots : s \in H[b].transmit => Rec(H[b], s) \in EntityOf
    BY <1>0, FrameFacts
  <2> QED BY <2>1, <2>2
<1> HIDE DEF Baselines
<1>5. \A c \in {0, 1}, s \in Slots :
        clientBaselines'[c][s] = IF m.update /\ c = 1 - m.number /\ m.bits[s].op = "enter" THEN Rec(H[b], s)
                                 ELSE Baselines(m)[c][s]
  BY <1>1, <1>4
<1>6. \A c \in {0, 1} : clientBaselines'[c] = [s \in Slots |-> clientBaselines'[c][s]]
  BY <1>1
<1>7. \A c \in {0, 1} : clientBaselines'[c] \in [Slots -> EntityOf]
  <2>1. \A c \in {0, 1}, s \in Slots : clientBaselines'[c][s] \in EntityOf
    BY <1>3, <1>4, <1>5
  <2> QED BY <2>1, <1>6
<1>8. clientBaselines' \in [{0, 1} -> [Slots -> EntityOf]]
  <2>1. clientBaselines' = [c \in {0, 1} |-> clientBaselines'[c]]
    BY <1>1
  <2> QED BY <2>1, <1>7
<1>9. \A c \in {0, 1} : (~m.update \/ c = m.number) => clientBaselines'[c] = Baselines(m)[c]
  <2> SUFFICES ASSUME NEW c \in {0, 1}, ~m.update \/ c = m.number
               PROVE  clientBaselines'[c] = Baselines(m)[c]
    OBVIOUS
  <2>1. \A s \in Slots : clientBaselines'[c][s] = Baselines(m)[c][s]
    BY <1>0, <1>5
  <2>2. Baselines(m)[c] \in [Slots -> EntityOf]
    BY <1>3
  <2> QED BY <2>1, <2>2, <1>7
<1>10. ASSUME ~m.update PROVE clientBaselines' = clientBaselines
  <2>1. \A c \in {0, 1} : clientBaselines'[c] = clientBaselines[c]
    BY <1>3, <1>9, <1>10
  <2> QED BY <2>1, <1>0, <1>8
<1>11. ASSUME m.update
       PROVE  clientBaselines'[1 - m.number] =
              [s \in Slots |-> IF m.bits[s].op = "enter" THEN Rec(H[b], s) ELSE clientBaselines[m.number][s]]
  <2>1. \A s \in Slots : clientBaselines'[1 - m.number][s] =
            IF m.bits[s].op = "enter" THEN Rec(H[b], s) ELSE clientBaselines[m.number][s]
    BY <1>0, <1>3, <1>5, <1>11
  <2> QED BY <2>1, <1>0, <1>6
<1> QED BY <1>0, <1>3, <1>8, <1>9, <1>10, <1>11

\* A delta is read.
LEMMA ReadDelta ==
  ASSUME NEW H, SnapInv(H), toClient # <<>>, NEW m, m = Head(toClient), m.from # -1, clientTick # -1,
         toClient' = Tail(toClient), fullsRead' = fullsRead, NEW old, Read(m, old), old = H[m.from].transmit,
         UNCHANGED <<requests, worldVars, tick, frames, sendVars, fullsSent>>
  PROVE  SnapInv(H)'
<1> DEFINE q == toServer
<1>b. PICK a, b : a = m.from /\ b = m.frame.tick
  OBVIOUS
<1>g. PICK f, g : f = H[a] /\ g = H[b]
  OBVIOUS
<1>r. PICK r : r = toClient'
  OBVIOUS
<1>R. PICK R : R = toServer'
  OBVIOUS
<1> USE DEF worldVars, sendVars
<1>0. WorldTyped /\ History(H) /\ OrderInv /\ WaitInv /\ FullInv(H) /\ FramesInv(H) /\ SentInv(H) /\ Typed
  BY DEF SnapInv
<1>1. /\ m = toClient[1] /\ 1 \in DOMAIN toClient /\ MessageTyped(m) /\ NewerThan(b)
      /\ b \in Past /\ b \in Nat /\ b > 0
      /\ IsList(r) /\ Len(toClient) = Len(r) + 1 /\ Len(r) \in Nat /\ DOMAIN r = 1 .. Len(r)
      /\ r = <<>> <=> Len(r) = 0
      /\ \A i \in DOMAIN r : /\ i + 1 \in DOMAIN toClient /\ r[i] = toClient[i + 1] /\ 1 < i + 1
                             /\ b < r[i].frame.tick
  <2>1. r = Tail(toClient)
    BY <1>r
  <2>2. /\ m = toClient[1] /\ 1 \in DOMAIN toClient /\ MessageTyped(m) /\ NewerThan(m.frame.tick)
        /\ m.frame.tick \in Past /\ m.frame.tick \in Nat /\ m.frame.tick > 0
        /\ IsList(r) /\ Len(toClient) = Len(r) + 1 /\ Len(r) \in Nat /\ DOMAIN r = 1 .. Len(r)
        /\ r = <<>> <=> Len(r) = 0
    BY <2>1, SnapshotHead
  <2>3. \A i \in DOMAIN r : /\ i + 1 \in DOMAIN toClient /\ r[i] = toClient[i + 1] /\ 1 < i + 1
                            /\ m.frame.tick < r[i].frame.tick
    BY <2>1, SnapshotHead
  <2> QED BY ONLY <2>2, <2>3, <1>b
<1>2. DeltaKnown(m, a, b, H) /\ KeptInv(H) /\ DeltaInv(H) /\ ShownInv(H)
  BY <1>b, DeltaHead
<1>3. /\ a \in Past /\ clientTick \in Past /\ a <= clientTick /\ clientTick < b /\ m.from = a
      /\ WrittenDelta(m, clientBaselines[m.number], H) /\ Seen(f) \in clientFrames
      /\ a \in Nat /\ clientTick \in Nat /\ tick \in Nat
  <2>1. tick \in Nat
    BY <1>0 DEF WorldTyped
  <2> QED BY <2>1, <1>2, <1>g DEF DeltaKnown, Past
<1>4. \A s \in Slots :
         /\ s \in ReadTransmit(m, f.transmit) <=> s \in g.transmit
         /\ m.bits[s].op = "enter" => s \in g.transmit
         /\ s \in g.transmit => ReadEntity(m, s) = Rec(g, s)
         /\ s \notin g.transmit => ReadEntity(m, s) = entities[s] \/ ReadEntity(m, s) = NoEntity
         /\ NeedsDestroy(s, f, g) => ReadEntity(m, s) = NoEntity
  BY <1>1, <1>2, <1>g, DeltaSlots
<1>5. /\ g.tick = b /\ f.tick = a /\ g.transmit \subseteq Slots
      /\ \A s \in g.transmit : s \in Slots /\ Rec(g, s) \in EntityOf
  <2>1. g.tick = b /\ f.tick = a /\ g \in Frame
    BY <1>0, <1>1, <1>3, <1>g DEF History
  <2>2. g.transmit \subseteq Slots
    BY <2>1 DEF Frame
  <2>3. \A s \in Slots : s \in g.transmit => Rec(g, s) \in EntityOf
    BY <1>0, <1>1, <1>g, FrameFacts
  <2> QED BY <2>1, <2>2, <2>3
<1>6. ReadTransmit(m, old) = g.transmit
  BY <1>4, <1>5, <1>b, <1>g DEF ReadTransmit
<1>7. /\ IsList(R) /\ DOMAIN q \subseteq DOMAIN R /\ \A i \in DOMAIN q : R[i] = q[i]
      /\ \A i \in DOMAIN R : (i \in DOMAIN q /\ R[i] = q[i]) \/ (m.update /\ R[i] = AckOf(m))
      /\ \A i, j \in DOMAIN R : i < j => i \in DOMAIN q /\ R[i] = q[i]
  <2>1. IsList(q)
    BY <1>0 DEF OrderInv, TicksTyped
  <2>2. R = IF m.update THEN Append(q, AckOf(m)) ELSE q
    BY <1>R DEF Read, AckOf
  <2>3. Answered(R, q, m)
    BY <2>1, <2>2, AnswerRead
  <2> QED BY <2>3 DEF Answered
<1>8. /\ clientTick' = b /\ shown' = m.frame /\ entities' = [s \in Slots |-> ReadEntity(m, s)]
      /\ clientFrames' = {c \in clientFrames : c.tick >= a} \cup {Seen(g)}
      /\ Seen(g).tick = b /\ Seen(f).tick = a
  <2>1. clientFrames' = FramesAfter(m, old) /\ clientTick' = b /\ shown' = m.frame
        /\ entities' = [s \in Slots |-> ReadEntity(m, s)]
    BY <1>b DEF Read
  <2>2. Seen(g) = [tick |-> b, transmit |-> g.transmit] /\ Seen(f).tick = a
    BY <1>5 DEF Seen
  <2>3. ~ \A c \in clientFrames : c.tick > b
    BY <2>2, <1>1, <1>3
  <2>4. FramesAfter(m, old) = {c \in clientFrames : c.tick >= a} \cup {Seen(g)}
    BY <2>2, <2>3, <1>b, <1>6 DEF FramesAfter
  <2> QED BY <2>1, <2>2, <2>4
<1>9. WorldTyped' /\ History(H)' /\ Past' = Past
  BY <1>0, HistorySame DEF Past
<1>10. TicksTyped'
  <2>1. \A i \in DOMAIN R : AnswerTyped(R[i])
    <3>1. AnswerTyped(AckOf(m))
      BY <1>1, <1>b, AckFacts DEF AnswerTyped, MessageTyped
    <3> QED BY <3>1, <1>0, <1>7 DEF OrderInv, TicksTyped
  <2>2. \A i \in DOMAIN R : AnswerTyped(R[i])'
    BY <2>1, <1>9 DEF AnswerTyped
  <2>3. \A i \in DOMAIN r : MessageTyped(r[i])'
    <3>1. \A i \in DOMAIN r : MessageTyped(r[i])
      BY <1>0, <1>1 DEF OrderInv, TicksTyped
    <3> QED BY <3>1, <1>9 DEF MessageTyped
  <2> QED BY <2>2, <2>3, <1>0, <1>1, <1>7, <1>8, <1>9, <1>r, <1>R DEF OrderInv, TicksTyped
<1>11. \A i \in DOMAIN q : q[i].tick < b /\ q[i].tick <= clientTick /\ q[i].tick \in Int
  BY <1>0, <1>1, <1>3 DEF NewerThan, OrderInv, TicksTyped, AnswerTyped, Past, AnswerOrder
<1>12. \A i \in DOMAIN R : R[i].tick <= b /\ R[i].tick \in Int
  <2>1. AckOf(m).tick = b
    BY <1>b, AckFacts
  <2>2. \A i \in DOMAIN R : R[i].tick = b \/ (i \in DOMAIN q /\ R[i] = q[i])
    BY <1>7, <2>1
  <2> QED BY <2>2, <1>1, <1>11
<1>13. SnapshotOrder'
  <2>1. \A i, j \in DOMAIN r : i < j => r[i].frame.tick < r[j].frame.tick
    <3> SUFFICES ASSUME NEW i \in DOMAIN r, NEW j \in DOMAIN r, i < j PROVE r[i].frame.tick < r[j].frame.tick
      OBVIOUS
    <3>1. i + 1 \in DOMAIN toClient /\ j + 1 \in DOMAIN toClient /\ i + 1 < j + 1
      BY <1>1
    <3> QED BY <3>1, <1>0, <1>1 DEF OrderInv, SnapshotOrder
  <2>2. ASSUME NEW i \in DOMAIN r PROVE NewerThan(r[i].frame.tick)'
    <3>t. PICK t : t = r[i].frame.tick
      OBVIOUS
    <3>1. i + 1 \in DOMAIN toClient /\ t = toClient[i + 1].frame.tick /\ b < t
      BY <1>1, <3>t
    <3>2. NewerThan(t) /\ t \in Nat
      BY <3>1, <1>0, <1>3 DEF OrderInv, SnapshotOrder, TicksTyped, MessageTyped, Past
    <3>3. \A c \in clientFrames' : c.tick < t
      BY <3>1, <3>2, <1>8 DEF NewerThan
    <3>4. \A j \in DOMAIN R : R[j].tick < t
      BY <3>1, <3>2, <1>1, <1>12
    <3>5. clientTick' < t
      BY <3>1, <1>8
    <3> QED BY <3>3, <3>4, <3>5, <3>t, <1>R DEF NewerThan
  <2> QED BY <2>1, <2>2, <1>r DEF SnapshotOrder
<1>14. AnswerOrder'
  <2>3. ASSUME NEW i \in DOMAIN R, NEW j \in DOMAIN R, i < j, IsTick(R[i]), IsTick(R[j])
        PROVE  InOrder(R[i], R[j])
    <3>1. i \in DOMAIN q /\ R[i] = q[i]
      BY <2>3, <1>7
    <3>2. j \in DOMAIN q /\ R[j] = q[j]
      BY <2>3, <1>7, AckFacts
    <3> QED BY <3>1, <3>2, <2>3, <1>0 DEF OrderInv, AnswerOrder
  <2> QED BY <2>3, <1>8, <1>12, <1>R DEF AnswerOrder
<1>15. WaitInv'
  <2>1. \A i \in DOMAIN R : IsTick(R[i]) => TickWaits(R[i])'
    <3> SUFFICES ASSUME NEW i \in DOMAIN R, IsTick(R[i]) PROVE TickWaits(R[i])'
      OBVIOUS
    <3>1. i \in DOMAIN q /\ R[i] = q[i]
      BY <1>7, AckFacts
    <3>2. TickWaits(R[i])
      BY <3>1, <1>0 DEF WaitInv
    <3> QED BY <3>2 DEF TickWaits
  <2>2. ASSUME NEW i \in DOMAIN r, r[i].from = -1
        PROVE  i = Len(r) /\ fullsSent = fullsRead + 1 /\ forceWait = r[i].frame.tick
    <3>1. i + 1 \in DOMAIN toClient /\ toClient[i + 1] = r[i] /\ i \in Nat
      BY <1>1
    <3>2. i + 1 = Len(toClient) /\ fullsSent = fullsRead + 1 /\ forceWait = r[i].frame.tick
      BY <3>1, <2>2, <1>0 DEF WaitInv
    <3> QED BY <3>1, <3>2, <1>1
  <2>3. fullsSent # fullsRead => r # <<>> /\ r[Len(r)].from = -1
    <3> SUFFICES ASSUME fullsSent # fullsRead PROVE r # <<>> /\ r[Len(r)].from = -1
      OBVIOUS
    <3>1. toClient[Len(toClient)].from = -1
      BY <1>0 DEF WaitInv
    <3>2. Len(toClient) # 1
      BY <3>1, <1>1
    <3>3. r # <<>> /\ Len(r) \in DOMAIN r
      BY <3>2, <1>1
    <3>4. r[Len(r)] = toClient[Len(r) + 1]
      BY <3>3, <1>1
    <3> QED BY <3>1, <3>3, <3>4, <1>1
  <2>4. forceWait = -1 => fullsSent = fullsRead /\ deltaTick # -1 /\ deltaTick <= b
    <3>1. deltaTick \in Int
      BY <1>0 DEF OrderInv, TicksTyped, Past
    <3>2. forceWait = -1 => fullsSent = fullsRead /\ deltaTick # -1 /\ deltaTick <= clientTick
      BY <1>0 DEF WaitInv
    <3> QED BY <3>1, <3>2, <1>1, <1>3
  <2>5. forceWait # -1 => fullsSent # fullsRead
    BY <1>0 DEF WaitInv
  <2>6. fullsSent \in Nat /\ fullsRead \in Nat
    BY <1>0 DEF WaitInv
  <2> QED BY <2>1, <2>2, <2>3, <2>4, <2>5, <2>6, <1>8, <1>r, <1>R DEF WaitInv
<1>16. FullInv(H)' /\ FramesInv(H)' /\ SentInv(H)'
  <2>1. FullInv(H)'
    <3>1. ASSUME NEW i \in DOMAIN r, r[i].from = -1
          PROVE  /\ WrittenFull(r[i], H)
                 /\ baseline = NoBaseline /\ baselineUsed = 0 /\ baselineTick = r[i].frame.tick
                 /\ baselinesSent = Entering(r[i].bits)
      BY <3>1, <1>0, <1>1 DEF FullInv
    <3> QED BY <3>1, <1>r DEF FullInv, WrittenFull
  <2>2. FramesInv(H)'
    BY <1>0, <1>1, <1>8, <1>9, <1>g DEF FramesInv
  <2> QED BY <2>1, <2>2, <1>0 DEF SentInv
<1>17. ShownInv(H)'
  <2>0. m.frame = Meant(g, f)
    BY <1>3, <1>b, <1>g DEF WrittenDelta
  <2>1. m.frame = [tick |-> g.tick, ents |-> [s \in g.transmit |-> [serial |-> g.ents[s].serial, vals |-> g.ents[s].vals]],
                   destroyed |-> {s \in Slots : Empty(g.ents[s]) /\ ~Empty(f.ents[s])}]
    BY <2>0 DEF Meant
  <2>2. \A s \in m.frame.destroyed : s \in Slots /\ NeedsDestroy(s, f, g)
    BY <2>1 DEF NeedsDestroy
  <2>3. shown'.tick = b /\ shown'.ents = [s \in g.transmit |-> Rec(g, s)]
        /\ \A s \in shown'.destroyed : s \in Slots /\ NeedsDestroy(s, f, g)
    BY <2>1, <2>2, <1>5, <1>8 DEF Rec
  <2>4. \A s \in g.transmit : entities'[s] = Rec(g, s)
    BY <1>4, <1>5, <1>8
  <2>5. \A s \in shown'.destroyed : entities'[s] = NoEntity
    BY <2>3, <1>4, <1>8
  <2> QED BY <2>3, <2>4, <2>5, <1>8, <1>g DEF ShownInv
<1>18. \A t \in Known : t \in Past /\ a <= t /\ t <= clientTick /\ Seen(H[t]) \in clientFrames' /\ Remembered(t, H)'
  <2> SUFFICES ASSUME NEW t \in Known
               PROVE  t \in Past /\ a <= t /\ t <= clientTick /\ Seen(H[t]) \in clientFrames' /\ Remembered(t, H)'
    OBVIOUS
  <2>1. t \in {-1} \cup Past /\ t <= clientTick
    <3>1. clientTick <= clientTick
      BY <1>3
    <3>2. forceWait = -1 => deltaTick <= clientTick
      BY <1>0 DEF WaitInv
    <3>3. \A j \in DOMAIN q : q[j].tick \in {-1} \cup Past
      BY <1>0 DEF OrderInv, TicksTyped, AnswerTyped
    <3> QED BY <3>1, <3>2, <3>3, <1>0, <1>3, <1>11 DEF Known, OrderInv, TicksTyped
  <2>2. Seen(H[t]) \in clientFrames /\ Remembered(t, H)
    BY <1>2 DEF KeptInv
  <2>3. a <= t
    BY <1>0, <1>1, <1>2, <1>3, <1>b DEF KeptInv
  <2>4. t \in Past
    BY <2>1, <2>3, <1>3 DEF Past
  <2>5. Seen(H[t]) \in clientFrames'
    <3>1. Seen(H[t]).tick = t
      BY <2>4, <1>0 DEF Seen, History
    <3> QED BY <3>1, <2>2, <2>3, <1>8
  <2>6. Remembered(t, H)'
    BY <2>1, <2>2, <2>4, <1>1, <1>2, <1>8, RememberedRead
  <2> QED BY <2>1, <2>3, <2>4, <2>5, <2>6
<1>19. Known' \subseteq Known \cup {b}
  <2>1. ASSUME NEW k \in DOMAIN R, IsTick(R[k]), R[k].read = fullsRead PROVE R[k].tick \in Known
    <3>1. k \in DOMAIN q /\ R[k] = q[k]
      BY <2>1, <1>7, AckFacts
    <3> QED BY <3>1, <2>1 DEF Known
  <2>2. forceWait = -1 => deltaTick \in Known
    BY DEF Known
  <2> QED BY <2>1, <2>2, <1>8, <1>R DEF Known
<1>20. Seen(H[b]) \in clientFrames' /\ Remembered(b, H)'
  <2>1. \A s \in g.transmit : entities'[s] = Rec(g, s)
    BY <1>4, <1>5, <1>8
  <2>2. b \in b .. b
    BY <1>1
  <2>3. \A s \in H[b].transmit : \E k \in b .. clientTick' : s \in H[k].transmit /\ entities'[s] = Rec(H[k], s)
    BY <2>1, <2>2, <1>8, <1>g
  <2>4. Remembered(b, H)'
    BY <2>3 DEF Remembered
  <2> QED BY <2>4, <1>8, <1>g
<1>21. KeptInv(H)'
  <2>1. \A t \in Known' : Seen(H[t]) \in clientFrames' /\ Remembered(t, H)'
    BY <1>18, <1>19, <1>20
  <2>2. ASSUME NEW i \in DOMAIN r, r[i].from # -1
        PROVE  /\ Seen(H[r[i].from]) \in clientFrames' /\ Remembered(r[i].from, H)'
               /\ \A t \in Known' : r[i].from <= t
               /\ \A j \in 1 .. i : r[j].from <= r[i].from
    <3>x. PICK x : x = r[i].from
      OBVIOUS
    <3>0. i + 1 \in DOMAIN toClient /\ toClient[i + 1] = r[i] /\ toClient[i + 1].from = x /\ i \in Nat /\ x # -1
      BY <1>1, <2>2, <3>x
    <3>1. /\ Seen(H[x]) \in clientFrames /\ Remembered(x, H)
          /\ \A t \in Known : x <= t
          /\ \A j \in 1 .. i + 1 : toClient[j].from <= x
      BY <3>0, <1>2 DEF KeptInv
    <3>2. x \in Past
      BY <3>0, <1>0 DEF OrderInv, TicksTyped, MessageTyped
    <3>3. a <= x
      <4>1. 1 \in 1 .. i + 1
        BY <3>0
      <4> QED BY <4>1, <3>1, <1>1, <1>b
    <3>4. x <= clientTick /\ x <= b
      <4>1. clientTick \in Known
        BY DEF Known
      <4> QED BY <4>1, <3>1, <3>2, <1>1, <1>3 DEF Past
    <3>5. Seen(H[x]) \in clientFrames'
      <4>1. Seen(H[x]).tick = x
        BY <3>2, <1>0 DEF Seen, History
      <4> QED BY <4>1, <3>1, <3>3, <1>8
    <3>6. Remembered(x, H)'
      BY <3>1, <3>2, <3>4, <1>1, <1>2, <1>8, RememberedRead
    <3>7. \A t \in Known' : x <= t
      BY <3>1, <3>4, <1>19
    <3>8. ASSUME NEW j \in 1 .. i PROVE r[j].from <= x
      <4>1. j \in DOMAIN r /\ j + 1 \in 1 .. i + 1
        BY <3>0, <1>1
      <4> QED BY <4>1, <3>1, <1>1
    <3> QED BY <3>x, <3>5, <3>6, <3>7, <3>8
  <2>3. \A i \in DOMAIN r : r[i].from # -1 =>
          /\ Seen(H[r[i].from]) \in clientFrames' /\ Remembered(r[i].from, H)'
          /\ \A t \in Known' : r[i].from <= t
          /\ \A j \in 1 .. i : r[j].from <= r[i].from
    BY <2>2
  <2> QED BY <2>1, <2>3, <1>r DEF KeptInv
<1>22. /\ clientBaselines'[m.number] = clientBaselines[m.number]
       /\ ~m.update => clientBaselines' = clientBaselines
       /\ m.update => clientBaselines'[1 - m.number] =
            [s \in Slots |-> IF m.bits[s].op = "enter" THEN Rec(g, s) ELSE clientBaselines[m.number][s]]
       /\ clientBaselines' \in [{0, 1} -> [Slots -> EntityOf]]
  BY <1>1, <1>2, <1>g, BaselinesRead
<1>23. DeltaInv(H)'
  <2>1. ASSUME NEW i \in DOMAIN r, r[i].from # -1
        PROVE  /\ WrittenDelta(r[i], clientBaselines'[r[i].number], H)
               /\ \A j \in 1 .. i - 1 : r[j].update => r[j].number = r[i].number
    <3>0. i + 1 \in DOMAIN toClient /\ toClient[i + 1] = r[i] /\ toClient[i + 1].from # -1 /\ i \in Nat /\ i >= 1
      BY <1>1, <2>1
    <3>1. /\ WrittenDelta(r[i], clientBaselines[r[i].number], H)
          /\ \A j \in 1 .. (i + 1) - 1 : toClient[j].update => toClient[j].number = r[i].number
      BY <3>0, <1>2 DEF DeltaInv
    <3>2. m.update => m.number = r[i].number
      <4>1. 1 \in 1 .. (i + 1) - 1
        BY <3>0
      <4> QED BY <4>1, <3>1, <1>1
    <3>3. clientBaselines'[r[i].number] = clientBaselines[r[i].number]
      BY <3>2, <1>22
    <3>4. ASSUME NEW j \in 1 .. i - 1, r[j].update PROVE r[j].number = r[i].number
      <4>1. j \in DOMAIN r /\ j + 1 \in 1 .. (i + 1) - 1
        BY <3>0, <1>1
      <4> QED BY <4>1, <3>1, <3>4, <1>1
    <3> QED BY <3>1, <3>3, <3>4
  <2>2. \A i \in DOMAIN r : r[i].from # -1 =>
          /\ WrittenDelta(r[i], clientBaselines'[r[i].number], H)
          /\ \A j \in 1 .. i - 1 : r[j].update => r[j].number = r[i].number
    BY <2>1
  <2>3. toClient' = r
    BY <1>r
  <2> HIDE DEF WrittenDelta
  <2> QED BY <2>2, <2>3 DEF DeltaInv
<1>24. fullsRead' = fullsSent' => SyncInv(H)'
  <2> SUFFICES ASSUME fullsRead = fullsSent PROVE SyncInv(H)'
    OBVIOUS
  <2>0. SyncInv(H) /\ baselineUsed \in {0, 1}
    BY <1>0 DEF SnapInv, ClientInv, Typed
  <2>1. m.update => m.number = baselineUsed /\ b = baselineTick /\ baselinesSent = Entering(m.bits)
    BY <2>0, <1>1, <1>b DEF SyncInv
  <2>2. clientBaselines'[baselineUsed] = baseline
    BY <2>0, <2>1, <1>22 DEF SyncInv
  <2>3. \A i \in DOMAIN r : r[i].update =>
          /\ r[i].number = baselineUsed /\ r[i].frame.tick = baselineTick
          /\ baselinesSent = Entering(r[i].bits)
    BY <2>0, <1>1 DEF SyncInv
  <2>4. ASSUME NEW j \in DOMAIN R, R[j].op = "baseline", R[j].tick = baselineTick, R[j].number = baselineUsed
        PROVE  clientBaselines'[1 - baselineUsed] =
                 [s \in Slots |-> IF s \in baselinesSent THEN Rec(H[baselineTick], s) ELSE baseline[s]]
    <3>1. CASE j \in DOMAIN q /\ R[j] = q[j]
      <4>1. clientBaselines[1 - baselineUsed] =
                 [s \in Slots |-> IF s \in baselinesSent THEN Rec(H[baselineTick], s) ELSE baseline[s]]
        BY <3>1, <2>0, <2>4 DEF SyncInv
      <4>2. ~m.update
        BY <3>1, <2>1, <2>4, <1>11
      <4> QED BY <4>1, <4>2, <1>22
    <3>2. CASE m.update
      <4>1. \A s \in Slots : m.bits[s].op = "enter" <=> s \in baselinesSent
        BY <3>2, <2>1 DEF Entering
      <4>2. H[baselineTick] = g /\ clientBaselines[m.number] = baseline
        BY <3>2, <2>0, <2>1, <1>g DEF SyncInv
      <4> QED BY <4>1, <4>2, <3>2, <2>1, <1>22
    <3> QED BY <3>1, <3>2, <1>7
  <2> QED BY <2>2, <2>3, <2>4, <1>r, <1>R DEF SyncInv
<1>25. Typed'
  <2>0. NoEntity \in EntityOf
    BY ZeroTyped, ClassAssumption DEF NoEntity, EntityOf
  <2>1. \A s \in Slots : ReadEntity(m, s) \in EntityOf
    BY <2>0, <1>0, <1>4, <1>5 DEF Typed
  <2>2. clientTick' # -1
    BY <1>1, <1>8
  <2> QED BY <2>1, <2>2, <1>0, <1>8, <1>22 DEF Typed
<1>26. ClientInv(H)'
  BY <1>17, <1>21, <1>23, <1>24 DEF ClientInv
<1> QED BY <1>9, <1>10, <1>13, <1>14, <1>15, <1>16, <1>25, <1>26 DEF SnapInv, OrderInv

-----------------------------------------------------------------------------
(* The client reads a snapshot.                                            *)

\* A snapshot arrives.
LEMMA SnapshotStep ==
  ASSUME NEW H, SnapInv(H), ReceiveSnapshot
  PROVE  SnapInv(H)' /\ failures' \subseteq failures \cup {"snapshot not read"}
         /\ (DeletedIsNotSent => failures' = failures)
<1>m. PICK m : m = Head(toClient)
  OBVIOUS
<1>o. PICK old : old = UNION {f.transmit : f \in FrameAt(clientFrames, m.from)}
  OBVIOUS
<1>0. fullsRead \in Nat /\ fullsRead + 0 = fullsRead
  BY DEF SnapInv, WaitInv
<1>1. /\ toClient # <<>> /\ toClient' = Tail(toClient)
      /\ fullsRead' = fullsRead + IF m.from = -1 THEN 1 ELSE 0
      /\ \/ /\ m.from # -1 /\ clientTick = -1
            /\ UNCHANGED <<entities, clientFrames, clientTick, clientBaselines, shown, toServer, failures>>
         \/ /\ m.from = -1 \/ clientTick # -1
            /\ ~Unreadable(m, old) /\ Read(m, old) /\ UNCHANGED failures
         \/ /\ m.from = -1 \/ clientTick # -1
            /\ Unreadable(m, old) /\ Fail("snapshot not read")
            /\ UNCHANGED <<entities, clientFrames, clientTick, clientBaselines, shown, toServer>>
      /\ UNCHANGED <<requests, worldVars, tick, frames, sendVars, fullsSent>>
  BY <1>m, <1>o DEF ReceiveSnapshot
<1>2. CASE m.from # -1 /\ clientTick = -1
           /\ UNCHANGED <<entities, clientFrames, clientTick, clientBaselines, shown, toServer, failures>>
  <2>1. fullsRead' = fullsRead
    BY <1>1, <1>2, <1>0
  <2>2. SnapInv(H)'
    BY <2>1, <1>1, <1>2, <1>m, DropSnapshot DEF clientVars
  <2> QED BY <2>2, <1>2
<1>3. CASE (m.from = -1 \/ clientTick # -1) /\ Unreadable(m, old) /\ Fail("snapshot not read")
           /\ UNCHANGED <<entities, clientFrames, clientTick, clientBaselines, shown, toServer>>
  <2>0. m.from # -1 /\ m.deletions \cap DOMAIN m.frame.ents # {}
    BY <1>1, <1>3, <1>m, <1>o, Readable
  <2>1. fullsRead' = fullsRead
    BY <2>0, <1>1, <1>0
  <2>2. SnapInv(H)'
    BY <2>0, <2>1, <1>1, <1>3, <1>m, DropSnapshot DEF clientVars
  <2>3. ~DeletedIsNotSent
    <3>1. m = toClient[1] /\ 1 \in DOMAIN toClient
      <4>1. PICK r : r = Tail(toClient)
        OBVIOUS
      <4> QED BY <4>1, <1>1, <1>m, SnapshotHead
    <3>2. m \in ToSet(toClient)
      BY <3>1 DEF ToSet
    <3> QED BY <2>0, <3>2 DEF DeletedIsNotSent
  <2>4. failures' = failures \cup {"snapshot not read"}
    BY <1>3 DEF Fail
  <2> QED BY <2>2, <2>3, <2>4
<1>4. CASE (m.from = -1 \/ clientTick # -1) /\ ~Unreadable(m, old) /\ Read(m, old) /\ UNCHANGED failures
  <2>1. CASE m.from = -1
    <3>1. FrameAt(clientFrames, -1) = {}
      <4>1. PICK r : r = Tail(toClient)
        OBVIOUS
      <4> QED BY <4>1, <1>1, <1>m, SnapshotHead
    <3>2. old = {}
      BY <3>1, <2>1, <1>o, SlotsOf
    <3>3. fullsRead' = fullsRead + 1
      BY <2>1, <1>1
    <3>4. SnapInv(H)'
      BY <2>1, <3>2, <3>3, <1>1, <1>4, <1>m, ReadFull
    <3> QED BY <3>4, <1>4
  <2>2. CASE m.from # -1
    <3>a. PICK a, b : a = m.from /\ b = m.frame.tick
      OBVIOUS
    <3>1. DeltaKnown(m, a, b, H)
      BY <2>2, <3>a, <1>1, <1>4, <1>m, DeltaHead
    <3>2. FrameAt(clientFrames, a) = {Seen(H[a])}
      BY <3>1 DEF DeltaKnown
    <3>3. old = Seen(H[a]).transmit
      <4>1. \A s : s \in old <=> s \in Seen(H[a]).transmit
        BY <3>2, <3>a, <1>o
      <4> QED BY <4>1
    <3>4. old = H[m.from].transmit
      BY <3>3, <3>a DEF Seen
    <3>5. fullsRead' = fullsRead
      BY <2>2, <1>1, <1>0
    <3>6. SnapInv(H)'
      BY <2>2, <3>4, <3>5, <1>1, <1>4, <1>m, ReadDelta
    <3> QED BY <3>6, <1>4
  <2> QED BY <2>1, <2>2
<1> QED BY <1>1, <1>2, <1>3, <1>4

-----------------------------------------------------------------------------
(* The server takes a snapshot: what it keeps, and what it can be about.   *)

\* Of finitely many frames one is the oldest.
LEMMA Oldest ==
  ASSUME NEW fs, IsFiniteSet(fs), fs # {}, \A x \in fs : x.tick \in Int
  PROVE  \E x \in fs : \A g \in fs : ~(g.tick < x.tick)
<1> DEFINE Older(x) == {g \in fs : g.tick < x.tick}
           T == {Older(x) : x \in fs}
<1>1. IsWellFoundedOn(StrictSubsetOrdering(fs), SUBSET fs)
  <2>1. FiniteSubsetsOf(fs) = SUBSET fs
    BY FS_FiniteSubsetsOfFinite
  <2>2. IsWellFoundedOn(StrictSubsetOrdering(fs), FiniteSubsetsOf(fs))
    BY FS_StrictSubsetOrderingWellFounded
  <2> QED BY <2>1, <2>2
<1>2. T \subseteq SUBSET fs /\ T # {}
  OBVIOUS
<1>3. PICK U \in T : \A V \in T : <<V, U>> \notin StrictSubsetOrdering(fs)
  <2> HIDE DEF T
  <2> QED BY ONLY <1>1, <1>2, WFMin
<1>4. PICK x \in fs : U = Older(x)
  OBVIOUS
<1>5. ASSUME NEW g \in fs, g.tick < x.tick
      PROVE  FALSE
  <2>1. Older(g) \subseteq U /\ g \in U /\ g \notin Older(g)
    BY <1>4, <1>5
  <2>2. Older(g) \in SUBSET fs /\ U \in SUBSET fs /\ Older(g) \in T
    BY <1>4
  <2>3. <<Older(g), U>> \in StrictSubsetOrdering(fs)
    BY <2>1, <2>2 DEF StrictSubsetOrdering
  <2> QED BY <1>3, <2>2, <2>3
<1> QED BY <1>5

\* The frames stay within their bound when one is added.
LEMMA NewestBound ==
  ASSUME NEW fs, IsFiniteSet(fs), Cardinality(fs) <= MaxFrames, NEW f,
         \A x \in fs \cup {f} : x.tick \in Int
  PROVE  /\ Newest(fs \cup {f}) \subseteq fs \cup {f}
         /\ IsFiniteSet(Newest(fs \cup {f})) /\ Cardinality(Newest(fs \cup {f})) <= MaxFrames
<1>g. PICK gs : gs = fs \cup {f}
  OBVIOUS
<1>1. IsFiniteSet(gs) /\ Cardinality(gs) \in Nat /\ Cardinality(gs) <= MaxFrames + 1 /\ MaxFrames \in Nat
  <2>1. IsFiniteSet(gs) /\ Cardinality(gs) = IF f \in fs THEN Cardinality(fs) ELSE Cardinality(fs) + 1
    BY <1>g, FS_AddElement
  <2>2. Cardinality(fs) \in Nat /\ Cardinality(gs) \in Nat
    BY <2>1, FS_CardinalityType
  <2> QED BY <2>1, <2>2, FramesAssumption
<1>2. Newest(gs) \subseteq gs
  BY DEF Newest
<1>3. IsFiniteSet(Newest(gs)) /\ Cardinality(Newest(gs)) \in Nat
  BY <1>1, <1>2, FS_Subset, FS_CardinalityType
<1>4. CASE Cardinality(gs) > MaxFrames
  <2>1. PICK x \in gs : \A g \in gs : ~(g.tick < x.tick)
    BY <1>1, <1>g, Oldest
  <2>2. Newest(gs) \subseteq gs \ {x}
    BY <1>4, <2>1 DEF Newest
  <2>3. IsFiniteSet(gs \ {x}) /\ Cardinality(gs \ {x}) = Cardinality(gs) - 1
    BY <1>1, FS_RemoveElement
  <2>4. Cardinality(Newest(gs)) <= Cardinality(gs \ {x})
    BY <2>2, <2>3, FS_Subset
  <2>5. Cardinality(Newest(gs)) <= MaxFrames
    BY <1>1, <1>3, <2>3, <2>4
  <2> QED BY ONLY <1>2, <1>3, <1>g, <2>5
<1>5. CASE ~(Cardinality(gs) > MaxFrames)
  <2>1. Newest(gs) = gs
    BY <1>5 DEF Newest
  <2>2. Cardinality(Newest(gs)) <= MaxFrames
    BY <1>1, <1>5, <2>1
  <2> QED BY ONLY <1>2, <1>3, <1>g, <2>2
<1> QED BY <1>4, <1>5

-----------------------------------------------------------------------------
\* What is said of a message and of the client's entities holds of the longer history.
LEMMA MessagesGrown ==
  ASSUME tick \in Nat, NEW H, NEW f, NEW G, G = Extended(H, f), NEW m, m.frame.tick \in Past
  PROVE  /\ WrittenFull(m, H) => WrittenFull(m, G)
         /\ \A bl : m.from \in Past /\ WrittenDelta(m, bl, H) => WrittenDelta(m, bl, G)
<1>b. PICK b : b = m.frame.tick
  OBVIOUS
<1>1. /\ \A t \in Past : G[t] = H[t]
      /\ \A t \in 1 .. b - 1 : t \in Past
      /\ G[b] = H[b] /\ b \in Past
  <2>1. \A t \in Past : G[t] = H[t]
    BY ExtendedAt
  <2> QED BY <2>1, <1>b DEF Past
<1>2. WrittenFull(m, H) => WrittenFull(m, G)
  BY <1>1, <1>b DEF WrittenFull
<1>3. \A s : NewIn(s, b, H) => NewIn(s, b, G)
  BY <1>1 DEF NewIn
<1>4. ASSUME NEW bl, m.from \in Past, WrittenDelta(m, bl, H)
      PROVE  WrittenDelta(m, bl, G)
  <2>1. G[m.from] = H[m.from]
    BY <1>1, <1>4
  <2> QED BY <2>1, <1>1, <1>3, <1>4, <1>b DEF WrittenDelta
<1> QED BY <1>2, <1>4

\* What the client has agrees with the history also when a snapshot is added to it.
LEMMA ClientGrown ==
  ASSUME tick \in Nat, NEW H, NEW f, NEW G, G = Extended(H, f), clientTick \in {-1} \cup Past,
         UNCHANGED clientVars, tick' = tick + 1
  PROVE  /\ FramesInv(H) => FramesInv(G)'
         /\ \A t \in Past : Seen(G[t]) = Seen(H[t])
         /\ clientTick # -1 => /\ ShownInv(H) => ShownInv(G)'
                               /\ \A t \in Past : Remembered(t, H) => Remembered(t, G)'
<1> USE DEF clientVars
<1>1. /\ \A t \in Past : G[t] = H[t] /\ t \in Past'
  <2>1. \A t \in Past : G[t] = H[t]
    BY ExtendedAt
  <2> QED BY <2>1 DEF Past
<1>2. FramesInv(H) => FramesInv(G)'
  BY <1>1 DEF FramesInv
<1>3. clientTick # -1 /\ ShownInv(H) => ShownInv(G)'
  BY <1>1 DEF ShownInv
<1>4. ASSUME clientTick # -1, NEW t \in Past, Remembered(t, H)
      PROVE  Remembered(t, G)'
  <2>1. \A g \in t .. clientTick : G[g] = H[g]
    BY <1>1, <1>4 DEF Past
  <2>2. G[t] = H[t]
    BY <1>1
  <2> QED BY <2>1, <2>2, <1>4 DEF Remembered
<1> QED BY <1>1, <1>2, <1>3, <1>4

\* The snapshot G[tick + 1] is taken, and the client's side stays.
ServerRuns(H, G) ==
  /\ tick' = tick + 1 /\ Taken(G[tick + 1], H) /\ G = Extended(H, G[tick + 1]) /\ History(G)' /\ WorldTyped'
  /\ UNCHANGED clientVars /\ toServer' = toServer /\ deltaTick' = deltaTick

\* The ticks when the server takes a snapshot: the new one is later than all that the client knows.
LEMMA RunFacts ==
  ASSUME NEW H, SnapInv(H), NEW G, ServerRuns(H, G)
  PROVE  /\ tick \in Nat /\ Past = 1 .. tick /\ Past' = Past \cup {tick + 1} /\ Past \subseteq Past'
         /\ \A t \in Past : t \in Nat /\ t < tick + 1 /\ t # -1 /\ G[t] = H[t]
         /\ NewerThan(tick + 1)
         /\ clientTick \in {-1} \cup Past
         /\ G[tick + 1] \in Frame /\ G[tick + 1].tick = tick + 1
         /\ \A c \in frames' : c.tick \in Past' /\ c = G[c.tick]
<1>0. WorldTyped /\ OrderInv /\ FramesInv(H) /\ tick' = tick + 1
  BY DEF SnapInv, ServerRuns
<1>1. tick \in Nat /\ Past = 1 .. tick /\ Past' = 1 .. tick + 1
  BY <1>0 DEF WorldTyped, Past
<1>2. Past' = Past \cup {tick + 1} /\ Past \subseteq Past'
  BY <1>1
<1>3. \A t \in Past : t \in Nat /\ t < tick + 1 /\ t # -1 /\ G[t] = H[t]
  <2>1. \A t \in Past : G[t] = H[t]
    BY <1>1, ExtendedAt DEF ServerRuns
  <2> QED BY <2>1, <1>1
<1>4. NewerThan(tick + 1)
  <2>1. clientTick < tick + 1
    BY <1>0, <1>1 DEF OrderInv, TicksTyped
  <2>2. \A c \in clientFrames : c.tick < tick + 1
    BY <1>0, <1>1 DEF FramesInv
  <2>3. \A j \in DOMAIN toServer : toServer[j].tick < tick + 1
    BY <1>0, <1>1 DEF OrderInv, TicksTyped, AnswerTyped
  <2> QED BY <2>1, <2>2, <2>3 DEF NewerThan
<1> QED BY <1>0, <1>1, <1>2, <1>3, <1>4 DEF ServerRuns, Taken, OrderInv, TicksTyped, History

\* The messages under way, with at most one more, stay in order.
LEMMA RunOrder ==
  ASSUME NEW H, SnapInv(H), NEW G, ServerRuns(H, G), NEW r, r = toClient', IsList(r),
         \A i \in DOMAIN r : \/ i \in DOMAIN toClient /\ r[i] = toClient[i]
                             \/ MessageTyped(r[i])' /\ r[i].frame.tick = tick + 1,
         \A i, j \in DOMAIN r : i < j => i \in DOMAIN toClient /\ r[i] = toClient[i],
         forceWait' \in {-1} \cup Past', baselineTick' \in {-1} \cup Past'
  PROVE  OrderInv'
<1>0. OrderInv /\ UNCHANGED <<clientTick, clientFrames, toServer, deltaTick>>
  BY DEF SnapInv, ServerRuns, clientVars
<1>1. /\ tick \in Nat /\ Past' = Past \cup {tick + 1} /\ Past \subseteq Past'
      /\ \A t \in Past : t \in Nat /\ t < tick + 1 /\ t # -1
      /\ NewerThan(tick + 1)
  BY RunFacts
<1>q. PICK q : q = toClient
  OBVIOUS
<1>2. \A i \in DOMAIN q : MessageTyped(q[i]) /\ MessageTyped(q[i])'
  BY <1>q, <1>0, <1>1 DEF OrderInv, TicksTyped, MessageTyped
<1>3. \A i \in DOMAIN toServer : AnswerTyped(toServer[i])'
  BY <1>0, <1>1 DEF OrderInv, TicksTyped, AnswerTyped
<1>4. TicksTyped'
  <2>1. \A i \in DOMAIN r : MessageTyped(r[i])'
    BY <1>2, <1>q
  <2> QED BY <2>1, <1>0, <1>1, <1>3 DEF OrderInv, TicksTyped
<1>5. SnapshotOrder'
  <2>1. ASSUME NEW i \in DOMAIN r, NEW j \in DOMAIN r, i < j
        PROVE  r[i].frame.tick < r[j].frame.tick
    <3>1. i \in DOMAIN toClient /\ r[i] = toClient[i]
      BY <2>1
    <3>2. r[i].frame.tick < tick + 1
      BY <3>1, <1>1, <1>2, <1>q DEF MessageTyped
    <3>3. CASE j \in DOMAIN toClient /\ r[j] = toClient[j]
      BY <3>1, <3>3, <2>1, <1>0 DEF OrderInv, SnapshotOrder
    <3>4. CASE r[j].frame.tick = tick + 1
      BY <3>2, <3>4
    <3> QED BY <3>3, <3>4
  <2>2. ASSUME NEW i \in DOMAIN r PROVE NewerThan(r[i].frame.tick)'
    <3>1. NewerThan(r[i].frame.tick)
      BY <1>0, <1>1 DEF OrderInv, SnapshotOrder
    <3> QED BY <3>1, <1>0 DEF NewerThan
  <2> QED BY <2>1, <2>2 DEF SnapshotOrder
<1>6. AnswerOrder'
  BY <1>0 DEF OrderInv, AnswerOrder
<1> QED BY <1>4, <1>5, <1>6 DEF OrderInv

\* What is kept of the client's entities and of the messages that were under way.
LEMMA RunKept ==
  ASSUME NEW H, SnapInv(H), NEW G, ServerRuns(H, G)
  PROVE  /\ FramesInv(G)'
         /\ \A t \in Past : Seen(G[t]) = Seen(H[t])
         /\ \A i \in DOMAIN toClient : /\ WrittenFull(toClient[i], H) => WrittenFull(toClient[i], G)
                                       /\ \A bl : WrittenDelta(toClient[i], bl, H) /\ toClient[i].from # -1
                                            => WrittenDelta(toClient[i], bl, G)
         /\ clientTick # -1 => ShownInv(G)' /\ \A t \in Past : Remembered(t, H) => Remembered(t, G)'
<1>0. /\ tick \in Nat /\ tick' = tick + 1 /\ G = Extended(H, G[tick + 1]) /\ OrderInv /\ FramesInv(H)
      /\ UNCHANGED clientVars /\ clientTick \in {-1} \cup Past
  BY DEF SnapInv, ServerRuns, WorldTyped, OrderInv, TicksTyped
<1>f. PICK f : f = G[tick + 1]
  OBVIOUS
<1>1. /\ FramesInv(G)' /\ \A t \in Past : Seen(G[t]) = Seen(H[t])
      /\ clientTick # -1 /\ ShownInv(H) => ShownInv(G)'
      /\ clientTick # -1 => \A t \in Past : Remembered(t, H) => Remembered(t, G)'
  BY <1>0, <1>f, ClientGrown
<1>2. clientTick # -1 => ShownInv(H)
  BY DEF SnapInv, ClientInv
<1>3. ASSUME NEW i \in DOMAIN toClient
      PROVE  /\ WrittenFull(toClient[i], H) => WrittenFull(toClient[i], G)
             /\ \A bl : WrittenDelta(toClient[i], bl, H) /\ toClient[i].from # -1 => WrittenDelta(toClient[i], bl, G)
  <2>m. PICK m : m = toClient[i]
    OBVIOUS
  <2>1. MessageTyped(m)
    BY <2>m, <1>0 DEF OrderInv, TicksTyped
  <2>2. m.frame.tick \in Past /\ (m.from # -1 => m.from \in Past)
    BY <2>1 DEF MessageTyped
  <2> QED BY <2>2, <2>m, <1>0, <1>f, MessagesGrown
<1> QED BY <1>1, <1>2, <1>3

\* All that the server can still learn of are ticks of snapshots.
LEMMA KnownPast ==
  ASSUME NEW H, SnapInv(H), clientTick # -1
  PROVE  Known \subseteq Past /\ (forceWait = -1 => \A t \in Known : deltaTick <= t)
<1>0. OrderInv /\ WaitInv /\ WorldTyped
  BY DEF SnapInv
<1>1. ASSUME NEW j \in DOMAIN toServer, IsTick(toServer[j]), toServer[j].read = fullsRead
      PROVE  toServer[j].tick \in Past /\ (forceWait = -1 => deltaTick <= toServer[j].tick)
  <2>1. TickWaits(toServer[j]) /\ AnswerTyped(toServer[j])
    BY <1>0, <1>1 DEF WaitInv, OrderInv, TicksTyped
  <2> QED BY <2>1, <1>1 DEF TickWaits, AnswerTyped
<1>2. forceWait = -1 => deltaTick \in Past /\ deltaTick <= clientTick /\ deltaTick <= deltaTick
  BY <1>0 DEF WaitInv, OrderInv, TicksTyped, WorldTyped, Past
<1>3. clientTick \in Past
  BY <1>0 DEF OrderInv, TicksTyped
<1> QED BY <1>1, <1>2, <1>3 DEF Known

\* What a new delta has to be.
NewDelta(x, G) ==
  /\ x.from \in Known /\ \A t \in Known : x.from <= t
  /\ WrittenDelta(x, clientBaselines[x.number], G)
  /\ \A j \in DOMAIN toClient : toClient[j].from <= x.from /\ (toClient[j].update => toClient[j].number = x.number)

\* The client's part of the invariant when the server takes a snapshot and writes at most one message.
LEMMA RunClient ==
  ASSUME NEW H, SnapInv(H), NEW G, ServerRuns(H, G), clientTick # -1, forceWait' = -1 => forceWait = -1,
         NEW r, r = toClient', DOMAIN r = 1 .. Len(r), Len(r) \in Nat,
         \A i \in DOMAIN r : \/ i \in DOMAIN toClient /\ r[i] = toClient[i]
                             \/ r[i].from # -1 => NewDelta(r[i], G),
         \A i, j \in DOMAIN r : i < j => i \in DOMAIN toClient /\ r[i] = toClient[i]
  PROVE  ShownInv(G)' /\ KeptInv(G)' /\ DeltaInv(G)'
<1>q. PICK q : q = toClient
  OBVIOUS
<1>0. KeptInv(H) /\ DeltaInv(H) /\ OrderInv /\ UNCHANGED <<clientTick, clientFrames, clientBaselines, toServer, deltaTick, fullsRead>>
  BY DEF SnapInv, ServerRuns, clientVars, ClientInv
<1>1. Known \subseteq Past /\ Known' \subseteq Known
  BY <1>0, KnownPast DEF Known
<1>2. /\ ShownInv(G)' /\ \A t \in Past : Seen(G[t]) = Seen(H[t])
      /\ \A i \in DOMAIN q : \A bl : WrittenDelta(q[i], bl, H) /\ q[i].from # -1 => WrittenDelta(q[i], bl, G)
      /\ \A t \in Past : Remembered(t, H) => Remembered(t, G)'
  BY <1>q, RunKept
<1>3. \A t \in Known : Seen(G[t]) \in clientFrames' /\ Remembered(t, G)'
  BY <1>0, <1>1, <1>2 DEF KeptInv
<1>4. ASSUME NEW i \in DOMAIN r, r[i].from # -1
      PROVE  /\ Seen(G[r[i].from]) \in clientFrames' /\ Remembered(r[i].from, G)'
             /\ \A t \in Known' : r[i].from <= t
             /\ \A j \in 1 .. i : r[j].from <= r[i].from
             /\ WrittenDelta(r[i], clientBaselines[r[i].number], G)
             /\ \A j \in 1 .. i - 1 : r[j].update => r[j].number = r[i].number
  <2>x. PICK x : x = r[i]
    OBVIOUS
  <2>1. i \in Nat /\ \A j \in 1 .. i : j \in DOMAIN r /\ (j < i \/ j = i)
    OBVIOUS
  <2>2. \A j \in 1 .. i : j = i \/ (j \in DOMAIN q /\ r[j] = q[j])
    BY <2>1, <1>q
  <2>3. \A j \in 1 .. i - 1 : j \in 1 .. i /\ j # i
    BY <2>1
  <2>4. CASE i \in DOMAIN q /\ x = q[i]
    <3>1. x.from \in Past /\ x.from <= x.from
      <4>1. x.from \in Past
        BY <2>4, <2>x, <1>4, <1>q, <1>0 DEF OrderInv, TicksTyped, MessageTyped
      <4>2. \A t \in Past : t \in Nat
        BY RunFacts
      <4> QED BY <4>1, <4>2
    <3>2. /\ Seen(H[x.from]) \in clientFrames /\ Remembered(x.from, H)
          /\ \A t \in Known : x.from <= t
          /\ \A j \in 1 .. i : q[j].from <= x.from
          /\ WrittenDelta(x, clientBaselines[x.number], H)
          /\ \A j \in 1 .. i - 1 : q[j].update => q[j].number = x.number
      <4>1. i \in DOMAIN toClient /\ toClient[i] = x /\ x.from # -1
        BY <2>4, <2>x, <1>4, <1>q
      <4>2. /\ Seen(H[x.from]) \in clientFrames /\ Remembered(x.from, H)
            /\ \A t \in Known : x.from <= t
            /\ \A j \in 1 .. i : toClient[j].from <= x.from
        BY ONLY <4>1, <1>0 DEF KeptInv
      <4>3. /\ WrittenDelta(x, clientBaselines[x.number], H)
            /\ \A j \in 1 .. i - 1 : toClient[j].update => toClient[j].number = x.number
        BY ONLY <4>1, <1>0 DEF DeltaInv
      <4> QED BY ONLY <4>2, <4>3, <1>q
    <3>3. WrittenDelta(x, clientBaselines[x.number], G)
      BY <2>4, <2>x, <1>4, <3>2, <1>2
    <3>4. Seen(G[x.from]) \in clientFrames' /\ Remembered(x.from, G)'
      BY <3>1, <3>2, <1>0, <1>2
    <3> QED BY <2>2, <2>3, <2>x, <3>1, <3>2, <3>3, <3>4, <1>1
  <2>5. CASE NewDelta(x, G)
    <3>1. /\ x.from \in Known /\ \A t \in Known : x.from <= t
          /\ WrittenDelta(x, clientBaselines[x.number], G)
          /\ \A j \in DOMAIN q : q[j].from <= x.from /\ (q[j].update => q[j].number = x.number)
      BY <2>5, <1>q DEF NewDelta
    <3>2. Seen(G[x.from]) \in clientFrames' /\ Remembered(x.from, G)'
      BY <3>1, <1>3
    <3> QED BY <2>2, <2>3, <2>x, <3>1, <3>2, <1>1
  <2> QED BY <2>4, <2>5, <2>x, <1>q, <1>4
<1>5. KeptInv(G)'
  <2>1. \A i \in DOMAIN r : r[i].from # -1 =>
         /\ Seen(G[r[i].from]) \in clientFrames' /\ Remembered(r[i].from, G)'
         /\ \A t \in Known' : r[i].from <= t
         /\ \A j \in 1 .. i : r[j].from <= r[i].from
    BY <1>4
  <2> QED BY <2>1, <1>1, <1>3 DEF KeptInv
<1>6. DeltaInv(G)'
  <2>1. \A i \in DOMAIN r : r[i].from # -1 =>
         /\ WrittenDelta(r[i], clientBaselines[r[i].number], G)
         /\ \A j \in 1 .. i - 1 : r[j].update => r[j].number = r[i].number
    BY <1>4
  <2>2. \A i \in DOMAIN r : r[i].from # -1 =>
         /\ WrittenDelta(r[i], clientBaselines'[r[i].number], G)
         /\ \A j \in 1 .. i - 1 : r[j].update => r[j].number = r[i].number
    BY <2>1, <1>0
  <2> QED BY <2>2 DEF DeltaInv, WrittenDelta
<1> QED BY <1>2, <1>5, <1>6

\* Types and bounds.
LEMMA RunTyped ==
  ASSUME NEW H, SnapInv(H), NEW G, ServerRuns(H, G), frames' = Newest(frames \cup {G[tick + 1]}),
         tick < MaxTick \/ (deltaTick = -1 /\ forceWait <= 0),
         clientTick = -1 /\ fullsRead = fullsSent' => tick < MaxTick,
         baselineUsed' \in {0, 1}, baselinesSent' \subseteq Slots, baseline' \in [Slots -> EntityOf]
  PROVE  Typed'
<1>0. WorldTyped /\ OrderInv /\ WaitInv /\ Typed /\ tick' = tick + 1 /\ UNCHANGED clientVars /\ History(H)
  BY DEF SnapInv, ServerRuns
<1>1. tick \in Nat /\ requests \in Nat /\ MaxTick \in Nat
  BY <1>0, BoundsAssumption DEF WorldTyped, Typed
<1>2. tick < MaxTick \/ tick <= MaxTick + requests
  <2>1. CASE deltaTick = -1 /\ forceWait <= 0
    <3>1. forceWait = -1
      BY <2>1, <1>0, <1>1 DEF OrderInv, TicksTyped, Past
    <3> QED BY <2>1, <3>1, <1>0 DEF WaitInv, Typed
  <2> QED BY <2>1
<1>3. tick + 1 <= MaxTick + requests + 1 /\ (clientTick = -1 /\ fullsRead = fullsSent' => tick + 1 <= MaxTick + requests)
  BY <1>1, <1>2
<1>4. IsFiniteSet(frames') /\ Cardinality(frames') <= MaxFrames
  <2>f. PICK f : f = G[tick + 1]
    OBVIOUS
  <2>1. f.tick \in Int
    BY <2>f, <1>1, RunFacts
  <2>2. \A x \in frames : x.tick \in Int
    BY <1>0 DEF History, Past
  <2>3. frames' = Newest(frames \cup {f}) /\ IsFiniteSet(frames) /\ Cardinality(frames) <= MaxFrames
        /\ \A x \in frames \cup {f} : x.tick \in Int
    BY <2>1, <2>2, <2>f, <1>0 DEF Typed
  <2>4. IsFiniteSet(Newest(frames \cup {f})) /\ Cardinality(Newest(frames \cup {f})) <= MaxFrames
    BY ONLY <2>3, NewestBound
  <2> QED BY ONLY <2>3, <2>4
<1> QED BY <1>0, <1>3, <1>4 DEF Typed, clientVars

-----------------------------------------------------------------------------
(* It sends nothing, or one message.                                       *)

\* While a full update is not acknowledged nothing is sent.
LEMMA SendNothing ==
  ASSUME NEW H, SnapInv(H), NEW G, ServerRuns(H, G), Typed', forceWait > 0,
         UNCHANGED <<sendVars, fullsSent, toClient>>
  PROVE  SnapInv(G)'
<1> USE DEF sendVars
<1>q. PICK q : q = toClient
  OBVIOUS
<1>0. /\ OrderInv /\ WaitInv /\ FullInv(H) /\ SentInv(H) /\ ClientInv(H)
      /\ WorldTyped' /\ History(G)'
      /\ UNCHANGED <<clientTick, clientFrames, clientBaselines, toServer, deltaTick, fullsRead>>
  BY DEF SnapInv, ServerRuns, clientVars
<1>1. Past \subseteq Past' /\ \A t \in Past : t # -1 /\ G[t] = H[t]
  BY RunFacts
<1>2. IsList(q) /\ DOMAIN q = 1 .. Len(q) /\ Len(q) \in Nat
  BY <1>0, <1>q, ListFacts DEF OrderInv, TicksTyped
<1>3. OrderInv'
  <2>1. forceWait' \in {-1} \cup Past' /\ baselineTick' \in {-1} \cup Past'
    BY <1>0, <1>1 DEF OrderInv, TicksTyped
  <2>2. q = toClient' /\ \A i, j \in DOMAIN q : i < j => i \in DOMAIN toClient /\ q[i] = toClient[i]
    BY <1>q
  <2> QED BY <2>1, <2>2, <1>2, <1>q, RunOrder
<1>4. WaitInv'
  BY <1>0 DEF WaitInv, TickWaits
<1>5. /\ FramesInv(G)'
      /\ \A i \in DOMAIN q : WrittenFull(q[i], H) => WrittenFull(q[i], G)
  BY <1>q, RunKept
<1>6. FullInv(G)'
  <2>1. \A i \in DOMAIN q : q[i].from = -1 =>
          /\ WrittenFull(q[i], G)
          /\ baseline = NoBaseline /\ baselineUsed = 0 /\ baselineTick = q[i].frame.tick
          /\ baselinesSent = Entering(q[i].bits)
    BY <1>0, <1>5, <1>q DEF FullInv
  <2> QED BY <2>1, <1>q DEF FullInv, WrittenFull
<1>7. SentInv(G)'
  BY <1>0, <1>1 DEF SentInv, OrderInv, TicksTyped
<1>8. ASSUME clientTick # -1
      PROVE  ShownInv(G)' /\ KeptInv(G)' /\ DeltaInv(G)'
  <2>1. q = toClient' /\ \A i, j \in DOMAIN q : i < j => i \in DOMAIN toClient /\ q[i] = toClient[i]
    BY <1>q
  <2> QED BY <2>1, <1>8, <1>2, <1>q, RunClient
<1>9. ASSUME clientTick # -1, fullsRead = fullsSent
      PROVE  SyncInv(G)'
  <2>1. SyncInv(H)
    BY <1>9, <1>0 DEF ClientInv
  <2>2. baselineTick # -1 => G[baselineTick] = H[baselineTick]
    BY <1>0, <1>1 DEF OrderInv, TicksTyped
  <2>3. \A j \in DOMAIN toServer : toServer[j].op = "baseline" => toServer[j].tick # -1
    BY <1>0, <1>1 DEF OrderInv, TicksTyped, AnswerTyped
  <2> QED BY <2>1, <2>2, <2>3, <1>0 DEF SyncInv
<1>10. ClientInv(G)'
  BY <1>0, <1>8, <1>9 DEF ClientInv
<1> QED BY <1>0, <1>3, <1>4, <1>5, <1>6, <1>7, <1>10 DEF SnapInv

\* The list with the new message.
LEMMA Sent ==
  ASSUME NEW H, SnapInv(H), NEW G, ServerRuns(H, G), NEW x, NEW r, r = Append(toClient, x)
  PROVE  /\ IsList(r) /\ DOMAIN r = 1 .. Len(r) /\ Len(r) \in Nat /\ r # <<>>
         /\ Len(r) = Len(toClient) + 1 /\ Len(r) \in DOMAIN r /\ Len(r) \notin DOMAIN toClient
         /\ \A i \in DOMAIN r : (i \in DOMAIN toClient /\ r[i] = toClient[i] /\ i # Len(r)) \/ (i = Len(r) /\ r[i] = x)
         /\ \A i, j \in DOMAIN r : i < j => i \in DOMAIN toClient /\ r[i] = toClient[i]
<1>1. IsList(toClient)
  BY DEF SnapInv, OrderInv, TicksTyped
<1>2. Longer(r, toClient, x)
  BY <1>1, ListAppend
<1>3. Len(toClient) \in Nat /\ DOMAIN toClient = 1 .. Len(toClient)
  BY <1>1, ListFacts
<1>4. /\ IsList(r) /\ Len(r) = Len(toClient) + 1 /\ r[Len(r)] = x
      /\ DOMAIN r = DOMAIN toClient \cup {Len(r)}
      /\ \A i \in DOMAIN toClient : i < Len(r) /\ r[i] = toClient[i]
  BY ONLY <1>2 DEF Longer
<1>5. DOMAIN r = 1 .. Len(r) /\ Len(r) \in Nat /\ r # <<>>
  BY <1>3, <1>4, ListFacts
<1>6. \A i, j \in DOMAIN r : i < j => i \in DOMAIN toClient
  BY <1>3, <1>4, <1>5
<1>7. \A i \in DOMAIN toClient : i # Len(r)
  BY <1>3, <1>4
<1> QED BY ONLY <1>4, <1>5, <1>6, <1>7

\* A message that is sent is well typed.
LEMMA SentTyped ==
  ASSUME NEW H, SnapInv(H), NEW G, ServerRuns(H, G), NEW x,
         x.from \in {-1} \cup Past, x.frame.tick = tick + 1, x.number \in {0, 1}, x.update \in BOOLEAN
  PROVE  MessageTyped(x)'
<1>1. Past' = Past \cup {tick + 1} /\ \A t \in Past : t \in Nat /\ t < tick + 1
  BY RunFacts
<1>2. tick \in Nat
  BY DEF SnapInv, WorldTyped
<1>3. x.from < x.frame.tick
  BY <1>1, <1>2
<1> QED BY <1>1, <1>3 DEF MessageTyped

-----------------------------------------------------------------------------
(* It sends a full update.                                                 *)

\* The message of a full update, and what the server notes when it writes one.
LEMMA FullMessage ==
  ASSUME NEW f, f.transmit \subseteq Slots, SendFull(f)
  PROVE  \E x : /\ toClient' = Append(toClient, x)
                /\ x.from = -1 /\ x.bits = [s \in Slots |-> FullUpdate(s, f)] /\ x.deletions = {}
                /\ x.number = 0 /\ x.update /\ x.frame = Meant(f, NoFrame) /\ x.frame.tick = f.tick
                /\ baselineTick' = f.tick /\ baselinesSent' = Entering(x.bits) /\ baselinesSent' = f.transmit
                /\ baseline' = NoBaseline /\ baselineUsed' = 0
                /\ forceWait' = f.tick /\ fullsSent' = fullsSent + 1
<1>b. PICK bits : bits = [s \in Slots |-> FullUpdate(s, f)]
  OBVIOUS
<1>x. PICK x : x = [from |-> NoFrame.tick, bits |-> bits, deletions |-> {}, number |-> 0, update |-> TRUE,
                    frame |-> Meant(f, NoFrame)]
  OBVIOUS
<1>1. /\ baseline' = NoBaseline /\ baselineUsed' = 0 /\ baselinesSent' = Entering(bits) /\ forceWait' = f.tick
      /\ fullsSent' = fullsSent + 1 /\ Write(f, bits, NoFrame, {}, 0, -1)
  BY <1>b DEF SendFull, FreshBaseline
<1>2. baselineTick' = f.tick /\ toClient' = Append(toClient, x)
  <2>1. (-1 = -1 /\ (FullProps(bits) \/ NoFrame = NoFrame)) = TRUE
    OBVIOUS
  <2> QED BY <2>1, <1>1, <1>x DEF Write
<1>3. x.from = -1 /\ x.bits = bits /\ x.deletions = {} /\ x.number = 0 /\ x.update /\ x.frame = Meant(f, NoFrame)
  BY <1>x DEF NoFrame
<1>4. x.frame.tick = f.tick
  BY <1>3 DEF Meant
<1>5. Entering(bits) = f.transmit
  <2>1. \A s \in Slots : bits[s].op = "enter" <=> s \in f.transmit
    <3> SUFFICES ASSUME NEW s \in Slots PROVE bits[s].op = "enter" <=> s \in f.transmit
      OBVIOUS
    <3>1. bits[s] = FullUpdate(s, f)
      BY <1>b
    <3> QED BY <3>1, FullCases
  <2> QED BY <2>1 DEF Entering
<1> QED BY <1>b, <1>1, <1>2, <1>3, <1>4, <1>5

\* Everything is sent.
LEMMA SendFullStep ==
  ASSUME NEW H, SnapInv(H), NEW G, ServerRuns(H, G), NEW f, f = G[tick + 1], SendFull(f), forceWait = -1, Typed'
  PROVE  SnapInv(G)'
<1>0. /\ OrderInv /\ WaitInv /\ FullInv(H) /\ ClientInv(H) /\ WorldTyped' /\ History(G)'
      /\ UNCHANGED <<clientTick, clientFrames, clientBaselines, toServer, deltaTick, fullsRead>>
  BY DEF SnapInv, ServerRuns, clientVars
<1>1. /\ tick \in Nat /\ Past' = Past \cup {tick + 1} /\ Past \subseteq Past'
      /\ \A t \in Past : t \in Nat /\ t < tick + 1 /\ t # -1 /\ G[t] = H[t]
      /\ f \in Frame /\ f.tick = tick + 1 /\ NewerThan(tick + 1)
  BY RunFacts
<1>2. f.transmit \subseteq Slots /\ SendFull(f)
  BY <1>1 DEF Frame
<1>x. PICK x : /\ toClient' = Append(toClient, x)
               /\ x.from = -1 /\ x.bits = [s \in Slots |-> FullUpdate(s, f)] /\ x.deletions = {}
               /\ x.number = 0 /\ x.update /\ x.frame = Meant(f, NoFrame) /\ x.frame.tick = f.tick
               /\ baselineTick' = f.tick /\ baselinesSent' = Entering(x.bits) /\ baselinesSent' = f.transmit
               /\ baseline' = NoBaseline /\ baselineUsed' = 0
               /\ forceWait' = f.tick /\ fullsSent' = fullsSent + 1
  BY ONLY <1>2, FullMessage
<1>r. PICK r : r = toClient'
  OBVIOUS
<1>q. PICK q : q = toClient
  OBVIOUS
<1>3. /\ IsList(r) /\ DOMAIN r = 1 .. Len(r) /\ Len(r) \in Nat /\ r # <<>>
      /\ Len(r) = Len(toClient) + 1 /\ Len(r) \in DOMAIN r
      /\ \A i \in DOMAIN r : (i \in DOMAIN q /\ r[i] = q[i] /\ i # Len(r)) \/ (i = Len(r) /\ r[i] = x)
      /\ \A i, j \in DOMAIN r : i < j => i \in DOMAIN q /\ r[i] = q[i]
  <2>1. r = Append(toClient, x)
    BY <1>x, <1>r
  <2> QED BY <2>1, <1>q, Sent
<1>4. MessageTyped(x)'
  BY <1>x, <1>1, SentTyped
<1>5. OrderInv'
  <2>1. forceWait' \in {-1} \cup Past' /\ baselineTick' \in {-1} \cup Past'
    BY <1>1, <1>x
  <2>2. \A i \in DOMAIN r : \/ i \in DOMAIN toClient /\ r[i] = toClient[i]
                            \/ MessageTyped(r[i])' /\ r[i].frame.tick = tick + 1
    BY <1>1, <1>3, <1>4, <1>x, <1>q
  <2> QED BY <2>1, <2>2, <1>3, <1>r, <1>q, RunOrder
<1>6. fullsSent = fullsRead /\ fullsRead \in Nat /\ \A i \in DOMAIN q : q[i].from # -1
  BY <1>0, <1>q DEF WaitInv
<1>7. \A i \in DOMAIN r : r[i].from = -1 => i = Len(r) /\ r[i] = x
  BY <1>3, <1>6
<1>8. forceWait' # -1 /\ fullsSent' = fullsRead + 1 /\ fullsRead # fullsSent'
  BY <1>1, <1>6, <1>x
<1>9. WaitInv'
  <2>1. r[Len(r)].from = -1
    BY <1>3, <1>x
  <2>2. ASSUME NEW j \in DOMAIN toServer, IsTick(toServer[j])
        PROVE  TickWaits(toServer[j])'
    <3>1. /\ toServer[j].read <= fullsRead /\ toServer[j].tick < tick + 1 /\ toServer[j].read \in Nat
          /\ toServer[j].read = fullsRead /\ toServer[j].tick = -1 => clientTick = -1
      BY <2>2, <1>0, <1>1 DEF WaitInv, TickWaits, NewerThan, OrderInv, TicksTyped, AnswerTyped
    <3>2. toServer[j].read # fullsSent'
      BY <3>1, <1>6, <1>8
    <3> QED BY <3>1, <3>2, <1>0, <1>1, <1>8, <1>x DEF TickWaits
  <2>3. \A j \in DOMAIN toServer' : IsTick(toServer'[j]) => TickWaits(toServer[j])'
    BY <2>2, <1>0
  <2>4. fullsSent' \in Nat
    BY <1>6, <1>8
  <2> QED BY <2>1, <2>3, <2>4, <1>0, <1>1, <1>3, <1>6, <1>7, <1>8, <1>x, <1>r DEF WaitInv
<1>10. FramesInv(G)'
  BY RunKept
<1>11. FullInv(G)'
  <2>1. WrittenFull(x, G)
    BY <1>1, <1>x DEF WrittenFull
  <2>2. \A i \in DOMAIN r : r[i].from = -1 =>
          /\ WrittenFull(r[i], G)
          /\ baseline' = NoBaseline /\ baselineUsed' = 0 /\ baselineTick' = r[i].frame.tick
          /\ baselinesSent' = Entering(r[i].bits)
    BY <2>1, <1>7, <1>x
  <2> HIDE DEF WrittenFull
  <2> QED BY <2>2, <1>r DEF FullInv
<1>12. SentInv(G)'
  BY <1>1, <1>x DEF SentInv
<1>13. ASSUME clientTick # -1
       PROVE  ShownInv(G)' /\ KeptInv(G)' /\ DeltaInv(G)'
  <2>1. \A i \in DOMAIN r : \/ i \in DOMAIN toClient /\ r[i] = toClient[i]
                            \/ r[i].from # -1 => NewDelta(r[i], G)
    BY <1>3, <1>x, <1>q
  <2> QED BY <2>1, <1>13, <1>3, <1>8, <1>r, <1>q, RunClient
<1>14. ClientInv(G)'
  BY <1>0, <1>8, <1>13 DEF ClientInv
<1> QED BY <1>0, <1>5, <1>9, <1>10, <1>11, <1>12, <1>14 DEF SnapInv

-----------------------------------------------------------------------------
(* It sends a delta.                                                       *)

\* The delta from frame o to frame f that is put under way.
DeltaMessage(x, o, f, deletes) ==
  /\ toClient' = Append(toClient, x)
  /\ x.from = o.tick /\ x.bits = [s \in Slots |-> DeltaUpdate(s, o, f, baseline)]
  /\ x.deletions = Deletions(o, f, deletes)
  /\ x.number = baselineUsed /\ x.update \in BOOLEAN /\ x.frame = Meant(f, o) /\ x.frame.tick = f.tick
  /\ x.update => baselineTick = -1 /\ baselineTick' = f.tick
  /\ ~x.update => baselineTick' = baselineTick
  /\ baselineTick = -1 => baselinesSent' = Entering(x.bits)
  /\ baselineTick # -1 => baselinesSent' = baselinesSent
  /\ Entering(x.bits) \subseteq f.transmit
  /\ UNCHANGED <<baseline, baselineUsed, deltaTick, forceWait, fullsSent>>

\* A delta that the server writes is such a message.
LEMMA DeltaWritten ==
  ASSUME NEW f, NEW o, NEW deletes, SendDelta(f, o, deletes)
  PROVE  \E x : DeltaMessage(x, o, f, deletes)
<1>b. PICK bits : bits = [s \in Slots |-> DeltaUpdate(s, o, f, baseline)]
  OBVIOUS
<1>u. PICK update : update = (baselineTick = -1 /\ (FullProps(bits) \/ o = NoFrame))
  OBVIOUS
<1>x. PICK x : x = [from |-> o.tick, bits |-> bits, deletions |-> Deletions(o, f, deletes), number |-> baselineUsed,
                    update |-> update, frame |-> Meant(f, o)]
  OBVIOUS
<1>1. /\ baselinesSent' = IF baselineTick = -1 THEN Entering(bits) ELSE baselinesSent
      /\ UNCHANGED <<baseline, baselineUsed, deltaTick, forceWait, fullsSent>>
      /\ Write(f, bits, o, Deletions(o, f, deletes), baselineUsed, baselineTick)
  BY <1>b DEF SendDelta
<1>2. /\ baselineTick' = IF update THEN f.tick ELSE baselineTick
      /\ toClient' = Append(toClient, x)
  BY <1>1, <1>u, <1>x DEF Write
<1>3. /\ x.from = o.tick /\ x.bits = bits /\ x.deletions = Deletions(o, f, deletes) /\ x.number = baselineUsed
      /\ x.update = update /\ x.frame = Meant(f, o)
  BY <1>x
<1>4. x.frame.tick = f.tick
  BY <1>3 DEF Meant
<1>5. update \in BOOLEAN /\ (update => baselineTick = -1)
  BY <1>u
<1>6. Entering(bits) \subseteq f.transmit
  <2>1. ASSUME NEW s \in Slots, bits[s].op = "enter" PROVE s \in f.transmit
    <3>1. bits[s] = DeltaUpdate(s, o, f, baseline)
      BY <1>b
    <3> QED BY <3>1, <2>1, DeltaCases
  <2> QED BY <2>1 DEF Entering
<1>7. /\ x.update => baselineTick = -1 /\ baselineTick' = f.tick
      /\ ~x.update => baselineTick' = baselineTick
      /\ baselineTick = -1 => baselinesSent' = Entering(x.bits)
      /\ baselineTick # -1 => baselinesSent' = baselinesSent
  BY <1>1, <1>2, <1>3, <1>5
<1>8. x.update \in BOOLEAN /\ Entering(x.bits) \subseteq f.transmit
  BY <1>3, <1>5, <1>6
<1>9. /\ toClient' = Append(toClient, x)
      /\ x.from = o.tick /\ x.bits = [s \in Slots |-> DeltaUpdate(s, o, f, baseline)]
      /\ x.deletions = Deletions(o, f, deletes)
      /\ x.number = baselineUsed /\ x.frame = Meant(f, o) /\ x.frame.tick = f.tick
      /\ UNCHANGED <<baseline, baselineUsed, deltaTick, forceWait, fullsSent>>
  BY <1>b, <1>1, <1>2, <1>3, <1>4
<1> QED BY ONLY <1>7, <1>8, <1>9 DEF DeltaMessage

\* What a delta deletes is not the entity of an earlier frame.
LEMMA DeletionsNew ==
  ASSUME NEW G, NEW o, NEW b, NEW deletes, \A s \in deletes : NewIn(s, b, G), \A s \in Slots : G[b].ents[s].serial \in Int
  PROVE  /\ Deletions(o, G[b], deletes) \subseteq Slots
         /\ \A s \in Deletions(o, G[b], deletes) : NewIn(s, b, G)
         /\ \A s \in Slots : NeedsDestroy(s, o, G[b]) => s \in Deletions(o, G[b], deletes)
<1>1. \A s \in Slots : NeedsDestroy(s, o, G[b]) => NewIn(s, b, G)
  BY DEF NeedsDestroy, Empty, NewIn
<1> QED BY <1>1 DEF Deletions

\* A delta from the newest frame that the client has acknowledged is sent.
LEMMA SendDeltaStep ==
  ASSUME NEW H, SnapInv(H), NEW G, ServerRuns(H, G), NEW f, f = G[tick + 1], forceWait = -1, deltaTick \in Past,
         NEW o, o = H[deltaTick], NEW deletes, \A s \in deletes : NewIn(s, tick + 1, G),
         SendDelta(f, o, deletes), Typed'
  PROVE  SnapInv(G)'
<1>0. /\ OrderInv /\ WaitInv /\ FullInv(H) /\ SentInv(H) /\ ClientInv(H) /\ Typed /\ WorldTyped' /\ History(G)'
      /\ UNCHANGED <<clientTick, clientFrames, clientBaselines, toServer, deltaTick, fullsRead>>
  BY DEF SnapInv, ServerRuns, clientVars
<1>1. /\ tick \in Nat /\ Past' = Past \cup {tick + 1} /\ Past \subseteq Past' /\ tick + 1 \in Past'
      /\ \A t \in Past : t \in Nat /\ t < tick + 1 /\ t # -1 /\ G[t] = H[t]
      /\ f \in Frame /\ f.tick = tick + 1 /\ NewerThan(tick + 1)
  BY RunFacts
<1>x. PICK x : DeltaMessage(x, o, f, deletes)
  BY DeltaWritten
<1>2. /\ toClient' = Append(toClient, x)
      /\ x.from = o.tick /\ x.bits = [s \in Slots |-> DeltaUpdate(s, o, f, baseline)]
      /\ x.deletions = Deletions(o, f, deletes)
      /\ x.number = baselineUsed /\ x.update \in BOOLEAN /\ x.frame = Meant(f, o) /\ x.frame.tick = f.tick
      /\ x.update => baselineTick = -1 /\ baselineTick' = f.tick
      /\ ~x.update => baselineTick' = baselineTick
      /\ baselineTick = -1 => baselinesSent' = Entering(x.bits)
      /\ baselineTick # -1 => baselinesSent' = baselinesSent
      /\ Entering(x.bits) \subseteq f.transmit
      /\ UNCHANGED <<baseline, baselineUsed, deltaTick, forceWait, fullsSent>>
  BY ONLY <1>x DEF DeltaMessage
<1>o. o.tick = deltaTick /\ x.from = deltaTick /\ x.from # -1 /\ G[deltaTick] = o /\ deltaTick \in Nat
  BY <1>1, <1>2 DEF SnapInv, History
<1>r. PICK r : r = toClient'
  OBVIOUS
<1>q. PICK q : q = toClient
  OBVIOUS
<1>3. /\ IsList(r) /\ DOMAIN r = 1 .. Len(r) /\ Len(r) \in Nat /\ r # <<>>
      /\ Len(r) = Len(toClient) + 1 /\ Len(r) \in DOMAIN r
      /\ \A i \in DOMAIN r : (i \in DOMAIN q /\ r[i] = q[i] /\ i # Len(r)) \/ (i = Len(r) /\ r[i] = x)
      /\ \A i, j \in DOMAIN r : i < j => i \in DOMAIN q /\ r[i] = q[i]
  <2>1. r = Append(toClient, x)
    BY <1>2, <1>r
  <2> QED BY <2>1, <1>q, Sent
<1>4. MessageTyped(x)'
  <2>1. x.number \in {0, 1}
    BY <1>0, <1>2 DEF Typed
  <2> QED BY <2>1, <1>1, <1>2, <1>o, SentTyped
<1>5. baselineTick \in {-1} \cup Past /\ baselineTick' \in {-1} \cup Past'
  <2>1. baselineTick \in {-1} \cup Past
    BY <1>0 DEF OrderInv, TicksTyped
  <2> QED BY <2>1, <1>1, <1>2
<1>6. OrderInv'
  <2>1. forceWait' \in {-1} \cup Past'
    BY <1>2
  <2>2. \A i \in DOMAIN r : \/ i \in DOMAIN toClient /\ r[i] = toClient[i]
                            \/ MessageTyped(r[i])' /\ r[i].frame.tick = tick + 1
    BY <1>1, <1>2, <1>3, <1>4, <1>q
  <2> QED BY <2>1, <2>2, <1>3, <1>5, <1>r, <1>q, RunOrder
<1>7. fullsSent = fullsRead /\ fullsRead \in Nat /\ fullsSent' = fullsSent /\ forceWait' = -1
      /\ (\A i \in DOMAIN r : r[i].from # -1) /\ (\A i \in DOMAIN q : q[i].from # -1)
  <2>1. fullsSent = fullsRead /\ fullsRead \in Nat /\ \A i \in DOMAIN q : q[i].from # -1
    BY <1>0, <1>q DEF WaitInv
  <2> QED BY <2>1, <1>2, <1>3, <1>o
<1>8. WaitInv'
  <2>1. \A j \in DOMAIN toServer : IsTick(toServer[j]) => TickWaits(toServer[j])'
    BY <1>0, <1>2 DEF WaitInv, TickWaits
  <2>2. \A j \in DOMAIN toServer' : IsTick(toServer'[j]) => TickWaits(toServer[j])'
    BY <2>1, <1>0
  <2>3. deltaTick = -1 => clientTick = -1
    BY <1>0 DEF WaitInv
  <2>4. clientTick # -1 => deltaTick <= clientTick
    BY <1>0 DEF WaitInv
  <2> QED BY <2>2, <2>3, <2>4, <1>0, <1>7, <1>r DEF WaitInv
<1>9. FramesInv(G)' /\ FullInv(G)'
  <2>1. FullInv(G)'
    BY <1>7, <1>r DEF FullInv
  <2> QED BY <2>1, RunKept
<1>10. SentInv(G)'
  <2>1. CASE x.update
    BY <2>1, <1>1, <1>2 DEF SentInv
  <2>2. CASE ~x.update /\ baselineTick # -1
    <3>1. baselinesSent \subseteq G[baselineTick].transmit
      BY <2>2, <1>0, <1>1, <1>5 DEF SentInv
    <3> QED BY <3>1, <2>2, <1>2 DEF SentInv
  <2>3. CASE ~x.update /\ baselineTick = -1
    BY <2>3, <1>2 DEF SentInv
  <2> QED BY <2>1, <2>2, <2>3
<1>11. ASSUME clientTick # -1
       PROVE  SyncInv(H) /\ ShownInv(G)' /\ KeptInv(G)' /\ DeltaInv(G)'
  <2>0. SyncInv(H) /\ KeptInv(H)
    BY <1>11, <1>0, <1>7 DEF ClientInv
  <2>1. deltaTick \in Known /\ \A t \in Known : deltaTick <= t
    BY <1>11, KnownPast DEF Known
  <2>2. clientBaselines[baselineUsed] = baseline
    BY <2>0 DEF SyncInv
  <2>3. WrittenDelta(x, clientBaselines[x.number], G)
    <3>1. \A s \in Slots : f.ents[s].serial \in Int
      BY <1>1 DEF Frame, PackedEntity
    <3>2. /\ x.deletions \subseteq Slots
          /\ \A s \in x.deletions : NewIn(s, tick + 1, G)
          /\ \A s \in Slots : NeedsDestroy(s, o, f) => s \in x.deletions
      <4>1. PICK b : b = tick + 1
        OBVIOUS
      <4>2. f = G[b] /\ (\A s \in deletes : NewIn(s, b, G)) /\ \A s \in Slots : G[b].ents[s].serial \in Int
        BY <3>1, <4>1
      <4>3. /\ Deletions(o, G[b], deletes) \subseteq Slots
            /\ \A s \in Deletions(o, G[b], deletes) : NewIn(s, b, G)
            /\ \A s \in Slots : NeedsDestroy(s, o, G[b]) => s \in Deletions(o, G[b], deletes)
        BY ONLY <4>2, DeletionsNew
      <4> QED BY ONLY <4>1, <4>2, <4>3, <1>2
    <3>3. G[x.from] = o /\ G[x.frame.tick] = f /\ x.frame.tick = tick + 1 /\ clientBaselines[x.number] = baseline
      BY <2>2, <1>1, <1>2, <1>o
    <3> QED BY <3>2, <3>3, <1>2 DEF WrittenDelta
  <2>4. \A j \in DOMAIN toClient : toClient[j].from <= deltaTick /\ (toClient[j].update => toClient[j].number = baselineUsed)
    <3>1. \A j \in DOMAIN toClient : toClient[j].from <= deltaTick
      BY <2>0, <2>1, <1>7, <1>q DEF KeptInv
    <3> QED BY <3>1, <2>0 DEF SyncInv
  <2>5. NewDelta(x, G)
    BY <2>1, <2>3, <2>4, <1>2, <1>o DEF NewDelta
  <2>6. \A i \in DOMAIN r : \/ i \in DOMAIN toClient /\ r[i] = toClient[i]
                            \/ r[i].from # -1 => NewDelta(r[i], G)
    BY <2>5, <1>3, <1>q
  <2> HIDE DEF NewDelta
  <2>7. ShownInv(G)' /\ KeptInv(G)' /\ DeltaInv(G)'
    BY <2>6, <1>11, <1>3, <1>r, <1>q, RunClient
  <2> QED BY <2>0, <2>7
<1>12. ASSUME clientTick # -1
       PROVE  SyncInv(G)'
  <2>0. SyncInv(H)
    BY <1>11, <1>12
  <2>1. clientBaselines[baselineUsed] = baseline
    BY <2>0 DEF SyncInv
  <2>2. \A i \in DOMAIN q : q[i].update =>
          /\ q[i].number = baselineUsed /\ q[i].frame.tick = baselineTick /\ baselineTick # -1
          /\ baselinesSent = Entering(q[i].bits)
    <3>1. \A i \in DOMAIN q : q[i].frame.tick # -1
      BY <1>0, <1>1, <1>q DEF OrderInv, TicksTyped, MessageTyped
    <3> QED BY <3>1, <2>0, <1>q DEF SyncInv
  <2>3. \A i \in DOMAIN r : r[i].update =>
          /\ r[i].number = baselineUsed /\ r[i].frame.tick = baselineTick'
          /\ baselinesSent' = Entering(r[i].bits)
    <3> SUFFICES ASSUME NEW i \in DOMAIN r, r[i].update
                 PROVE  /\ r[i].number = baselineUsed /\ r[i].frame.tick = baselineTick'
                        /\ baselinesSent' = Entering(r[i].bits)
      OBVIOUS
    <3>1. CASE i \in DOMAIN q /\ r[i] = q[i]
      BY <3>1, <2>2, <1>2
    <3>2. CASE r[i] = x
      BY <3>2, <1>2
    <3> QED BY <3>1, <3>2, <1>3
  <2>4. ASSUME NEW j \in DOMAIN toServer, toServer[j].op = "baseline", toServer[j].tick = baselineTick',
               toServer[j].number = baselineUsed
        PROVE  clientBaselines[1 - baselineUsed] =
                 [s \in Slots |-> IF s \in baselinesSent' THEN Rec(G[baselineTick'], s) ELSE baseline[s]]
    <3>1. toServer[j].tick \in Past /\ toServer[j].tick # tick + 1
      BY <2>4, <1>0, <1>1 DEF OrderInv, TicksTyped, AnswerTyped
    <3>2. ~x.update /\ baselineTick' = baselineTick /\ baselineTick \in Past
      BY <3>1, <2>4, <1>1, <1>2
    <3>3. baselinesSent' = baselinesSent /\ G[baselineTick'] = H[baselineTick]
      BY <3>2, <1>1, <1>2
    <3>4. clientBaselines[1 - baselineUsed] =
                 [s \in Slots |-> IF s \in baselinesSent THEN Rec(H[baselineTick], s) ELSE baseline[s]]
      BY <3>2, <2>0, <2>4 DEF SyncInv
    <3> QED BY <3>3, <3>4
  <2> QED BY <2>1, <2>3, <2>4, <1>0, <1>2, <1>r DEF SyncInv
<1>13. ClientInv(G)'
  BY <1>0, <1>11, <1>12 DEF ClientInv
<1> QED BY <1>0, <1>6, <1>8, <1>9, <1>10, <1>13 DEF SnapInv

-----------------------------------------------------------------------------
(* One frame of the server.                                                *)

\* m_nForceWaitForTick is -1 or the tick of a snapshot, so that <= 0 says that it is -1.
LEMMA OrderTypes ==
  ASSUME NEW H, SnapInv(H)
  PROVE  /\ forceWait <= 0 => forceWait = -1
         /\ forceWait > 0 => ~(forceWait <= 0)
BY DEF SnapInv, OrderInv, TicksTyped, WorldTyped, Past

\* SendSnapshot keeps the types of the server's side.
LEMMA SendTyped ==
  ASSUME NEW H, SnapInv(H), NEW G, ServerRuns(H, G), frames' = Newest(frames \cup {G[tick + 1]}),
         tick < MaxTick \/ (deltaTick = -1 /\ forceWait <= 0), NEW f, f = G[tick + 1], f.transmit \subseteq Slots
  PROVE  /\ forceWait > 0 /\ UNCHANGED <<sendVars, fullsSent, toClient>> => Typed'
         /\ forceWait <= 0 /\ SendFull(f) => Typed'
         /\ \A o, deletes : forceWait <= 0 /\ deltaTick # -1 /\ SendDelta(f, o, deletes) => Typed'
<1>0. /\ Typed /\ WaitInv
      /\ UNCHANGED <<clientTick, fullsRead>>
  BY DEF SnapInv, ServerRuns, clientVars
<1>1. ASSUME forceWait > 0, UNCHANGED <<sendVars, fullsSent, toClient>>
      PROVE  Typed'
  <2>1. tick < MaxTick
    BY <1>1, OrderTypes
  <2>2. baselineUsed' \in {0, 1} /\ baselinesSent' \subseteq Slots /\ baseline' \in [Slots -> EntityOf]
    BY <1>0, <1>1 DEF Typed, sendVars
  <2> QED BY <2>1, <2>2, RunTyped
<1>2. ASSUME forceWait <= 0, SendFull(f)
      PROVE  Typed'
  <2>x. PICK x : /\ baselinesSent' = f.transmit /\ baseline' = NoBaseline /\ baselineUsed' = 0
                 /\ forceWait' = f.tick /\ fullsSent' = fullsSent + 1
    BY <1>2, FullMessage
  <2>1. fullsRead # fullsSent'
    <3>1. forceWait = -1
      BY <1>2, OrderTypes
    <3> QED BY <3>1, <2>x, <1>0 DEF WaitInv
  <2>2. baselineUsed' \in {0, 1} /\ baselinesSent' \subseteq Slots /\ baseline' \in [Slots -> EntityOf]
    <3>1. NoEntity \in EntityOf
      BY ZeroTyped, ClassAssumption DEF NoEntity, EntityOf
    <3> QED BY <3>1, <2>x DEF NoBaseline
  <2> QED BY <2>1, <2>2, RunTyped
<1>3. ASSUME NEW o, NEW deletes, forceWait <= 0, deltaTick # -1, SendDelta(f, o, deletes)
      PROVE  Typed'
  <2>x. PICK x : DeltaMessage(x, o, f, deletes)
    BY <1>3, DeltaWritten
  <2>1. baselineUsed' \in {0, 1} /\ baselinesSent' \subseteq Slots /\ baseline' \in [Slots -> EntityOf]
    <3>1. /\ baselinesSent' = Entering(x.bits) \/ baselinesSent' = baselinesSent
          /\ Entering(x.bits) \subseteq f.transmit
          /\ UNCHANGED <<baseline, baselineUsed>>
      BY ONLY <2>x DEF DeltaMessage
    <3> QED BY <3>1, <1>0 DEF Typed
  <2>2. tick < MaxTick
    BY <1>3
  <2> QED BY <2>1, <2>2, RunTyped
<1> QED BY <1>1, <1>2, <1>3

\* The server has taken the snapshot f and goes on to send it; the entities of deletes are new.
Prepared(H, f, G, packed, deletes) ==
  /\ f = FrameOf(world', packed) /\ packed \subseteq Occupied(world') /\ G = Extended(H, f)
  /\ Taken(f, H) /\ WorldTyped' /\ History(G)'
  /\ frames' = Newest(frames \cup {f}) /\ SendSnapshot(f, frames', deletes)
  /\ \A s \in deletes : NewIn(s, tick + 1, G)

\* A frame of the server, taken apart.
LEMMA FramePrepared ==
  ASSUME NEW H, SnapInv(H), ServerFrame
  PROVE  \E f, G, packed, deletes : Prepared(H, f, G, packed, deletes)
<1>0. WorldTyped /\ History(H) /\ OrderInv /\ Typed
  BY DEF SnapInv
<1>w. PICK w : w = world'
  OBVIOUS
<1>1. /\ tick < MaxTick \/ (deltaTick = -1 /\ forceWait <= 0)
      /\ tick' = tick + 1 /\ Simulate
  BY DEF ServerFrame
<1>2. PICK unseen \in SUBSET (Occupied(w) \ Visible(w)), deletes \in SUBSET Reused :
       /\ lastPacked' = [s \in Slots |-> IF s \in Visible(w) \cup unseen THEN Snapshot(w, Visible(w) \cup unseen)[s]
                                         ELSE lastPacked[s]]
       /\ frames' = Newest(frames \cup {[tick |-> tick + 1, ents |-> Snapshot(w, Visible(w) \cup unseen),
                                         transmit |-> Visible(w)]})
       /\ SendSnapshot([tick |-> tick + 1, ents |-> Snapshot(w, Visible(w) \cup unseen), transmit |-> Visible(w)],
                       frames', deletes)
  BY <1>w DEF ServerFrame
<1>p. PICK packed : packed = Visible(w) \cup unseen
  OBVIOUS
<1>f. PICK f : f = FrameOf(w, packed)
  OBVIOUS
<1>G. PICK G : G = Extended(H, f)
  OBVIOUS
<1>3. /\ lastPacked' = [s \in Slots |-> IF s \in packed THEN Snapshot(w, packed)[s] ELSE lastPacked[s]]
      /\ frames' = Newest(frames \cup {f})
      /\ SendSnapshot(f, frames', deletes)
  BY <1>2, <1>p, <1>f DEF FrameOf
<1>4. Taken(f, H) /\ WorldTyped' /\ AllPacked(G)'
  <2>1. /\ WorldTyped /\ History(H) /\ Simulate /\ tick' = tick + 1 /\ w = world'
        /\ unseen \in SUBSET (Occupied(w) \ Visible(w)) /\ packed = Visible(w) \cup unseen
        /\ f = FrameOf(w, packed) /\ G = Extended(H, f)
        /\ lastPacked' = [s \in Slots |-> IF s \in packed THEN Snapshot(w, packed)[s] ELSE lastPacked[s]]
    BY <1>0, <1>1, <1>3, <1>w, <1>p, <1>f, <1>G
  <2> QED BY ONLY <2>1, FrameTaken, Z3
<1>5. frames' \subseteq frames \cup {f}
  BY <1>3 DEF Newest
<1>6. History(G)' /\ \A s \in Reused : NewIn(s, tick + 1, G)
  BY <1>0, <1>1, <1>4, <1>5, <1>G, HistoryStep
<1>7. packed \subseteq Occupied(world') /\ \A s \in deletes : NewIn(s, tick + 1, G)
  BY <1>6, <1>w, <1>p DEF Visible
<1>8. Prepared(H, f, G, packed, deletes)
  BY <1>3, <1>4, <1>6, <1>7, <1>w, <1>f, <1>G DEF Prepared
<1> QED BY <1>8

\* The server runs a frame.
LEMMA FrameStep ==
  ASSUME NEW H, SnapInv(H), ServerFrame
  PROVE  /\ \E G : SnapInv(G)'
         /\ failures' = failures
<1>0. WorldTyped /\ History(H) /\ OrderInv /\ Typed
  BY DEF SnapInv
<1>1. /\ tick < MaxTick \/ (deltaTick = -1 /\ forceWait <= 0)
      /\ tick' = tick + 1 /\ UNCHANGED <<clientVars, failures, toServer>>
  BY DEF ServerFrame
<1>2. PICK f, G, packed, deletes : Prepared(H, f, G, packed, deletes)
  BY FramePrepared
<1>3. /\ frames' = Newest(frames \cup {f}) /\ SendSnapshot(f, frames', deletes) /\ G = Extended(H, f)
      /\ Taken(f, H) /\ WorldTyped' /\ History(G)' /\ \A s \in deletes : NewIn(s, tick + 1, G)
  BY ONLY <1>2 DEF Prepared
<1>7. tick \in Nat /\ G[tick + 1] = f /\ \A t \in Past : G[t] = H[t]
  BY <1>0, <1>3, ExtendedAt DEF WorldTyped
<1>8. f.transmit \subseteq Slots /\ f.tick = tick + 1
  BY <1>3 DEF Taken, Frame
<1>9. /\ forceWait \in {-1} \cup Past /\ deltaTick \in {-1} \cup Past /\ \A t \in Past : t > 0 /\ t \in Nat
  BY <1>0 DEF OrderInv, TicksTyped, WorldTyped, Past
<1>10. deltaTick' = deltaTick => ServerRuns(H, G)
  BY <1>1, <1>3, <1>7 DEF ServerRuns
<1>11. CASE forceWait > 0 /\ UNCHANGED <<sendVars, fullsSent, toClient>>
  <2>1. ServerRuns(H, G)
    BY <1>10, <1>11 DEF sendVars
  <2>2. Typed'
    BY <2>1, <1>1, <1>3, <1>7, <1>8, <1>11, SendTyped
  <2>3. SnapInv(G)'
    BY <2>1, <2>2, <1>11, SendNothing
  <2> QED BY <2>3, <1>1
<1>12. CASE forceWait <= 0 /\ SendFull(f)
  <2>1. ServerRuns(H, G)
    BY <1>10, <1>12 DEF SendFull
  <2>2. Typed'
    BY <2>1, <1>1, <1>3, <1>7, <1>8, <1>12, SendTyped
  <2>3. forceWait = -1
    BY <1>9, <1>12
  <2>4. SnapInv(G)'
    BY <2>1, <2>2, <2>3, <1>7, <1>12, SendFullStep
  <2> QED BY <2>4, <1>1
<1>13. CASE forceWait <= 0 /\ deltaTick >= 0 /\ \E o \in FrameAt(frames', deltaTick) : SendDelta(f, o, deletes)
  <2>1. ServerRuns(H, G)
    BY <1>10, <1>13 DEF SendDelta
  <2>o. PICK o \in FrameAt(frames', deltaTick) : SendDelta(f, o, deletes)
    BY <1>13
  <2>2. deltaTick \in Past /\ deltaTick # -1
    BY <1>9, <1>13
  <2>3. o = H[deltaTick]
    <3>1. o.tick = deltaTick /\ o = G[o.tick]
      BY <1>3 DEF FrameAt, History
    <3> QED BY <3>1, <2>2, <1>7
  <2>4. Typed'
    BY <2>1, <2>2, <2>o, <1>1, <1>3, <1>7, <1>8, <1>13, SendTyped
  <2>5. forceWait = -1
    BY <1>9, <1>13
  <2>6. \A s \in deletes : NewIn(s, tick + 1, G)
    BY <1>3
  <2>7. SnapInv(G)'
    BY <2>1, <2>2, <2>3, <2>4, <2>5, <2>6, <2>o, <1>7, SendDeltaStep
  <2> QED BY <2>7, <1>1
<1>14. \/ forceWait > 0 /\ UNCHANGED <<sendVars, fullsSent, toClient>>
       \/ forceWait <= 0 /\ SendFull(f)
       \/ forceWait <= 0 /\ deltaTick >= 0 /\ \E o \in FrameAt(frames', deltaTick) : SendDelta(f, o, deletes)
  <2>f. PICK fs : fs = frames'
    OBVIOUS
  <2>1. SendSnapshot(f, fs, deletes)
    BY <1>3, <2>f
  <2>2. deltaTick < 0 \/ (deltaTick >= 0 /\ ~(deltaTick < 0))
    BY <1>9
  <2> QED BY <2>1, <2>2, <2>f DEF SendSnapshot
<1> QED BY <1>11, <1>12, <1>13, <1>14

-----------------------------------------------------------------------------
(* The invariant.                                                          *)

\* There is an entity, and no entity has the type of one.
LEMMA ClassLength == Len(Class) \in Nat /\ Len(Class) >= 1 /\ NoEntity \in EntityOf
<1>1. Len(Class) \in Nat /\ Len(Class) >= 1
  BY ClassAssumption
<1> QED BY <1>1, ZeroTyped DEF NoEntity, EntityOf

\* The world before the first snapshot.
LEMMA InitWorld ==
  ASSUME Init
  PROVE  /\ WorldTyped /\ Past = {}
         /\ \A s \in Slots : lastPacked[s] = Free /\ Free \in PackedEntity /\ Free.serial = 0
                             /\ Free.changed = Zero /\ world[s].serial \in 0 .. Len(Class)
<1>1. Free \in PackedEntity /\ Free.serial = 0 /\ Free.changed = Zero
  BY ZeroTyped DEF Free, Unpacked, PackedEntity, Values
<1>e. PICK e, g : e = Entity(1, [p \in Props |-> 1], TRUE) /\ g = Gone(0)
  OBVIOUS
<1>2. world = [s \in Slots |-> IF s \in Present THEN e ELSE g]
  BY <1>e DEF Init
<1>3. e \in EdictOf /\ e.serial = 1
  <2>1. [p \in Props |-> 1] \in [Props -> Values]
    BY DEF Values
  <2> QED BY <2>1, <1>e, ClassLength DEF Entity, EdictOf
<1>4. g \in EdictOf /\ g.alive = FALSE
  BY <1>e, ZeroTyped, ClassLength DEF Gone, EdictOf
<1>5. \A s \in Slots : world[s] \in EdictOf /\ (world[s].alive => world[s].serial > 0)
  BY <1>2, <1>3, <1>4
<1>6. world \in [Slots -> EdictOf]
  BY <1>2, <1>3, <1>4
<1>7. tick \in Nat /\ Past = {}
  BY DEF Init, Past
<1>8. \A s \in Slots : lastPacked[s] = Free /\ world[s].serial \in 0 .. Len(Class)
  BY <1>5 DEF Init, EdictOf
<1> QED BY <1>1, <1>5, <1>6, <1>7, <1>8 DEF WorldTyped

\* The initial states agree with the empty history.
LEMMA InitStep ==
  ASSUME Init
  PROVE  \E H : SnapInv(H)
<1>H. PICK H : H = [t \in {} |-> NoFrame]
  OBVIOUS
<1>1. /\ WorldTyped /\ Past = {}
      /\ \A s \in Slots : lastPacked[s] = Free /\ Free \in PackedEntity /\ Free.serial = 0
                          /\ Free.changed = Zero /\ world[s].serial \in 0 .. Len(Class)
  BY InitWorld
<1>2. /\ tick = 0 /\ frames = {} /\ deltaTick = -1 /\ forceWait = -1
      /\ baseline = NoBaseline /\ baselineUsed = 0 /\ baselineTick = -1 /\ baselinesSent = {}
      /\ fullsSent = 0 /\ entities = NoBaseline /\ clientFrames = {} /\ clientTick = -1
      /\ clientBaselines = NoBaselines /\ fullsRead = 0 /\ requests = 0
      /\ toClient = <<>> /\ toServer = <<>>
  BY DEF Init
<1>3. History(H)
  <2>1. H \in [Past -> Frame]
    BY <1>1, <1>H
  <2>2. \A s \in Slots : SlotOK(s, H)
    BY <1>1 DEF SlotOK
  <2>3. \A s \in Slots : PackedOK(s, H)
    <3> SUFFICES ASSUME NEW s \in Slots PROVE PackedOK(s, H)
      OBVIOUS
    <3>1. lastPacked[s] = Free /\ Free \in PackedEntity /\ Free.serial \in 0 .. world[s].serial
      BY <1>1, ClassLength
    <3>2. NotAfter(Free, tick)
      BY <1>1, <1>2 DEF NotAfter, Zero
    <3> QED BY <3>1, <3>2, <1>1 DEF PackedOK
  <2>4. Lasting(H) /\ Unchanged(H)
    BY <1>1 DEF Lasting, Unchanged
  <2> QED BY <2>1, <2>2, <2>3, <2>4, <1>1, <1>2 DEF History
<1>4. OrderInv
  <2>1. IsList(<<>>) /\ DOMAIN <<>> = {}
    BY EmptyList, ListFacts
  <2> QED BY <2>1, <1>2 DEF OrderInv, TicksTyped, SnapshotOrder, AnswerOrder
<1>5. WaitInv /\ FullInv(H) /\ FramesInv(H) /\ SentInv(H) /\ ClientInv(H)
  <2>1. DOMAIN <<>> = {}
    BY EmptyList, ListFacts
  <2> QED BY <2>1, <1>2 DEF WaitInv, FullInv, FramesInv, SentInv, ClientInv
<1>6. Typed
  <2>1. NoBaseline \in [Slots -> EntityOf]
    BY ClassLength DEF NoBaseline
  <2>2. NoBaselines \in [{0, 1} -> [Slots -> EntityOf]]
    BY <2>1 DEF NoBaselines
  <2>3. IsFiniteSet(frames) /\ Cardinality(frames) <= MaxFrames
    <3>1. IsFiniteSet({}) /\ Cardinality({}) = 0
      BY FS_EmptySet
    <3> QED BY <3>1, <1>2, FramesAssumption
  <2>4. 0 <= MaxTick /\ 0 \in 0 .. MaxRequests
    BY BoundsAssumption
  <2> QED BY <2>1, <2>2, <2>3, <2>4, <1>2, BoundsAssumption DEF Typed
<1> QED BY <1>1, <1>3, <1>4, <1>5, <1>6 DEF SnapInv

\* Nothing happens.
LEMMA StutterStep ==
  ASSUME NEW H, SnapInv(H), UNCHANGED vars
  PROVE  SnapInv(H)'
<1> USE DEF vars, worldVars, sendVars, clientVars, networkVars
<1>0. WorldTyped /\ History(H) /\ OrderInv /\ WaitInv /\ FullInv(H) /\ FramesInv(H) /\ SentInv(H) /\ ClientInv(H) /\ Typed
  BY DEF SnapInv
<1>1. WorldTyped' /\ History(H)' /\ Past' = Past
  BY <1>0, HistorySame DEF Past
<1>2. OrderInv'
  BY <1>0, <1>1 DEF OrderInv, TicksTyped, SnapshotOrder, AnswerOrder, NewerThan, MessageTyped, AnswerTyped
<1>3. WaitInv' /\ FullInv(H)' /\ FramesInv(H)' /\ SentInv(H)'
  BY <1>0, <1>1 DEF WaitInv, TickWaits, FullInv, FramesInv, SentInv, WrittenFull
<1>4. ClientInv(H)'
  <2>1. ShownInv(H) => ShownInv(H)'
    BY DEF ShownInv
  <2>2. KeptInv(H) => KeptInv(H)'
    <3>1. \A t : Remembered(t, H) => Remembered(t, H)'
      BY DEF Remembered
    <3>2. Known' = Known
      BY DEF Known
    <3> QED BY <3>1, <3>2 DEF KeptInv
  <2>3. DeltaInv(H) => DeltaInv(H)'
    BY DEF DeltaInv, WrittenDelta
  <2>4. SyncInv(H) => SyncInv(H)'
    BY DEF SyncInv
  <2> QED BY <2>1, <2>2, <2>3, <2>4, <1>0 DEF ClientInv
<1>5. Typed'
  BY <1>0 DEF Typed
<1> QED BY <1>1, <1>2, <1>3, <1>4, <1>5 DEF SnapInv

-----------------------------------------------------------------------------
\* There is a history of the snapshots taken with which the state agrees.
Agrees == \E H : SnapInv(H)

\* Every step keeps the agreement with a history, the one so far or the one with the new
\* snapshot, and notes as failed at most a snapshot that deletes what it sends.
LEMMA NextStep ==
  ASSUME Agrees, [Next]_vars
  PROVE  /\ Agrees'
         /\ failures' \subseteq failures \cup {"snapshot not read"}
         /\ DeletedIsNotSent => failures' = failures
<1>H. PICK H : SnapInv(H)
  BY DEF Agrees
<1>1. CASE ServerFrame
  BY <1>H, <1>1, FrameStep DEF Agrees
<1>2. CASE \E other \in BOOLEAN : ReceiveTick(other)
  BY <1>H, <1>2, TickStep DEF Agrees
<1>3. CASE ReceiveBaselineAck
  <2>1. failures' = failures
    BY <1>3 DEF ReceiveBaselineAck
  <2> QED BY <2>1, <1>H, <1>3, BaselineStep DEF Agrees
<1>4. CASE ReceiveSnapshot
  BY <1>H, <1>4, SnapshotStep DEF Agrees
<1>5. CASE LoseSnapshot
  <2>1. /\ toClient # <<>> /\ Head(toClient).from # -1 /\ toClient' = Tail(toClient) /\ failures' = failures
        /\ UNCHANGED <<clientVars, worldVars, tick, frames, sendVars, fullsSent, toServer>>
    BY <1>5 DEF LoseSnapshot
  <2> QED BY <2>1, <1>H, DropSnapshot DEF Agrees
<1>6. CASE SendTick \/ LoseTick \/ ResendBaselineAck
  <2>1. failures' = failures
    BY <1>6 DEF SendTick, LoseTick, ResendBaselineAck
  <2> QED BY <2>1, <1>H, <1>6, AnswerSteps DEF Agrees
<1>7. CASE ForceFullUpdate
  <2>1. failures' = failures
    BY <1>7 DEF ForceFullUpdate
  <2> QED BY <2>1, <1>H, <1>7, ForceStep DEF Agrees
<1>8. CASE UNCHANGED vars
  <2>1. failures' = failures
    BY <1>8 DEF vars
  <2> QED BY <2>1, <1>H, <1>8, StutterStep DEF Agrees
<1> QED BY <1>1, <1>2, <1>3, <1>4, <1>5, <1>6, <1>7, <1>8 DEF Next

\* The invariant implies the types.
LEMMA TypesAgree == Agrees => TypeOK
<1> SUFFICES ASSUME NEW H, SnapInv(H) PROVE TypeOK
  BY DEF Agrees
<1>0. WorldTyped /\ History(H) /\ OrderInv /\ FramesInv(H) /\ Typed
  BY DEF SnapInv
<1>1. /\ tick \in Nat /\ requests \in Nat /\ requests <= MaxRequests /\ tick <= MaxTick + requests + 1
      /\ MaxTick \in Nat /\ MaxRequests \in Nat
  BY <1>0, BoundsAssumption DEF WorldTyped, Typed
<1>2. tick \in Ticks /\ \A t \in {-1} \cup Past : t \in Ticks
  BY <1>1 DEF Ticks, Past
<1>3. /\ deltaTick \in Ticks /\ forceWait \in Ticks /\ baselineTick \in Ticks /\ clientTick \in Ticks
  BY <1>0, <1>2 DEF OrderInv, TicksTyped
<1>4. \A f, g \in frames : f.tick = g.tick => f = g
  BY <1>0 DEF History
<1>5. \A f, g \in clientFrames : f.tick = g.tick => f = g
  BY <1>0 DEF FramesInv
<1> QED BY <1>0, <1>2, <1>3, <1>4, <1>5 DEF Typed, TypeOK

\* The invariant implies the agreement of the client with the server.
LEMMA EntitiesShown == Agrees => EntitiesAgree /\ GoneWhenDestroyed /\ BaselinesAgree
<1> SUFFICES ASSUME NEW H, SnapInv(H), clientTick # -1
             PROVE  EntitiesAgree /\ GoneWhenDestroyed /\ BaselinesAgree
  BY DEF Agrees, EntitiesAgree, GoneWhenDestroyed, BaselinesAgree, InSync
<1>0. History(H) /\ OrderInv /\ FramesInv(H) /\ ShownInv(H) /\ KeptInv(H) /\ (fullsRead = fullsSent => SyncInv(H))
  BY DEF SnapInv, ClientInv
<1>c. PICK c : c = clientTick
  OBVIOUS
<1>1. c \in Past /\ H[c].tick = c
  BY <1>0, <1>c DEF OrderInv, TicksTyped, History
<1>2. /\ shown.tick = c /\ shown.ents = [s \in H[c].transmit |-> Rec(H[c], s)]
      /\ (\A s \in H[c].transmit : entities[s] = Rec(H[c], s)) /\ \A s \in shown.destroyed : entities[s] = NoEntity
  BY <1>0, <1>c DEF ShownInv
<1>3. DOMAIN shown.ents = H[c].transmit /\ \A s \in H[c].transmit : shown.ents[s] = Rec(H[c], s)
  BY <1>2
<1>4. Seen(H[c]) \in clientFrames /\ Seen(H[c]) = [tick |-> c, transmit |-> H[c].transmit]
  <2>1. c \in Known
    BY <1>c DEF Known
  <2> QED BY <2>1, <1>0, <1>1 DEF KeptInv, Seen
<1>5. FrameAt(clientFrames, c) = {Seen(H[c])}
  <2>1. \A x \in clientFrames : x.tick = c => x = Seen(H[c])
    BY <1>0 DEF FramesInv
  <2>2. Seen(H[c]).tick = c
    BY <1>4
  <2> QED BY <2>1, <2>2, <1>4 DEF FrameAt
<1>6. EntitiesAgree
  BY <1>c, <1>2, <1>3, <1>4, <1>5 DEF EntitiesAgree
<1>7. GoneWhenDestroyed
  BY <1>2 DEF GoneWhenDestroyed
<1>8. BaselinesAgree
  BY <1>0 DEF BaselinesAgree, InSync, SyncInv, SameBaseline
<1> QED BY <1>6, <1>7, <1>8

\* Agrees is an invariant.
LEMMA InvariantAgrees == Spec => []Agrees
<1>1. Init => Agrees
  BY InitStep DEF Agrees
<1>2. Agrees /\ [Next]_vars => Agrees'
  BY NextStep
<1> QED BY <1>1, <1>2, PTL DEF Spec

\* Every part of the state has its type, the server keeps at most nMaxFrames frames, and no two frames
\* of the server (CClientFrameManager) or of the client have the same tick, so that GetClientFrame
\* has one answer.
THEOREM SnapshotTypes == Spec => []TypeOK
BY InvariantAgrees, TypesAgree, PTL

\* Once a snapshot has been read, the client holds in its newest frame exactly the entities that the
\* server meant to send at that tick, with the serial numbers and the values they had there
\* (InternalWriteDeltaEntities and CL_ProcessPacketEntities), whatever snapshots and Ticks the channel lost.
THEOREM EntitiesFollow == Spec => []EntitiesAgree
<1>1. Agrees => EntitiesAgree
  BY EntitiesShown
<1> QED BY <1>1, InvariantAgrees, PTL

\* An entity that the server destroyed since the frame a snapshot is a delta from is gone from the
\* client once it has read the snapshot, also when the client had it out of its view
\* (SV_NeedsExplicitDestroy, ReadDeletions).
THEOREM DestroyedAreGone == Spec => []GoneWhenDestroyed
<1>1. Agrees => GoneWhenDestroyed
  BY EntitiesShown
<1> QED BY <1>1, InvariantAgrees, PTL

\* Unless a full update is awaited, both sides decode deltas from the same baseline
\* (CLCMsg_BaselineAck and CL_CopyNewEntity), whichever snapshots were lost between.
THEOREM BaselinesFollow == Spec => []BaselinesAgree
<1>1. Agrees => BaselinesAgree
  BY EntitiesShown
<1> QED BY <1>1, InvariantAgrees, PTL

-----------------------------------------------------------------------------
\* Of what can fail only reading a snapshot does.
OnlyUnread == failures \subseteq {"snapshot not read"}

\* The server never takes a Tick for out of order and never gets one newer than the full update it
\* waits for (CBaseClient::UpdateAcknowledgedFramecount), in spite of lost Ticks, late
\* acknowledgements of baselines and full updates requested at any moment.
THEOREM AcksInOrder == Spec => []OnlyUnread
<1>1. Init => OnlyUnread
  BY DEF Init, OnlyUnread
<1>2. OnlyUnread /\ Agrees /\ [Next]_vars => OnlyUnread'
  <2> SUFFICES ASSUME OnlyUnread, Agrees, [Next]_vars PROVE OnlyUnread'
    OBVIOUS
  <2>1. failures' \subseteq failures \cup {"snapshot not read"}
    BY NextStep
  <2> QED BY <2>1 DEF OnlyUnread
<1> QED BY <1>1, <1>2, InvariantAgrees, PTL DEF Spec

\* As long as the assertion of SV_WriteDeletions holds, every snapshot that arrives can be read
\* (CL_ProcessPacketEntities finds the frame and the entities that the delta is from) and no
\* acknowledgement is out of order.
THEOREM ReadableUnlessDeleted == Spec /\ []DeletedIsNotSent => []NothingFails
<1>1. Init => NothingFails
  BY DEF Init, NothingFails
<1>2. NothingFails /\ Agrees /\ DeletedIsNotSent /\ [Next]_vars => NothingFails'
  <2> SUFFICES ASSUME NothingFails, Agrees, DeletedIsNotSent, [Next]_vars PROVE NothingFails'
    OBVIOUS
  <2>1. failures' = failures
    BY NextStep
  <2> QED BY <2>1 DEF NothingFails
<1> QED BY <1>1, <1>2, InvariantAgrees, PTL DEF Spec

-----------------------------------------------------------------------------
(* Where every slot has been occupied, nothing that is sent is deleted.    *)

\* Every slot has been occupied from the start, so that every snapshot reaches up to it.
NoneBeyond(f) == \A s \in Slots : f.ents[s] # Beyond
EverOccupied ==
  /\ \A s \in Slots : world[s].serial >= 1
  /\ \A f \in frames : NoneBeyond(f)
  /\ DeletedIsNotSent

\* A message that deletes nothing of what it sends.
Apart(m) == m.deletions \cap DOMAIN m.frame.ents = {}

\* A snapshot sends the slots that are transmitted.
LEMMA SentDomain == \A f, o : DOMAIN Meant(f, o).ents = f.transmit
BY DEF Meant

\* What is deleted is kept off what is sent when the older snapshot reaches up to the slot.
LEMMA DeltaApart ==
  ASSUME NEW o, NEW f, NEW deletes, NEW x, x.deletions = Deletions(o, f, deletes), x.frame = Meant(f, o),
         NoneBeyond(o), \A s \in f.transmit : f.ents[s].serial > 0 /\ f.ents[s].serial \in Int /\ s \in Slots,
         \A s \in deletes : o.ents[s].serial > 0 => o.ents[s].serial # f.ents[s].serial,
         \A s \in Slots : o.ents[s].serial \in Int
  PROVE  Apart(x)
<1>1. ASSUME NEW s \in Deletions(o, f, deletes), s \in f.transmit
      PROVE  FALSE
  <2>1. s \in Slots /\ ~NeedsDestroy(s, o, f)
    BY <1>1 DEF NeedsDestroy, Empty
  <2>2. s \in deletes /\ ~(o.ents[s] # Beyond /\ NeedsCreate(s, o, f))
    BY <1>1, <2>1 DEF Deletions
  <2>3. NeedsCreate(s, o, f)
    BY <2>1, <2>2 DEF NeedsCreate, Empty
  <2> QED BY <2>1, <2>2, <2>3 DEF NoneBeyond
<1>2. DOMAIN x.frame.ents = f.transmit
  BY SentDomain
<1> QED BY <1>1, <1>2 DEF Apart

\* A snapshot taken when every slot has been occupied.
LEMMA SnapshotReaches ==
  ASSUME NEW w, NEW packed \in SUBSET Occupied(w), \A s \in Slots : w[s].serial >= 1 /\ w[s].serial \in Int
  PROVE  NoneBeyond(FrameOf(w, packed))
<1>f. PICK f : f = FrameOf(w, packed)
  OBVIOUS
<1>1. f.ents = Snapshot(w, packed)
  BY <1>f DEF FrameOf
<1>2. ASSUME NEW s \in Slots
      PROVE  Snapshot(w, packed)[s] # Beyond
  <2>0. Beyond.serial = -1 /\ Free.serial = 0 /\ Unpacked(w[s].serial).serial = w[s].serial
    BY DEF Beyond, Free, Unpacked
  <2>1. Snapshot(w, packed)[s] =
          CASE s \in packed -> Packed(w, s)
            [] s \in Occupied(w) \ packed -> Unpacked(w[s].serial)
            [] s \notin Occupied(w) -> IF w[s].serial = 0 THEN Beyond ELSE Free
    BY DEF Snapshot
  <2>2. CASE s \in packed
    <3>1. Snapshot(w, packed)[s] = Packed(w, s)
      BY <2>1, <2>2
    <3>2. Packed(w, s).serial = w[s].serial
      BY DEF Packed
    <3> QED BY <2>0, <3>1, <3>2
  <2>3. CASE s \in Occupied(w) \ packed
    <3>1. Snapshot(w, packed)[s] = Unpacked(w[s].serial)
      BY <2>1, <2>3
    <3> QED BY <2>0, <3>1
  <2>4. CASE s \notin Occupied(w)
    <3>1. Snapshot(w, packed)[s] = Free
      BY <2>1, <2>4
    <3> QED BY <2>0, <3>1
  <2> QED BY <2>2, <2>3, <2>4
<1> QED BY <1>1, <1>2, <1>f DEF NoneBeyond

\* The messages of a list with one more, or with the first one gone.
LEMMA ApartList ==
  ASSUME NEW q, IsList(q), NEW r, \A m \in ToSet(q) : Apart(m)
  PROVE  /\ q # <<>> /\ r = Tail(q) => \A m \in ToSet(r) : Apart(m)
         /\ \A x : r = Append(q, x) /\ Apart(x) => \A m \in ToSet(r) : Apart(m)
<1>1. ASSUME q # <<>>, r = Tail(q), NEW m \in ToSet(r)
      PROVE  Apart(m)
  <2>1. \A i \in DOMAIN r : i + 1 \in DOMAIN q /\ r[i] = q[i + 1]
    BY <1>1, ListTail
  <2> QED BY <2>1, <1>1 DEF ToSet
<1>2. ASSUME NEW x, r = Append(q, x), Apart(x), NEW m \in ToSet(r)
      PROVE  Apart(m)
  <2>1. Longer(r, q, x)
    BY <1>2, ListAppend
  <2>2. /\ r[Len(r)] = x /\ DOMAIN r = DOMAIN q \cup {Len(r)}
        /\ \A i \in DOMAIN q : r[i] = q[i]
    BY ONLY <2>1 DEF Longer
  <2>3. \A i \in DOMAIN r : r[i] = x \/ (i \in DOMAIN q /\ r[i] = q[i])
    BY <2>2
  <2> QED BY <2>3, <1>2 DEF ToSet
<1> QED BY <1>1, <1>2

\* The server takes a snapshot while every slot has been occupied.
LEMMA OccupiedFrame ==
  ASSUME NEW H, SnapInv(H), EverOccupied, ServerFrame
  PROVE  EverOccupied'
<1>0. WorldTyped /\ History(H) /\ OrderInv /\ Simulate /\ tick' = tick + 1 /\ tick \in Nat /\ IsList(toClient)
  BY DEF SnapInv, ServerFrame, WorldTyped, OrderInv, TicksTyped
<1>1. PICK f, G, packed, deletes : Prepared(H, f, G, packed, deletes)
  BY FramePrepared
<1>2. /\ f = FrameOf(world', packed) /\ packed \subseteq Occupied(world') /\ G = Extended(H, f)
      /\ Taken(f, H) /\ History(G)'
      /\ frames' = Newest(frames \cup {f}) /\ SendSnapshot(f, frames', deletes)
      /\ \A s \in deletes : NewIn(s, tick + 1, G)
  BY ONLY <1>1 DEF Prepared
<1>3. \A s \in Slots : world'[s].serial >= 1 /\ world'[s].serial \in Int
  BY <1>0, WorldStep DEF EverOccupied, WorldTyped, EdictOf
<1>4. NoneBeyond(f)
  <2>w. PICK w : w = world'
    OBVIOUS
  <2> QED BY <1>2, <1>3, <2>w, SnapshotReaches
<1>5. \A o \in frames' : NoneBeyond(o)
  BY <1>2, <1>4 DEF Newest, EverOccupied
<1>6. \A m \in ToSet(toClient) : Apart(m)
  BY DEF EverOccupied, DeletedIsNotSent, Apart
<1>7. G[tick + 1] = f /\ (\A t \in Past : G[t] = H[t]) /\ \A t \in 1 .. tick + 1 : t \in Past \/ t = tick + 1
  BY <1>0, <1>2, ExtendedAt
<1>8. \A s \in f.transmit : f.ents[s].serial > 0 /\ f.ents[s].serial \in Int /\ s \in Slots
  BY <1>2, <1>3 DEF Taken, Frame
<1>9. \A m \in ToSet(toClient') : Apart(m)
  <2>1. CASE toClient' = toClient
    BY <2>1, <1>6
  <2>2. CASE SendFull(f)
    <3>1. f.transmit \subseteq Slots /\ SendFull(f)
      BY <1>8, <2>2
    <3>2. PICK x : toClient' = Append(toClient, x) /\ x.deletions = {}
      BY ONLY <3>1, FullMessage
    <3>3. Apart(x)
      BY <3>2 DEF Apart
    <3> QED BY <3>2, <3>3, <1>0, <1>6, ApartList
  <2>3. CASE deltaTick >= 0 /\ \E o \in FrameAt(frames', deltaTick) : SendDelta(f, o, deletes)
    <3>o. PICK o \in FrameAt(frames', deltaTick) : SendDelta(f, o, deletes)
      BY <2>3
    <3>1. PICK x : DeltaMessage(x, o, f, deletes)
      BY <3>o, DeltaWritten
    <3>2. toClient' = Append(toClient, x) /\ x.deletions = Deletions(o, f, deletes) /\ x.frame = Meant(f, o)
      BY ONLY <3>1 DEF DeltaMessage
    <3>3. deltaTick \in Past /\ o.tick = deltaTick /\ o = G[deltaTick] /\ o = H[deltaTick] /\ NoneBeyond(o)
      <4>1. deltaTick \in Past
        BY <2>3, <1>0 DEF OrderInv, TicksTyped
      <4>2. o \in frames' /\ o.tick = deltaTick /\ o = G[o.tick]
        BY <3>o, <1>2 DEF FrameAt, History
      <4> QED BY <4>1, <4>2, <1>5, <1>7
    <3>4. \A s \in deletes : o.ents[s].serial > 0 => o.ents[s].serial # f.ents[s].serial
      <4>1. deltaTick \in 1 .. (tick + 1) - 1
        BY <3>3, <1>0 DEF Past
      <4> QED BY <4>1, <3>3, <1>2, <1>7 DEF NewIn
    <3>5. \A s \in Slots : o.ents[s].serial \in Int
      BY <3>3, <1>0, FrameFacts
    <3>6. Apart(x)
      BY <3>2, <3>3, <3>4, <3>5, <1>8, DeltaApart
    <3> QED BY <3>2, <3>6, <1>0, <1>6, ApartList
  <2>4. \/ toClient' = toClient
        \/ SendFull(f)
        \/ deltaTick >= 0 /\ \E o \in FrameAt(frames', deltaTick) : SendDelta(f, o, deletes)
    <3>f. PICK fs : fs = frames'
      OBVIOUS
    <3>1. SendSnapshot(f, fs, deletes)
      BY <1>2, <3>f
    <3>2. deltaTick < 0 \/ (deltaTick >= 0 /\ ~(deltaTick < 0))
      BY <1>0 DEF OrderInv, TicksTyped, Past
    <3> QED BY <3>1, <3>2, <3>f DEF SendSnapshot
  <2> QED BY <2>1, <2>2, <2>3, <2>4
<1> QED BY <1>3, <1>5, <1>9 DEF EverOccupied, DeletedIsNotSent, Apart

\* A slot that has been occupied keeps a serial number, and no message comes to delete what it sends.
LEMMA OccupiedStep ==
  ASSUME Agrees, EverOccupied, [Next]_vars
  PROVE  EverOccupied'
<1>H. PICK H : SnapInv(H)
  BY DEF Agrees
<1>1. CASE ServerFrame
  BY <1>H, <1>1, OccupiedFrame
<1>2. CASE ~ServerFrame
  <2> USE DEF worldVars, sendVars, clientVars, networkVars
  <2>1. world' = world /\ frames' \subseteq frames
        /\ (toClient' = toClient \/ (toClient # <<>> /\ toClient' = Tail(toClient)))
    BY <1>2 DEF Next, vars, ReceiveTick, ReceiveBaselineAck, ReceiveSnapshot, LoseSnapshot, SendTick, LoseTick,
         ResendBaselineAck, ForceFullUpdate
  <2>2. IsList(toClient) /\ \A m \in ToSet(toClient) : Apart(m)
    BY <1>H DEF EverOccupied, DeletedIsNotSent, Apart, SnapInv, OrderInv, TicksTyped
  <2>3. \A m \in ToSet(toClient') : Apart(m)
    BY <2>1, <2>2, ApartList
  <2> QED BY <2>1, <2>3 DEF EverOccupied, DeletedIsNotSent, Apart
<1> QED BY <1>1, <1>2

\* The assertion of SV_WriteDeletions and of ReadDeletions holds when every edict is occupied by the
\* time the client becomes active: no snapshot ends before a slot that is deleted explicitly. (Where
\* a slot lies beyond the snapshot that the delta starts from it does not hold: run SnapshotReuse.)
THEOREM DeletedNotSent ==
  ASSUME Present = Slots
  PROVE  Spec => []DeletedIsNotSent
<1>1. Init => EverOccupied
  <2> SUFFICES ASSUME Init PROVE EverOccupied
    OBVIOUS
  <2>1. \A s \in Slots : world[s] = Entity(1, [p \in Props |-> 1], TRUE)
    BY DEF Init
  <2>2. \A s \in Slots : world[s].serial = 1
    BY <2>1 DEF Entity
  <2>3. frames = {} /\ ToSet(toClient) = {}
    <3>1. DOMAIN <<>> = {}
      BY EmptyList, ListFacts
    <3> QED BY <3>1 DEF Init, ToSet
  <2> QED BY <2>2, <2>3 DEF EverOccupied, DeletedIsNotSent
<1>2. EverOccupied /\ Agrees /\ [Next]_vars => EverOccupied'
  BY OccupiedStep
<1>3. EverOccupied => DeletedIsNotSent
  BY DEF EverOccupied
<1> QED BY <1>1, <1>2, <1>3, InvariantAgrees, PTL DEF Spec

\* So that every snapshot can be read then, and every acknowledgement comes in order.
THEOREM AllReadable ==
  ASSUME Present = Slots
  PROVE  Spec => []NothingFails
BY DeletedNotSent, ReadableUnlessDeleted, PTL
=============================================================================
