---------------------------- MODULE SplitPackets ----------------------------
(***************************************************************************)
(* Datagrams larger than the maximum routable size (net_ws.cpp): NET_SendLong *)
(* cuts one into parts, sends the first net_splitrate of them and queues the  *)
(* rest; a thread (net_ws_queued_packet_sender.cpp) or the host frame sends   *)
(* them later; NET_GetLong puts the parts of one sender together again.       *)
(*                                                                         *)
(* One channel sends to one receiver.  The datagrams are numbered in the   *)
(* order of sending; datagram d has Parts[d] parts, numbered from 0.       *)
(***************************************************************************)
EXTENDS Integers, Sequences, FiniteSets, SequencesExt

CONSTANTS
  Parts,          \* number of parts of each datagram
  SplitSize,      \* nSplitSize of each datagram
  Forced,         \* datagrams sent by Transmit without asking CanPacket
  SplitRate,      \* net_splitrate
  MaxQueued,      \* nMaxQueuedPackets
  Delay,          \* milliseconds that a part takes at the channel's data rate
  IdleWait,       \* waitIntervalNoPackets
  TimeWidth,      \* number of values of a millisecond time stamp (2^32)
  StaleTime,      \* SPLIT_PACKET_STALE_TIME
  InOrder,        \* does the network keep the order, without loss or copies?
  MaxTime,        \* bound: last time, unless the thread waits for a later one
  MaxCopies,      \* bound: parts that the network delivers twice
  MaxRestarts     \* bound: how often the channel is reset or created again

Datagrams == DOMAIN Parts

ASSUME PartsAssumption   == /\ Parts \in Seq(Nat \ {0}) /\ Parts # <<>>
                            /\ SplitSize \in [Datagrams -> Nat]
                            /\ Forced \subseteq Datagrams
ASSUME NumbersAssumption == /\ SplitRate \in Nat \ {0} /\ MaxQueued \in Nat /\ Delay \in Nat
                            /\ IdleWait \in Nat /\ TimeWidth \in Nat \ {0} /\ StaleTime \in Nat
                            /\ InOrder \in BOOLEAN
ASSUME BoundsAssumption  == MaxTime \in Nat /\ MaxCopies \in Nat /\ MaxRestarts \in Nat

VARIABLES
  channel,    \* the channel's address in memory
  sequence,   \* m_nSplitPacketSequence of the channel
  sent,       \* number of datagrams given to NET_SendLong
  sending,    \* parts that the NET_SendLong in progress has still to queue
  useThread,  \* net_queued_packet_thread: is the thread used?
  queue,      \* m_QueuedPackets of the thread: parts with their time
  event,      \* m_hThreadEvent
  awake,      \* has the thread's wait returned?
  wakeAt,     \* when the thread's wait times out
  list,       \* g_SendQueue, used when there is no thread
  queued,     \* m_nQueuedPackets of the channel
  wire,       \* the parts under way, in the order in which they were sent
  entry,      \* the receiver's CSplitPacketEntry for the sender's address
  out,        \* what NET_GetLong returned last: the buffer, part by part
  whole,      \* history: the datagrams returned whole
  now,        \* the time in milliseconds
  copies,     \* parts delivered twice, for the bound
  restarts    \* resets of the channel, for the bound

sender   == <<channel, sequence, sent, sending, queued, restarts>>
queues   == <<useThread, queue, event, awake, wakeAt, list>>
receiver == <<entry, out, whole>>
vars     == <<sender, queues, wire, receiver, now, copies>>

-----------------------------------------------------------------------------
(* Sending.                                                                *)

Part(d, n) ==
  [datagram |-> d, part |-> n, seq |-> sequence + 1, count |-> Parts[d], size |-> SplitSize[d]]
\* Mutant: one part too many.
OneMore(d, first, last) == [n \in 1 .. last - first + 2 |-> Part(d, first + n - 1)]
\* Mutant: the loop over the parts ends one too early.
OneLess(d, first, last) == [n \in 1 .. last - first |-> Part(d, first + n - 1)]
PartsFrom(d, first, last) == [n \in 1 .. last - first + 1 |-> Part(d, first + n - 1)]

\* Mutant: the thread's queue is not asked.
HasListedPackets == queued > 0

\* CNetChan::HasQueuedPackets and CanPacket; the data rate is left out.
HasQueuedPackets == queued > 0 \/ \E q \in queue : q.chan = channel
CanPacket == ~HasQueuedPackets

\* The host's thread is not in NET_SendLong.
Idle == sending = <<>>

\* NET_SendLong, called by NET_SendPacket for the channel's next datagram: the
\* first parts are sent, the others remain to be queued.
SendLong ==
  LET d     == sent + 1
      first == Min({Parts[d], SplitRate})
  IN  /\ Idle
      /\ sent < Len(Parts)
      /\ d \in Forced \/ CanPacket
      /\ sent' = d
      /\ sequence' = sequence + 1
      /\ wire' = wire \o PartsFrom(d, 0, first - 1)
      /\ sending' = PartsFrom(d, first, Parts[d] - 1)
      /\ UNCHANGED <<channel, queued, queues, receiver, now, copies, restarts>>

\* A part as the thread keeps it: the time stamp has TimeWidth values, "due" is
\* the time it stands for.
Stamped(f) ==
  [time |-> (now + f.part * Delay) % TimeWidth, due |-> now + f.part * Delay,
   chan |-> channel, frag |-> f]

\* NET_QueuePacketForSend for the next part, under the lock of the thread's
\* queue if it is that which takes it; a full queue drops the part.
QueuePacketForSend ==
  LET f == Head(sending)
  IN  /\ ~Idle
      /\ sending' = Tail(sending)
      /\ \/ /\ useThread
            /\ queue' = queue \cup IF Cardinality(queue) < MaxQueued THEN {Stamped(f)} ELSE {}
            /\ event' = TRUE
            /\ UNCHANGED <<list, queued>>
         \/ /\ ~useThread
            /\ list' = Append(list, f)
            /\ queued' = queued + 1
            /\ UNCHANGED <<queue, event>>
      /\ UNCHANGED <<channel, sequence, sent, useThread, awake, wakeAt, wire, receiver,
                     now, copies, restarts>>

\* Reset, when the client clears its state: the numbers start again.
Reset ==
  /\ Idle /\ restarts < MaxRestarts
  /\ sequence' = 1
  /\ restarts' = restarts + 1
  /\ UNCHANGED <<channel, sent, sending, queued, queues, wire, receiver, now, copies>>

\* The channel is removed and created again, as when a client reconnects; the
\* allocator may give it the old address.  The list is cleared for it, the
\* thread's queue is not.
Recreate ==
  /\ Idle /\ restarts < MaxRestarts
  /\ sequence' = 1
  /\ restarts' = restarts + 1
  /\ list' = <<>> /\ queued' = 0
  /\ channel' \in {channel, channel + 1}
  /\ UNCHANGED <<sent, sending, useThread, queue, event, awake, wakeAt, wire, receiver, now, copies>>

-----------------------------------------------------------------------------
(* The queues.                                                             *)

\* The parts that the thread finds due, and their orders: by time, and any
\* order among parts of the same time.
DueNow == {q \in queue : q.time <= now % TimeWidth}
ByTime(s) == \A i, j \in DOMAIN s : i < j => s[i].time <= s[j].time

\* Mutant: the thread sleeps as long as without packets.
AlwaysIdle(Q) == IdleWait

\* How long the thread sleeps when it leaves the packets Q in its queue.
WaitInterval(Q) ==
  IF Q = {} THEN IdleWait
  ELSE Min({q.time : q \in Q}) - (now % TimeWidth)

\* Wait returns in the thread: the event is set, or the interval is over.
WakeThread ==
  /\ ~awake
  /\ event \/ now >= wakeAt
  /\ event' = FALSE /\ awake' = TRUE
  /\ UNCHANGED <<useThread, queue, wakeAt, list, sender, wire, receiver, now, copies>>

\* The rest of the round in CQueuedPacketSender::Run, with the lock held; then
\* the thread waits again.
RunThread ==
  /\ awake
  /\ awake' = FALSE
  /\ queue' = queue \ DueNow
  /\ wakeAt' = now + WaitInterval(queue \ DueNow)
  /\ \E s \in SetToSeqs(DueNow) :
       /\ ByTime(s)
       /\ wire' = wire \o [n \in DOMAIN s |-> s[n].frag]
  /\ UNCHANGED <<useThread, event, list, sender, receiver, now, copies>>

\* DecrementQueuedPackets, n times.
Decremented(n) == IF queued < n THEN 0 ELSE queued - n

\* NET_SendQueuedPackets, once per host frame.
SendQueuedPackets ==
  LET n == Min({Len(list), SplitRate})
  IN  /\ Idle /\ list # <<>>
      /\ wire' = wire \o SubSeq(list, 1, n)
      /\ list' = SubSeq(list, n + 1, Len(list))
      /\ queued' = Decremented(n)
      /\ UNCHANGED <<useThread, queue, event, awake, wakeAt, channel, sequence, sent, sending, restarts, receiver, now, copies>>

\* The console variable changes; the parts stay where they are queued.
ChangeThread ==
  /\ Idle
  /\ useThread' = ~useThread
  /\ UNCHANGED <<queue, event, awake, wakeAt, list, sender, wire, receiver, now, copies>>

Tick ==
  /\ now < MaxTime \/ (queue # {} /\ now < wakeAt)
  /\ now' = now + 1
  /\ UNCHANGED <<sender, queues, wire, receiver, copies>>

-----------------------------------------------------------------------------
(* Receiving: NET_GetLong.                                                 *)

MaxParts == Max({Parts[d] : d \in Datagrams})
Index    == 0 .. MaxParts - 1
Nothing  == [datagram |-> 0, part |-> 0]    \* a piece of the buffer never written

NewEntry ==
  [current |-> 0, count |-> 0, expected |-> 0, total |-> 0, active |-> now,
   flags |-> [n \in Index |-> -1], buffer |-> [n \in Index |-> Nothing]]

\* NET_DiscardStaleSplitpackets, before every packet.
Stale(e) == now >= e.active + StaleTime

\* A part of another series than the one in progress starts a new series;
\* -1 means that none is in progress.
Started(e, f) ==
  IF e.current # -1 /\ f.seq = e.current THEN e
  ELSE [e EXCEPT !.current = f.seq, !.count = f.count, !.expected = f.size]

\* Mutant: a duplicate is counted like a new part.
CountAll(e, f) ==
  [e EXCEPT !.total = IF f.part = f.count - 1 THEN f.count ELSE @,
            !.count = @ - 1, !.flags[f.part] = f.seq]

\* A part that is not marked with the sequence number is new.
Counted(e, f) ==
  IF e.flags[f.part] = f.seq THEN e
  ELSE [e EXCEPT !.total = IF f.part = f.count - 1 THEN f.count ELSE @,
                 !.count = @ - 1, !.flags[f.part] = f.seq]

Stored(e, f) ==
  [Counted(e, f) EXCEPT !.buffer[f.part] = [datagram |-> f.datagram, part |-> f.part]]

\* What NET_GetLong does with part f: the entry, and the buffer if it is full.
GetLong(f) ==
  LET e == Started([(IF Stale(entry) THEN NewEntry ELSE entry) EXCEPT !.active = now], f)
      t == Stored(e, f)
  IN  IF f.size # e.expected THEN <<e, <<>>>>
      ELSE IF t.count > 0 THEN <<t, <<>>>>
      ELSE <<[t EXCEPT !.current = -1], [n \in 1 .. t.total |-> t.buffer[n - 1]]>>

Whole(d) == [n \in 1 .. Parts[d] |-> [datagram |-> d, part |-> n - 1]]

\* Part number i of the wire arrives; it may arrive once more.
Receive(i) ==
  /\ InOrder => i = 1
  /\ entry' = GetLong(wire[i])[1]
  /\ out'   = GetLong(wire[i])[2]
  /\ whole' = whole \cup {d \in Datagrams : out' = Whole(d)}
  /\ \/ wire' = RemoveAt(wire, i) /\ UNCHANGED copies
     \/ ~InOrder /\ copies < MaxCopies /\ copies' = copies + 1 /\ UNCHANGED wire
  /\ UNCHANGED <<sender, queues, now>>

Lose(i) ==
  /\ ~InOrder
  /\ wire' = RemoveAt(wire, i)
  /\ UNCHANGED <<sender, queues, receiver, now, copies>>

-----------------------------------------------------------------------------
Init ==
  /\ channel = 0 /\ sequence = 1 /\ sent = 0 /\ sending = <<>> /\ queued = 0 /\ restarts = 0
  /\ useThread \in BOOLEAN /\ queue = {} /\ event = FALSE /\ awake = FALSE /\ wakeAt = IdleWait /\ list = <<>>
  /\ wire = <<>> /\ now = 0 /\ copies = 0
  /\ entry = NewEntry /\ out = <<>> /\ whole = {}

Next ==
  \/ SendLong \/ QueuePacketForSend \/ Reset \/ Recreate
  \/ WakeThread \/ RunThread \/ SendQueuedPackets \/ ChangeThread \/ Tick
  \/ \E i \in DOMAIN wire : Receive(i)
  \/ \E i \in DOMAIN wire : Lose(i)

Spec == Init /\ [][Next]_vars

\* The thread and the host frame run, time passes, the network delivers, and
\* the channel sends what it has to send.
Fairness ==
  /\ WF_vars(SendLong) /\ WF_vars(QueuePacketForSend) /\ WF_vars(WakeThread) /\ WF_vars(RunThread) /\ WF_vars(SendQueuedPackets) /\ WF_vars(Tick)
  /\ WF_vars(\E i \in DOMAIN wire : Receive(i))
FairSpec == Spec /\ Fairness

-----------------------------------------------------------------------------
(* Properties.                                                             *)

PartType == [datagram : Datagrams, part : Index, seq : Nat, count : Nat, size : Nat]
PieceType == [datagram : Datagrams \cup {0}, part : Index]

\* The counters and the entry keep their types; in particular a part number
\* never lies outside splitflags.
TypeOK ==
  /\ channel \in Nat /\ sequence \in Nat /\ sent \in 0 .. Len(Parts) /\ sending \in Seq(PartType)
  /\ queued \in Nat /\ restarts \in Nat
  /\ queue \subseteq [time : Nat, due : Nat, chan : Nat, frag : PartType]
  /\ useThread \in BOOLEAN /\ event \in BOOLEAN /\ awake \in BOOLEAN
  /\ wakeAt \in Nat /\ list \in Seq(PartType) /\ wire \in Seq(PartType)
  /\ entry \in [current : Int, count : Int, expected : Nat, total : Nat, active : Nat,
                flags : [Index -> Int], buffer : [Index -> PieceType]]
  /\ out \in Seq(PieceType) /\ whole \subseteq Datagrams
  /\ now \in Nat /\ copies \in Nat

\* NET_GetLong returns a buffer only when all of the pieces of one datagram
\* have been received (the comment at net_ws.cpp:1249), whatever the network
\* loses, repeats or reorders.
WholeDatagrams == out # <<>> => \E d \in Datagrams : out = Whole(d)

\* The same, as long as the numbers have not started again.
WholeUntilRestart == restarts = 0 => WholeDatagrams

\* The parts of a datagram leave before the first part of the next one: a
\* channel that has queued parts is choked (CNetChan::CanPacket).
NotInterleaved ==
  \A i, j \in DOMAIN wire : i < j => wire[i].datagram <= wire[j].datagram

\* While the thread sleeps and nobody has woken it, no part in its queue is due
\* before it wakes up by itself.
SentWhenDue == ~event /\ ~awake => \A q \in queue : wakeAt <= q.due

\* On a network that keeps the order, every datagram is put together although
\* its parts are delayed: the next datagram never cuts it off.
EventuallyWhole == \A d \in Datagrams : sent >= d ~> d \in whole
=============================================================================
