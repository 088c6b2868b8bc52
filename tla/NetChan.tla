------------------------------ MODULE NetChan ------------------------------
(***************************************************************************)
(* CNetChan (src/src/engine/net_chan.cpp): two endpoints exchange numbered *)
(* datagrams over a network that loses, duplicates and reorders them.      *)
(* Reliable data is cut into fragments; a run of fragments (a chunk)       *)
(* travels in one of MAX_SUBCHANNELS subchannels, each an alternating bit: *)
(* the sender flips the subchannel's bit in its outgoing reliable state    *)
(* when it takes the subchannel into use, the receiver flips its incoming  *)
(* bit when it has read the chunk, and every datagram carries the          *)
(* receiver's bits back.                                                   *)
(*                                                                         *)
(* Payload bytes are abstracted to (messages, fragment number); sizes are  *)
(* counted in fragments.  TCP streaming is compiled in but disabled        *)
(* (net_notcp), so no waiting item is ever sent asTCP.                     *)
(***************************************************************************)
EXTENDS Integers, Sequences, FiniteSets, SequencesExt

CONSTANTS
  Peer,             \* the two endpoints of the connection
  MAX_SUBCHANNELS,  \* number of subchannels (8 in net_chan.h)
  MaxFragments,     \* m_MaxReliablePayloadSize / FRAGMENT_SIZE
  MaxPayload,       \* NET_MAX_PAYLOAD, in fragments
  UseCompression,   \* m_bUseCompression and net_compresspackets
  Background,       \* m_bFileBackgroundTranmission
  NetMsg,           \* reliable net messages (FRAG_NORMAL_STREAM)
  AsyncMsg,         \* messages of EnqueueVeryLargeAsyncTransfer (FRAG_FILE_STREAM)
  FileMsg,          \* files of SendFile (FRAG_FILE_STREAM)
  Garbage,          \* bytes that are no message
  Size,             \* fragments a message fills
  Source,           \* the endpoint that sends a message
  Signon,           \* the message an endpoint sends right after a Clear
  Clearing,         \* messages whose handler calls Clear on the channel
  Failing,          \* messages whose handler returns false
  MaxSeq,           \* bound: last sequence number an endpoint uses
  MaxChoked,        \* bound: frames an endpoint chokes
  MaxSent,          \* bound: reliable items an endpoint accepts per stream
  MaxClears         \* bound: calls of Clear per endpoint

Msg         == NetMsg \cup AsyncMsg \cup FileMsg
Subchannels == 0 .. MAX_SUBCHANNELS - 1
Stream      == {0, 1}       \* FRAG_NORMAL_STREAM, FRAG_FILE_STREAM

ASSUME PeerAssumption       == \E a, b \in Peer : a # b /\ Peer = {a, b}
ASSUME SubchannelAssumption == MAX_SUBCHANNELS \in Nat \ {0}
ASSUME FragmentAssumption   == MaxFragments \in Nat \ {0} /\ MaxPayload \in Nat
ASSUME MessageAssumption    == /\ Size \in [Msg -> Nat \ {0}]
                               /\ Source \in [Msg -> Peer]
                               /\ Signon \in [Peer -> NetMsg]
                               /\ Clearing \cup Failing \subseteq NetMsg
                               /\ NetMsg \cap (AsyncMsg \cup FileMsg) = {}
                               /\ AsyncMsg \cap FileMsg = {} /\ Garbage \notin Msg
ASSUME ModeAssumption       == UseCompression \in BOOLEAN /\ Background \in BOOLEAN
ASSUME BoundAssumption      == /\ MaxSeq \in [Peer -> Nat] /\ MaxClears \in [Peer -> Nat]
                               /\ MaxChoked \in Nat /\ MaxSent \in Nat

VARIABLES
  chan,       \* the CNetChan of each endpoint
  net,        \* the datagrams under way that are not older than what arrived
  sent,       \* history: the items accepted for reliable delivery
  received,   \* history: what reached the message handlers
  clears      \* number of Clear calls, for the bound

vars == <<chan, net, sent, received, clears>>

-----------------------------------------------------------------------------
(* Data: subchannels, fragments, datagrams.                                *)

NoChunk   == [start |-> -1, num |-> 0, total |-> 0, file |-> FALSE, payload |-> <<>>]
FreeSub   == [state |-> "FREE", seq |-> -1,
              start |-> [s \in Stream |-> -1], num |-> [s \in Stream |-> 0]]
EmptyList == [open |-> FALSE, total |-> 0, acked |-> 0, file |-> FALSE, buf |-> <<>>]
Item(payload, total, file) ==
  [payload |-> payload, total |-> total, acked |-> 0, pending |-> 0,
   file |-> file, compressed |-> FALSE]

\* FLIPBIT on the set of subchannels whose bit is 1.
FlipBit(S, i) == IF i \in S THEN S \ {i} ELSE S \cup {i}

MinOf(S)   == CHOOSE x \in S : \A y \in S : x <= y
Lesser(a, b) == IF a <= b THEN a ELSE b

\* The chunk of stream s that subchannel sub carries, as fragment numbers.
ChunkOf(sub, s) == sub.start[s] .. sub.start[s] + sub.num[s] - 1

-----------------------------------------------------------------------------
(* Sending: CreateFragmentsFromBuffer, CompressFragments,                  *)
(* UpdateSubChannels, SendSubChannelData.                                  *)

\* CreateFragmentsFromBuffer: the pending reliable buffer becomes a waiting
\* item, or is appended to the last item when that is not the head.
CreateFragmentsFromBuffer(ch) ==
  LET list   == ch.waiting[0]
      last   == list[Len(list)]
      append == Len(list) > 1 /\ last.total + ch.streamSize < MaxPayload
  IN  IF ch.stream = <<>> THEN ch
      ELSE [ch EXCEPT
              !.stream = <<>>, !.streamSize = 0,
              !.waiting[0] = IF append
                THEN [list EXCEPT ![Len(list)] =
                        Item(last.payload \o ch.stream, last.total + ch.streamSize, FALSE)]
                ELSE Append(list, Item(ch.stream, ch.streamSize, FALSE))]

\* Mutant: an item is compressed although fragments of it are out.
CompressStarted(list) ==
  {list} \cup {[list EXCEPT ![1].total = n, ![1].compressed = TRUE] :
                 n \in IF list # <<>> /\ UseCompression /\ ~list[1].compressed
                       THEN 1 .. list[1].total - 1 ELSE {}}

\* CompressFragments may shrink the head item of a stream, but only while
\* nothing of it has been sent; the compressed size depends on the bytes.
Compressible(list) ==
  list # <<>> /\ UseCompression /\ ~list[1].compressed /\ list[1].acked = 0 /\ list[1].pending = 0
CompressedHeads(list) ==
  {list} \cup {[list EXCEPT ![1].total = n, ![1].compressed = TRUE] :
                 n \in IF Compressible(list) THEN 1 .. list[1].total - 1 ELSE {}}

CompressFragments(ch) ==
  {[ch EXCEPT !.waiting = [s \in Stream |-> IF s = 0 THEN w0 ELSE w1]] :
     w0 \in CompressedHeads(ch.waiting[0]), w1 \in CompressedHeads(ch.waiting[1])}

\* Fragments of the head item of stream s that are not out yet.
Unsent(ch, s) ==
  IF ch.waiting[s] = <<>> THEN 0
  ELSE ch.waiting[s][1].total - (ch.waiting[s][1].acked + ch.waiting[s][1].pending)

\* Mutant: everything left goes out, whatever the packet can hold.
TakeAll(ch, s, n) == Unsent(ch, s)

\* Fragments of stream s that UpdateSubChannels takes, given room for n, and
\* what it takes of both streams.
Take(ch, s, n) ==
  Lesser(Lesser(n, Unsent(ch, s)), IF s = 1 /\ Background THEN 1 ELSE n)
Takes(ch) ==
  LET n0 == Take(ch, 0, MaxFragments)
  IN  [s \in Stream |-> IF s = 0 THEN n0 ELSE Take(ch, 1, MaxFragments - n0)]
Starts(ch) ==
  [s \in Stream |-> IF Takes(ch)[s] = 0 THEN -1
                    ELSE ch.waiting[s][1].acked + ch.waiting[s][1].pending]

TakenLists(ch) ==
  [s \in Stream |-> IF Takes(ch)[s] = 0 THEN ch.waiting[s]
                    ELSE [ch.waiting[s] EXCEPT ![1].pending = @ + Takes(ch)[s]]]

\* UpdateSubChannels: the first free subchannel takes the next fragments of
\* both streams' head items and its bit is flipped.
UpdateSubChannels(ch) ==
  LET free == {i \in Subchannels : ch.sub[i].state = "FREE"}
      i    == MinOf(free)
  IN  IF free = {} \/ \A s \in Stream : Takes(ch)[s] = 0 THEN ch
      ELSE [ch EXCEPT
              !.sub[i]  = [state |-> "TOSEND", seq |-> 0,
                           start |-> Starts(ch), num |-> Takes(ch)],
              !.outRel  = FlipBit(@, i),
              !.waiting = TakenLists(ch)]

\* The data SendSubChannelData writes for stream s of subchannel sub.
Chunk(ch, sub, s) ==
  LET head == ch.waiting[s][1]
  IN  IF sub.num[s] = 0 THEN NoChunk
      ELSE [start |-> sub.start[s], num |-> sub.num[s], total |-> head.total,
            file |-> head.file, payload |-> head.payload]

ToSend(ch) == {i \in Subchannels : ch.sub[i].state = "TOSEND"}

\* The datagram SendDatagram builds; subch is -1 without reliable data.
Datagram(p, ch) ==
  LET i == IF ToSend(ch) = {} THEN -1 ELSE MinOf(ToSend(ch))
  IN  [from |-> p, seq |-> ch.outSeq, ack |-> ch.inSeq, rel |-> ch.inRel,
       choked |-> ch.choked % 256, subch |-> i,
       chunk |-> [s \in Stream |-> IF i = -1 THEN NoChunk
                                              ELSE Chunk(ch, ch.sub[i], s)]]

\* Mutant: only a frame without reliable data uses up its number.
AfterSendSameSeq(ch) ==
  LET i == MinOf(ToSend(ch))
  IN  [ch EXCEPT !.choked = 0, !.outSeq = IF ToSend(ch) = {} THEN @ + 1 ELSE @,
                 !.sub = IF ToSend(ch) = {} THEN @
                         ELSE [@ EXCEPT ![i].state = "WAITING", ![i].seq = ch.outSeq]]

\* The channel after the datagram is out.
AfterSend(ch) ==
  LET i == MinOf(ToSend(ch))
  IN  [ch EXCEPT !.choked = 0, !.outSeq = @ + 1,
                 !.sub = IF ToSend(ch) = {} THEN @
                         ELSE [@ EXCEPT ![i].state = "WAITING", ![i].seq = ch.outSeq]]

-----------------------------------------------------------------------------
(* Clear: drop all waiting and half-received data.                         *)

\* Mutant: the bit of data that was never sent stays flipped.
ClearKeepsBits(ch) ==
  [ch EXCEPT
     !.waiting = [s \in Stream |-> <<>>],
     !.recv    = [s \in Stream |-> [@[s] EXCEPT !.open = FALSE, !.buf = <<>>]],
     !.sub     = [i \in Subchannels |->
                    CASE @[i].state = "TOSEND"  -> FreeSub
                      [] @[i].state = "WAITING" -> [@[i] EXCEPT !.state = "DIRTY"]
                      [] OTHER                  -> @[i]],
     !.stream  = <<>>, !.streamSize = 0, !.choked = 0]
Clear(ch) ==
  LET unsent == ToSend(ch)
  IN  [ch EXCEPT
         !.waiting = [s \in Stream |-> <<>>],
         !.recv    = [s \in Stream |-> [@[s] EXCEPT !.open = FALSE, !.buf = <<>>]],
         !.outRel  = (@ \ unsent) \cup (unsent \ @),
         !.sub     = [i \in Subchannels |->
                        CASE @[i].state = "TOSEND"  -> FreeSub
                          [] @[i].state = "WAITING" -> [@[i] EXCEPT !.state = "DIRTY"]
                          [] OTHER                  -> @[i]],
         !.stream  = <<>>, !.streamSize = 0,
         !.choked  = 0]

\* SendNetMsg for a reliable message: append it to the reliable buffer.
WriteToBuffer(ch, m) == [ch EXCEPT !.stream = Append(@, m), !.streamSize = @ + Size[m]]

\* Every caller of Clear goes on to send one message (a signon state or the
\* client's settings).
ClearAndSignon(p, ch) == WriteToBuffer(Clear(ch), Signon[p])

-----------------------------------------------------------------------------
(* Receiving, first part: ProcessPacketHeader.                             *)

Matches(ch, k, i) == (i \in ch.outRel) <=> (i \in k.rel)

\* Subchannels on which the header is rejected ("reliable state invalid").
Invalid(ch, k) == {i \in Subchannels : /\ Matches(ch, k, i)
                                       /\ ch.sub[i].state # "DIRTY"
                                       /\ ch.sub[i].seq > k.ack}

\* The loop stops at the first of them: later subchannels are not looked at.
Reached(ch, k) == {i \in Subchannels : \A j \in Invalid(ch, k) : i < j}

AckedSubs(ch, k) == {i \in Reached(ch, k) : Matches(ch, k, i) /\ ch.sub[i].state = "WAITING"}
\* Mutant: a subchannel is resent before an ack covers its transmission.
MissedEarly(ch, k) == {i \in Reached(ch, k) : ~Matches(ch, k, i)}
MissedSubs(ch, k) == {i \in Reached(ch, k) : ~Matches(ch, k, i) /\ ch.sub[i].seq <= k.ack}
DirtyDone(ch, k) == {i \in Reached(ch, k) : Matches(ch, k, i) /\ ch.sub[i].state = "DIRTY"}
DirtyLost(ch, k) == {i \in MissedSubs(ch, k) : ch.sub[i].state = "DIRTY"}

\* Number of fragments of stream s acknowledged by header k.  The chunks of
\* two subchannels never overlap, so the union has the size the loop adds up.
AckedFragments(ch, k, s) ==
  Cardinality(UNION {ChunkOf(ch.sub[i], s) : i \in AckedSubs(ch, k)})

AckedList(ch, k, s) ==
  IF ch.waiting[s] = <<>> THEN <<>>
  ELSE [ch.waiting[s] EXCEPT ![1].acked   = @ + AckedFragments(ch, k, s),
                             ![1].pending = @ - AckedFragments(ch, k, s)]

\* The subchannel loop.
AckSubChannels(ch, k) ==
  [ch EXCEPT
     !.waiting = [s \in Stream |-> AckedList(ch, k, s)],
     !.outRel  = (@ \ DirtyLost(ch, k)) \cup (DirtyLost(ch, k) \ @),
     !.sub     = [i \in Subchannels |->
                    CASE i \in AckedSubs(ch, k) \cup DirtyDone(ch, k) \cup DirtyLost(ch, k)
                              -> FreeSub
                      [] i \in MissedSubs(ch, k) /\ @[i].state = "WAITING"
                              -> [@[i] EXCEPT !.state = "TOSEND"]
                      [] OTHER -> @[i]]]

\* Mutant: the head item is removed as soon as its last fragment is out.
RemoveSentHead(list, ack) ==
  IF list # <<>> /\ ack > 0 /\ list[1].acked + list[1].pending = list[1].total
  THEN Tail(list) ELSE list

\* CheckWaitingList: a head item that is acknowledged completely is removed.
CheckWaitingList(list, ack) ==
  IF list # <<>> /\ ack > 0 /\ list[1].acked = list[1].total THEN Tail(list) ELSE list

\* ProcessPacketHeader.  A header that names an impossible reliable state is
\* rejected: the subchannels looked at so far stay updated.
ProcessPacketHeader(ch, k) ==
  LET a == [AckSubChannels(ch, k) EXCEPT !.drop = k.seq - (ch.inSeq + k.choked + 1)]
  IN  IF Invalid(ch, k) # {} THEN a
      ELSE [a EXCEPT !.inSeq = k.seq, !.outSeqAck = k.ack,
                     !.waiting = [s \in Stream |-> CheckWaitingList(@[s], k.ack)]]

-----------------------------------------------------------------------------
(* Receiving, second part: ReadSubChannelData and CheckReceivingList.      *)

\* The header part of ReadSubChannelData: a chunk that starts at fragment 0
\* opens a new receive buffer, whatever was in the old one.
OpenList(list, c) ==
  IF c.start = 0 THEN [open |-> TRUE, total |-> c.total, acked |-> 0, file |-> c.file,
                       buf |-> [n \in 1 .. c.total |-> <<>>]]
  ELSE list

Readable(list, c) ==
  LET l == OpenList(list, c)
  IN  l.open /\ c.start + c.num <= l.total

ReadSubChannelData(list, c) ==
  LET l == OpenList(list, c)
  IN  IF c.num = 0 THEN list
      ELSE IF ~Readable(list, c) THEN l
      ELSE [l EXCEPT !.acked = @ + c.num,
                     !.buf = [n \in 1 .. l.total |->
                                IF n - 1 \in c.start .. c.start + c.num - 1
                                THEN <<c.payload, n>> ELSE @[n]]]

ReadOk(list, c) == c.num = 0 \/ Readable(list, c)

\* The stream loop of ProcessPacket stops at the first chunk it cannot read;
\* what the streams before it stored stays stored.
ReadAll(ch, k) ==
  [ch EXCEPT !.recv = [s \in Stream |->
     IF s = 0 \/ ReadOk(ch.recv[0], k.chunk[0])
     THEN ReadSubChannelData(ch.recv[s], k.chunk[s]) ELSE @[s]]]
\* Mutant: the result of ReadSubChannelData is not looked at.
IgnoreReadError(ch, k) == k.subch # -1
AllRead(ch, k) == \A s \in Stream : ReadOk(ch.recv[s], k.chunk[s])

\* What a complete buffer holds: the messages of one item if every fragment
\* is in its place, otherwise bytes of no message ("garbage").
Contents(list) ==
  LET payload == list.buf[1][1]
  IN  IF \A n \in 1 .. list.total : list.buf[n] # <<>> /\ list.buf[n] = <<payload, n>>
      THEN payload ELSE <<Garbage>>

\* ProcessMessages runs the handlers in order and stops after one that
\* fails or clears the channel.
Stops(m) == m \in Clearing \cup Failing
Processed(msgs) ==
  LET stop == {n \in 1 .. Len(msgs) : Stops(msgs[n])}
  IN  IF stop = {} THEN msgs ELSE SubSeq(msgs, 1, MinOf(stop))

\* A file whose name already exists on disk is not written again.
Handled(list, got) ==
  IF ~list.file THEN Processed(Contents(list))
  ELSE IF ToSet(Contents(list)) \subseteq ToSet(got) THEN <<>> ELSE Contents(list)

Complete(list) == list.open /\ list.acked = list.total
TooMany(list)  == list.open /\ list.acked > list.total

\* CheckReceivingList of p for stream s: <<channel, what was handled, go on>>.
CheckReceivingList(p, ch, s, got) ==
  LET list == ch.recv[s]
      msgs == Handled(list, got)
      last == msgs[Len(msgs)]
  IN  CASE ~Complete(list) -> <<ch, <<>>, ~TooMany(list)>>
        [] Complete(list) /\ msgs # <<>> /\ last \in Clearing -> <<ClearAndSignon(p, ch), msgs, FALSE>>
        [] Complete(list) /\ msgs # <<>> /\ last \in Failing \ Clearing -> <<ch, msgs, FALSE>>
        [] OTHER -> <<[ch EXCEPT !.recv[s].open = FALSE, !.recv[s].buf = <<>>], msgs, TRUE>>

-----------------------------------------------------------------------------
(* The actions.                                                            *)

\* SendNetMsg of a reliable message that fits the buffer.  One that does not fit also marks the
\* channel as overflowed, after which it sends nothing more and its owner drops it: the end of the
\* channel, which is left out here.
SendNetMsg(p, m) ==
  /\ m \in NetMsg /\ Source[m] = p
  /\ Len(sent[p][0]) < MaxSent /\ ~Contains(sent[p][0], m)
  /\ m \notin Range(Signon)
  /\ chan[p].streamSize + Size[m] <= MaxPayload
  /\ chan' = [chan EXCEPT ![p] = WriteToBuffer(@, m)]
  /\ sent' = [sent EXCEPT ![p][0] = Append(@, m)]
  /\ UNCHANGED <<net, received, clears>>

\* EnqueueVeryLargeAsyncTransfer and SendFile: straight to the waiting list of
\* the file stream.  A file that is in the list already is not added again.
SendFile(p, m) ==
  /\ m \in AsyncMsg \cup FileMsg /\ Source[m] = p
  /\ Len(sent[p][1]) < MaxSent
  /\ m \in AsyncMsg => ~Contains(sent[p][1], m)
  /\ m \in FileMsg => \A n \in DOMAIN chan[p].waiting[1] : chan[p].waiting[1][n].payload # <<m>>
  /\ chan' = [chan EXCEPT ![p].waiting[1] = Append(@, Item(<<m>>, Size[m], m \in FileMsg))]
  /\ sent' = [sent EXCEPT ![p][1] = Append(@, m)]
  /\ UNCHANGED <<net, received, clears>>

\* SetChoked: a frame was not sent for lack of bandwidth; its number is used up.
SetChoked(p) ==
  /\ chan[p].outSeq < MaxSeq[p] /\ chan[p].choked < MaxChoked
  /\ chan' = [chan EXCEPT ![p].outSeq = @ + 1, ![p].choked = @ + 1]
  /\ UNCHANGED <<net, sent, received, clears>>

SendDatagram(p) ==
  /\ chan[p].outSeq <= MaxSeq[p]
  /\ \E ch \in CompressFragments(CreateFragmentsFromBuffer(chan[p])) :
       LET ready == UpdateSubChannels(ch)
       IN  /\ chan' = [chan EXCEPT ![p] = AfterSend(ready)]
           /\ net'  = net \cup {Datagram(p, ready)}
  /\ UNCHANGED <<sent, received, clears>>

ClearChannel(p) ==
  /\ clears[p] < MaxClears[p]
  /\ chan'   = [chan EXCEPT ![p] = ClearAndSignon(p, @)]
  /\ sent'   = [sent EXCEPT ![p][0] = Append(@, Signon[p])]
  /\ clears' = [clears EXCEPT ![p] = @ + 1]
  /\ UNCHANGED <<net, received>>

\* Mutant: the datagram that arrived last is accepted once more.
NotOlder(p, k) == k.from # p /\ k.seq >= chan[p].inSeq

\* ProcessPacket for a header that is not stale.  Delivery does not take the
\* datagram out of the network: it may arrive again, late, or never.  Older
\* ones are taken out, because the guard Fresh would refuse them for good.
Fresh(p, k) == k.from # p /\ k.seq > chan[p].inSeq

ProcessPacket(p, k) ==
  LET ch       == ProcessPacketHeader(chan[p], k)
      reliable == Invalid(chan[p], k) = {} /\ k.subch # -1
      read     == ReadAll(ch, k)
      flip     == [read EXCEPT !.inRel = FlipBit(@, k.subch)]
      q        == k.from
      got0     == CheckReceivingList(p, flip, 0, received[q][0])
      got1     == CheckReceivingList(p, got0[1], 1, received[q][1])
      cleared  == got0[2] # <<>> /\ Last(got0[2]) \in Clearing
  IN  /\ Fresh(p, k)
      /\ \/ /\ ~reliable
            /\ chan' = [chan EXCEPT ![p] = ch]
            /\ UNCHANGED <<sent, received>>
         \/ /\ reliable /\ ~AllRead(ch, k)
            /\ chan' = [chan EXCEPT ![p] = read]
            /\ UNCHANGED <<sent, received>>
         \/ /\ reliable /\ AllRead(ch, k) /\ ~got0[3]
            /\ chan' = [chan EXCEPT ![p] = got0[1]]
            /\ received' = [received EXCEPT ![q][0] = @ \o got0[2]]
            /\ sent' = IF cleared THEN [sent EXCEPT ![p][0] = Append(@, Signon[p])] ELSE sent
         \/ /\ reliable /\ AllRead(ch, k) /\ got0[3]
            /\ chan' = [chan EXCEPT ![p] = got1[1]]
            /\ received' = [received EXCEPT ![q][0] = @ \o got0[2], ![q][1] = @ \o got1[2]]
            /\ UNCHANGED sent
      /\ net' = {x \in net : x.from = k.from => x.seq >= chan'[p].inSeq}
      /\ UNCHANGED clears

NewChannel ==
  [outSeq |-> 1, inSeq |-> 0, outSeqAck |-> 0, outRel |-> {}, inRel |-> {},
   choked |-> 0, drop |-> 0, stream |-> <<>>, streamSize |-> 0,
   waiting |-> [s \in Stream |-> <<>>],
   recv |-> [s \in Stream |-> EmptyList],
   sub |-> [i \in Subchannels |-> FreeSub]]

Init ==
  /\ chan     = [p \in Peer |-> NewChannel]
  /\ net      = {}
  /\ sent     = [p \in Peer |-> [s \in Stream |-> <<>>]]
  /\ received = [p \in Peer |-> [s \in Stream |-> <<>>]]
  /\ clears   = [p \in Peer |-> 0]

Next ==
  \E p \in Peer :
    \/ \E m \in Msg : SendNetMsg(p, m)
    \/ \E m \in Msg : SendFile(p, m)
    \/ SetChoked(p)
    \/ SendDatagram(p)
    \/ ClearChannel(p)
    \/ \E k \in net : ProcessPacket(p, k)

Spec == Init /\ [][Next]_vars

-----------------------------------------------------------------------------
(* Types.                                                                  *)

FragmentCount == 0 .. MaxFragments
SubchannelType ==
  [state : {"FREE", "TOSEND", "WAITING", "DIRTY"}, seq : Nat \cup {-1},
   start : [Stream -> Nat \cup {-1}], num : [Stream -> FragmentCount]]
ChunkType ==
  {NoChunk} \cup
  [start : Nat, num : FragmentCount \ {0}, total : Nat \ {0}, file : BOOLEAN, payload : Seq(Msg)]
DatagramType ==
  [from : Peer, seq : Nat, ack : Nat, rel : SUBSET Subchannels, choked : Nat,
   subch : Subchannels \cup {-1}, chunk : [Stream -> ChunkType]]
ItemType ==
  [payload : Seq(Msg), total : Nat \ {0}, acked : Nat, pending : Nat,
   file : BOOLEAN, compressed : BOOLEAN]
ListType ==
  {list \in [open : BOOLEAN, total : Nat, acked : Nat, file : BOOLEAN,
              buf : Seq({<<>>} \cup (Seq(Msg) \X Nat))] :
     list.open => list.total > 0 /\ Len(list.buf) = list.total}
ChannelRecord ==
  [outSeq : Nat, inSeq : Nat, outSeqAck : Nat,
   outRel : SUBSET Subchannels, inRel : SUBSET Subchannels,
   choked : Nat, drop : Int, stream : Seq(Msg), streamSize : Nat,
   waiting : [Stream -> Seq(ItemType)], recv : [Stream -> ListType],
   sub : [Subchannels -> SubchannelType]]
ChannelType == {ch \in ChannelRecord : ch.stream # <<>> => ch.streamSize > 0}

\* Every field keeps its type; a subchannel never takes more fragments than fit
\* a packet (m_MaxReliablePayloadSize).
TypeOK ==
  /\ chan \in [Peer -> ChannelType]
  /\ net \subseteq DatagramType
  /\ sent \in [Peer -> [Stream -> Seq(Msg)]]
  /\ received \in [Peer -> [Stream -> Seq(Msg \cup {Garbage})]]
  /\ clears \in [Peer -> Nat]

-----------------------------------------------------------------------------
(* The alternating-bit protocol of the subchannels.                        *)

\* The datagrams that p would still accept.
Live(p) == {k \in net : Fresh(p, k)}

\* Does p's outgoing bit of subchannel i equal q's incoming bit?
Agree(p, q, i) == (i \in chan[p].outRel) <=> (i \in chan[q].inRel)

\* Numbers: a datagram is older than the next one of its sender, its ack is
\* something the sender has received, and later datagrams ack no less.
SequenceInv ==
  /\ \A p, q \in Peer : p # q => chan[p].inSeq < chan[q].outSeq
  /\ \A k \in net : k.seq < chan[k.from].outSeq /\ k.ack <= chan[k.from].inSeq
  /\ \A k, l \in net : k.from = l.from /\ k.seq <= l.seq => k.ack <= l.ack

\* A subchannel of p towards q that carries nothing: both ends have the same
\* bit, every ack under way says so, and no data is under way on it.
FreeInv(p, q, i) ==
  chan[p].sub[i].state = "FREE" =>
    /\ chan[p].sub[i].seq = -1
    /\ Agree(p, q, i)
    /\ \A k \in Live(p) : Matches(chan[p], k, i)
    /\ \A k \in Live(q) : k.subch # i

\* Waiting to be sent (again): the bits differ, every ack says so, no data.
ToSendInv(p, q, i) ==
  chan[p].sub[i].state = "TOSEND" =>
    /\ ~Agree(p, q, i)
    /\ \A k \in Live(p) : ~Matches(chan[p], k, i)
    /\ \A k \in Live(q) : k.subch # i

\* Sent: the only data under way is the last transmission; an ack that covers
\* it tells the truth about the receiver's present bit.
SentInv(p, q, i) ==
  chan[p].sub[i].state \in {"WAITING", "DIRTY"} =>
    /\ chan[p].sub[i].seq < chan[p].outSeq
    /\ \A k \in Live(q) : k.subch = i => k.seq = chan[p].sub[i].seq
    /\ Agree(p, q, i) => chan[p].sub[i].seq <= chan[q].inSeq
    /\ \A k \in Live(p) :
         /\ Matches(chan[p], k, i) => Agree(p, q, i) /\ chan[p].sub[i].seq <= k.ack
         /\ ~Matches(chan[p], k, i) /\ chan[p].sub[i].seq <= k.ack => ~Agree(p, q, i)

SubchannelInv ==
  \A p, q \in Peer : p # q => \A i \in Subchannels :
    FreeInv(p, q, i) /\ ToSendInv(p, q, i) /\ SentInv(p, q, i)

\* No datagram that can still be accepted names an impossible reliable state
\* ("reliable state invalid", net_chan.cpp:2710), and none contradicts a free
\* subchannel (the assertion at net_chan.cpp:2740).
HeaderConsistent ==
  \A p \in Peer : \A k \in Live(p) :
    /\ Invalid(chan[p], k) = {}
    /\ \A i \in MissedSubs(chan[p], k) : chan[p].sub[i].state # "FREE"

-----------------------------------------------------------------------------
(* Reliable delivery.                                                      *)

\* What p has accepted for stream s and still keeps.
Queued(p, s) ==
  (UNION {ToSet(chan[p].waiting[s][n].payload) : n \in DOMAIN chan[p].waiting[s]})
    \cup (IF s = 0 THEN ToSet(chan[p].stream) ELSE {})

\* A message leaves the sender's queue only after the receiver's handler has
\* had it (RemoveHeadInWaitingList must not run early), while nobody clears.
NothingLost ==
  \A p \in Peer, s \in Stream :
    ToSet(sent[p][s]) \subseteq ToSet(received[p][s]) \cup Queued(p, s)

\* Without Clear and failing handlers each direction of the channel is the
\* reliable queue of ReliableStream.
Reliable == INSTANCE ReliableStream WITH Sender <- Peer, Message <- Msg
ImplementsReliableStream == Reliable!Spec

\* Handlers get the messages of a stream in the order in which they were
\* accepted and each at most once, whatever is cleared in between.  They get
\* messages again only when a handler has failed since: the receive buffer of a
\* failed item is not freed and runs again with the next chunk.  (A file of
\* several fragments breaks this in another way, see HandledOnce.)
InOrderUnlessFailed ==
  \A p \in Peer, s \in Stream :
    LET whole == {i \in DOMAIN received[p][s] : received[p][s][i] # Garbage}
    IN  \E f \in [whole -> DOMAIN sent[p][s]] :
          /\ \A i \in whole : received[p][s][i] = sent[p][s][f[i]]
          /\ \A i, j \in whole : i < j =>
               f[i] < f[j] \/ \E n \in i .. j - 1 : received[p][s][n] \in Failing

\* A fragment whose header was lost waits for a retry, as net_chan.cpp:1803
\* says: the handlers never get an item put together from two.
NeverSpliced == \A p \in Peer, s \in Stream : Garbage \notin ToSet(received[p][s])

\* A datagram with a chunk that cannot be read is dropped as a whole, as
\* net_chan.cpp:2872 says, and its messages wait for the retry: when no handler
\* fails, none is handled twice.  The code breaks it when two streams share a datagram.
HandledOnce ==
  \A p \in Peer, s \in Stream : \A i, j \in DOMAIN received[p][s] :
    i # j => received[p][s][i] # received[p][s][j]

\* The subchannels that carry fragments of the head item of stream s.
Carrying(ch, s) ==
  {i \in Subchannels : ch.sub[i].state \in {"TOSEND", "WAITING"} /\ ch.sub[i].num[s] > 0}
InFlight(ch, s) == UNION {ChunkOf(ch.sub[i], s) : i \in Carrying(ch, s)}

\* The counters of the head item agree with the subchannels: the chunks in
\* flight are disjoint, pendingFragments counts them, no fragment beyond those
\* counted is in flight, and nothing is without an item to belong to (the
\* assertions at net_chan.cpp:1863 and 2738).
Accounting(ch, s) ==
  LET list == ch.waiting[s]
  IN  /\ \A i, j \in Carrying(ch, s) :
           i # j => ChunkOf(ch.sub[i], s) \cap ChunkOf(ch.sub[j], s) = {}
      /\ list = <<>> => Carrying(ch, s) = {}
      /\ list # <<>> => /\ list[1].pending = Cardinality(InFlight(ch, s))
                        /\ list[1].acked + list[1].pending <= list[1].total
                        /\ InFlight(ch, s) \subseteq 0 .. list[1].acked + list[1].pending - 1
      /\ \A n \in DOMAIN list \ {1} : list[n].acked = 0 /\ list[n].pending = 0
AckAccounting == \A p \in Peer, s \in Stream : Accounting(chan[p], s)

\* A fragment counted as acknowledged is in the receiver's buffer at its
\* place, or its item has been handled.
AckedWasRead ==
  \A p, q \in Peer, s \in Stream :
    p # q /\ chan[p].waiting[s] # <<>> =>
      LET head == chan[p].waiting[s][1]
          rcv  == chan[q].recv[s]
      IN  \A n \in (0 .. head.acked + head.pending - 1) \ InFlight(chan[p], s) :
            \/ ToSet(head.payload) \subseteq ToSet(received[p][s])
            \/ rcv.open /\ rcv.total = head.total /\ n < rcv.total
                  /\ rcv.buf[n + 1] = <<head.payload, n + 1>>
=============================================================================
