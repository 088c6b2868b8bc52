---------------------------- MODULE NetChanProofs ----------------------------
(***************************************************************************)
(* NetChan is correct for any number of subchannels, any packet size, any  *)
(* messages and any bounds, whatever the network does.                     *)
(*                                                                         *)
(* First, type correctness and the accounting of the fragments.  The       *)
(* handlers are sequences of stages (create, compress, take, send; header, *)
(* read, dispatch); each stage has a lemma that says that it maps a sound  *)
(* channel to a sound channel.                                             *)
(*                                                                         *)
(* Then the alternating-bit protocol of the subchannels: SequenceInv and   *)
(* SubchannelInv are inductive, and no datagram that is accepted names an  *)
(* impossible reliable state.  The invariant is stated about the channels  *)
(* a and b of the two endpoints p and q and a set N of datagrams, so that  *)
(* the stages of an action can be followed one by one.                     *)
(***************************************************************************)
EXTENDS NetChan, FiniteSetTheorems, SequenceTheorems, WellFoundedInduction, TLAPS

\* A channel of the right type whose counters agree with its subchannels.
Sound(ch) == ch \in ChannelType /\ \A s \in Stream : Accounting(ch, s)

\* Two channels that do not differ in what the bit protocol looks at.
SameEnds(a, b) ==
  /\ a.outSeq = b.outSeq /\ a.inSeq = b.inSeq
  /\ a.outRel = b.outRel /\ a.inRel = b.inRel /\ a.sub = b.sub

-----------------------------------------------------------------------------
(* Arithmetic and sets.                                                    *)

\* The pairs of naturals in strict order, a well-founded relation.
StrictlyLess == {ss \in Nat \X Nat : ss[1] < ss[2]}

LEMMA StrictlyLessWellFounded == IsWellFoundedOn(StrictlyLess, Nat)
BY NatLessThanWellFounded DEF OpToRel, StrictlyLess

\* MinOf finds the least element of a non-empty set of naturals.
LEMMA LeastElement ==
  ASSUME NEW S \in SUBSET Nat, S # {}
  PROVE  MinOf(S) \in S /\ \A y \in S : MinOf(S) <= y
<1>1. PICK x \in S : \A y \in S : ~ (<<y, x>> \in StrictlyLess)
  BY StrictlyLessWellFounded, WFMin, Zenon
<1>2. ASSUME NEW y \in S PROVE x <= y
  <2>1. x \in Nat /\ y \in Nat
    OBVIOUS
  <2>2. ~ (y < x)
    BY <1>1, <2>1 DEF StrictlyLess
  <2> QED BY <2>1, <2>2
<1> QED BY <1>2 DEF MinOf

LEMMA SubchannelsNat == Subchannels \subseteq Nat
BY SubchannelAssumption DEF Subchannels

\* The first subchannel of a kind is one of that kind.
LEMMA FirstSubchannel ==
  ASSUME NEW S \in SUBSET Subchannels, S # {}
  PROVE  MinOf(S) \in S
BY SubchannelsNat, LeastElement

LEMMA FlipBitType ==
  ASSUME NEW S \in SUBSET Subchannels, NEW i \in Subchannels
  PROVE  FlipBit(S, i) \in SUBSET Subchannels
BY DEF FlipBit

\* A run of fragments has as many elements as its length.
LEMMA RunSize ==
  ASSUME NEW a \in Int, NEW n \in Nat
  PROVE  IsFiniteSet(a .. a + n - 1) /\ Cardinality(a .. a + n - 1) = n
BY FS_Interval

LEMMA RunEmpty ==
  ASSUME NEW a \in Int, NEW n \in Nat
  PROVE  a .. a + n - 1 = {} <=> n = 0
<1>1. CASE n = 0
  BY <1>1
<1>2. CASE n # 0
  <2>1. a \in a .. a + n - 1
    BY <1>2
  <2> QED BY <1>2, <2>1
<1> QED BY <1>1, <1>2

-----------------------------------------------------------------------------
(* The types of the parts.                                                 *)

LEMMA ItemTyped ==
  ASSUME NEW payload \in Seq(Msg), NEW total \in Nat \ {0}, NEW file \in BOOLEAN
  PROVE  Item(payload, total, file) \in ItemType
BY DEF Item, ItemType

LEMMA SizePositive == \A m \in Msg : Size[m] \in Nat \ {0}
BY MessageAssumption

LEMMA FreeSubTyped == FreeSub \in SubchannelType
BY FragmentAssumption DEF FreeSub, SubchannelType, FragmentCount

LEMMA EmptyListTyped == EmptyList \in ListType
BY DEF EmptyList, ListType

LEMMA ChannelIsRecord == \A ch \in ChannelType : ch \in ChannelRecord
BY DEF ChannelType

\* The fields of a channel.
LEMMA Fields ==
  ASSUME NEW ch \in ChannelType
  PROVE  /\ ch.outSeq \in Nat /\ ch.inSeq \in Nat /\ ch.outSeqAck \in Nat
         /\ ch.outRel \in SUBSET Subchannels /\ ch.inRel \in SUBSET Subchannels
         /\ ch.choked \in Nat /\ ch.drop \in Int
         /\ ch.stream \in Seq(Msg) /\ ch.streamSize \in Nat
         /\ ch.stream # <<>> => ch.streamSize > 0
         /\ ch.waiting \in [Stream -> Seq(ItemType)] /\ ch.recv \in [Stream -> ListType]
         /\ ch.sub \in [Subchannels -> SubchannelType]
BY DEF ChannelType, ChannelRecord

LEMMA Streams == 0 \in Stream /\ 1 \in Stream /\ \A s \in Stream : s = 0 \/ s = 1
BY DEF Stream

\* A fragment run of a subchannel, and what is in flight.
LEMMA ChunkFinite ==
  ASSUME NEW sub \in SubchannelType, NEW s \in Stream
  PROVE  /\ sub.num[s] \in Nat /\ sub.start[s] \in Nat \cup {-1}
         /\ IsFiniteSet(ChunkOf(sub, s)) /\ Cardinality(ChunkOf(sub, s)) = sub.num[s]
         /\ ChunkOf(sub, s) = {} <=> sub.num[s] = 0
<1>1. sub.num[s] \in Nat /\ sub.start[s] \in Nat \cup {-1}
  BY FragmentAssumption DEF SubchannelType, FragmentCount
<1> DEFINE a == sub.start[s]
           n == sub.num[s]
<1>2. ChunkOf(sub, s) = a .. a + n - 1
  BY DEF ChunkOf
<1>3. a \in Int /\ n \in Nat
  BY <1>1
<1> HIDE DEF a, n
<1>4. IsFiniteSet(a .. a + n - 1) /\ Cardinality(a .. a + n - 1) = n
  BY <1>3, RunSize
<1>5. a .. a + n - 1 = {} <=> n = 0
  BY <1>3, RunEmpty
<1> QED BY <1>1, <1>2, <1>4, <1>5 DEF a, n

-----------------------------------------------------------------------------
(* Sending.                                                                *)

\* Accounting looks at the subchannels and the counters of the items only.
LEMMA SameHead ==
  ASSUME NEW a, NEW b, NEW s \in Stream, Accounting(a, s), b.sub = a.sub,
         a.waiting[s] = <<>> =>
           b.waiting[s] = <<>> \/ (b.waiting[s][1].acked = 0 /\ b.waiting[s][1].pending = 0
                                    /\ b.waiting[s][1].total \in Nat),
         a.waiting[s] # <<>> =>
           /\ b.waiting[s] # <<>>
           /\ b.waiting[s][1].acked = a.waiting[s][1].acked
           /\ b.waiting[s][1].pending = a.waiting[s][1].pending
           /\ a.waiting[s][1].acked + a.waiting[s][1].pending <= b.waiting[s][1].total,
         \A n \in DOMAIN b.waiting[s] \ {1} :
           b.waiting[s][n].acked = 0 /\ b.waiting[s][n].pending = 0
  PROVE  Accounting(b, s)
<1>1. Carrying(b, s) = Carrying(a, s) /\ InFlight(b, s) = InFlight(a, s)
  BY DEF Carrying, InFlight
<1>2. CASE a.waiting[s] = <<>>
  <2>1. Carrying(a, s) = {} /\ InFlight(a, s) = {}
    BY <1>2 DEF Accounting, InFlight
  <2>2. CASE b.waiting[s] = <<>>
    BY <1>1, <2>1, <2>2 DEF Accounting
  <2>3. CASE b.waiting[s] # <<>>
    BY <1>1, <1>2, <2>1, <2>3, FS_EmptySet DEF Accounting
  <2> QED BY <2>2, <2>3
<1>3. CASE a.waiting[s] # <<>>
  BY <1>1, <1>3 DEF Accounting
<1> QED BY <1>2, <1>3

LEMMA WaitingUpdate ==
  ASSUME NEW ch \in ChannelRecord, NEW w \in [Stream -> Seq(ItemType)],
         NEW n \in Nat, NEW t \in Seq(Msg)
  PROVE  [ch EXCEPT !.stream = t, !.streamSize = n, !.waiting = w] \in ChannelRecord
BY DEF ChannelRecord

\* Replacing the items of a list keeps it a list of items.
LEMMA ListUpdate ==
  ASSUME NEW list \in Seq(ItemType), NEW n \in 1 .. Len(list), NEW item \in ItemType
  PROVE  /\ [list EXCEPT ![n] = item] \in Seq(ItemType)
         /\ [list EXCEPT ![n] = item] # <<>>
         /\ [list EXCEPT ![n] = item][n] = item
         /\ DOMAIN [list EXCEPT ![n] = item] = DOMAIN list
         /\ \A m \in DOMAIN list \ {n} : [list EXCEPT ![n] = item][m] = list[m]
BY ExceptSeq

LEMMA ListAppend ==
  ASSUME NEW list \in Seq(ItemType), NEW item \in ItemType
  PROVE  /\ Append(list, item) \in Seq(ItemType)
         /\ Append(list, item) # <<>>
         /\ DOMAIN Append(list, item) = DOMAIN list \cup {Len(list) + 1}
         /\ \A m \in DOMAIN list : Append(list, item)[m] = list[m]
         /\ Append(list, item)[Len(list) + 1] = item
BY AppendProperties

LEMMA ListHead ==
  ASSUME NEW list \in Seq(ItemType), list # <<>>
  PROVE  1 \in 1 .. Len(list) /\ 1 \in DOMAIN list /\ list[1] \in ItemType
BY EmptySeq

\* The items CreateFragmentsFromBuffer makes of the reliable buffer.
LEMMA CreateSound ==
  ASSUME NEW ch, Sound(ch)
  PROVE  Sound(CreateFragmentsFromBuffer(ch)) /\ SameEnds(CreateFragmentsFromBuffer(ch), ch)
<1> DEFINE d == CreateFragmentsFromBuffer(ch)
<1>0. ch \in ChannelType /\ ch \in ChannelRecord
  BY DEF Sound, ChannelType
<1>1. CASE ch.stream = <<>>
  BY <1>1 DEF CreateFragmentsFromBuffer, SameEnds
<1>2. CASE ch.stream # <<>>
  <2> DEFINE list == ch.waiting[0]
             last == list[Len(list)]
             append == Len(list) > 1 /\ last.total + ch.streamSize < MaxPayload
             merged == Item(last.payload \o ch.stream, last.total + ch.streamSize, FALSE)
             fresh  == Item(ch.stream, ch.streamSize, FALSE)
             w0 == IF append THEN [list EXCEPT ![Len(list)] = merged] ELSE Append(list, fresh)
             w == [ch.waiting EXCEPT ![0] = w0]
  <2>1. list \in Seq(ItemType) /\ ch.stream \in Seq(Msg) /\ ch.streamSize \in Nat \ {0}
    BY <1>0, <1>2, Fields, Streams
  <2>2. fresh \in ItemType /\ fresh.acked = 0 /\ fresh.pending = 0
    BY <2>1, ItemTyped DEF Item
  <2>3. ASSUME append PROVE merged \in ItemType /\ merged.acked = 0 /\ merged.pending = 0
    <3>1. Len(list) \in 1 .. Len(list)
      BY <2>1, <2>3
    <3>2. last \in ItemType
      BY <2>1, <3>1
    <3>3. last.payload \o ch.stream \in Seq(Msg) /\ last.total + ch.streamSize \in Nat \ {0}
      <4> HIDE DEF last
      <4>1. last.payload \in Seq(Msg) /\ last.total \in Nat \ {0}
        BY <3>2 DEF ItemType
      <4>2. last.total + ch.streamSize \in Nat \ {0}
        BY <2>1, <4>1
      <4>3. last.payload \o ch.stream \in Seq(Msg)
        BY <2>1, <4>1
      <4> QED BY <4>2, <4>3
    <3> QED BY <3>3, ItemTyped DEF Item
  <2> HIDE DEF merged, fresh
  <2>4. /\ w0 \in Seq(ItemType) /\ w0 # <<>>
        /\ list = <<>> => w0[1].acked = 0 /\ w0[1].pending = 0 /\ w0[1].total \in Nat
        /\ list # <<>> => w0[1] = list[1]
        /\ \A n \in DOMAIN w0 \ {1} : \/ n \in DOMAIN list /\ w0[n] = list[n]
                                      \/ w0[n].acked = 0 /\ w0[n].pending = 0
    <3>1. CASE append
      <4>1. Len(list) \in 1 .. Len(list) /\ Len(list) # 1 /\ list # <<>> /\ 1 \in DOMAIN list
        BY <2>1, <3>1
      <4>2. merged \in ItemType /\ merged.acked = 0 /\ merged.pending = 0
        BY <2>3, <3>1
      <4>3. w0 = [list EXCEPT ![Len(list)] = merged]
        BY <3>1
      <4> HIDE DEF w0, append, list
      <4> QED BY <2>1, <4>1, <4>2, <4>3, ListUpdate
    <3>2. CASE ~append
      <4>1. w0 = Append(list, fresh)
        BY <3>2
      <4>2. fresh.total \in Nat
        BY <2>2 DEF ItemType
      <4>3. list = <<>> => Len(list) + 1 = 1
        OBVIOUS
      <4>4. list # <<>> => 1 \in DOMAIN list
        BY <2>1, ListHead
      <4> HIDE DEF w0, append, list
      <4> QED BY <2>1, <2>2, <4>1, <4>2, <4>3, <4>4, ListAppend
    <3> QED BY <3>1, <3>2
  <2>5. w \in [Stream -> Seq(ItemType)] /\ w[0] = w0 /\ w[1] = ch.waiting[1]
    <3> HIDE DEF w0
    <3> QED BY <1>0, <2>4, Fields, Streams
  <2>6. d = [ch EXCEPT !.stream = <<>>, !.streamSize = 0, !.waiting = w]
    BY <1>0, <1>2 DEF CreateFragmentsFromBuffer, merged, fresh, ChannelRecord
  <2> HIDE DEF w, d, w0, list
  <2>7. d \in ChannelRecord
    <3>1. <<>> \in Seq(Msg) /\ 0 \in Nat
      BY EmptySeq
    <3> QED BY <1>0, <2>5, <2>6, <3>1, WaitingUpdate
  <2>8. /\ d.stream = <<>> /\ d.sub = ch.sub /\ d.waiting = w /\ d.outSeq = ch.outSeq
        /\ d.inSeq = ch.inSeq /\ d.outRel = ch.outRel /\ d.inRel = ch.inRel
    BY <1>0, <2>6 DEF ChannelRecord
  <2>9. d \in ChannelType
    BY <2>7, <2>8 DEF ChannelType
  <2>10. Accounting(ch, 0) /\ Accounting(ch, 1)
    BY Streams DEF Sound
  <2>11. Accounting(d, 0)
    <3>1. \A n \in DOMAIN w0 \ {1} : w0[n].acked = 0 /\ w0[n].pending = 0
      BY <2>4, <2>10 DEF Accounting, list
    <3>2. list # <<>> => list[1].acked + list[1].pending <= list[1].total
      BY <2>10 DEF Accounting, list
    <3> QED BY <2>4, <2>5, <2>8, <2>10, <3>1, <3>2, Streams, SameHead DEF list
  <2>12. Accounting(d, 1)
    <3>1. d.waiting[1] = ch.waiting[1]
      BY <2>5, <2>8
    <3>2. ch.waiting[1] # <<>> => ch.waiting[1][1].acked + ch.waiting[1][1].pending <= ch.waiting[1][1].total
      BY <2>10 DEF Accounting
    <3>3. \A n \in DOMAIN ch.waiting[1] \ {1} :
            ch.waiting[1][n].acked = 0 /\ ch.waiting[1][n].pending = 0
      BY <2>10 DEF Accounting
    <3> QED BY <2>8, <2>10, <3>1, <3>2, <3>3, Streams, SameHead
  <2> QED BY <2>8, <2>9, <2>11, <2>12, Streams DEF Sound, SameEnds, d
<1> QED BY <1>1, <1>2

\* An item that may be compressed has a smaller size afterwards.
LEMMA CompressedHeadsSound ==
  ASSUME NEW list \in Seq(ItemType), NEW w \in CompressedHeads(list)
  PROVE  /\ w \in Seq(ItemType) /\ DOMAIN w = DOMAIN list
         /\ list = <<>> => w = <<>>
         /\ list # <<>> => /\ w # <<>>
                           /\ w[1].acked = list[1].acked /\ w[1].pending = list[1].pending
                           /\ w[1].total = list[1].total \/ list[1].acked + list[1].pending <= w[1].total
         /\ \A n \in DOMAIN w \ {1} : w[n] = list[n]
<1>1. CASE w = list
  BY <1>1
<1>2. CASE w # list
  <2>1. Compressible(list)
    BY <1>2 DEF CompressedHeads
  <2>2. list # <<>> /\ list[1].acked = 0 /\ list[1].pending = 0
    BY <2>1 DEF Compressible
  <2>3. 1 \in 1 .. Len(list) /\ 1 \in DOMAIN list /\ list[1] \in ItemType
    BY <2>2, ListHead
  <2>4. PICK n \in 1 .. list[1].total - 1 :
          w = [list EXCEPT ![1].total = n, ![1].compressed = TRUE]
    BY <1>2, <2>1 DEF CompressedHeads
  <2> DEFINE item == [list[1] EXCEPT !.total = n, !.compressed = TRUE]
  <2>5. n \in Nat \ {0}
    BY <2>3 DEF ItemType
  <2>6. item \in ItemType /\ item.acked = 0 /\ item.pending = 0 /\ item.total = n
    BY <2>2, <2>3, <2>5 DEF ItemType
  <2>7. w = [list EXCEPT ![1] = item]
    BY <2>3, <2>4 DEF ItemType
  <2> HIDE DEF item
  <2> QED BY <2>2, <2>3, <2>5, <2>6, <2>7, ListUpdate
<1> QED BY <1>1, <1>2

LEMMA CompressSound ==
  ASSUME NEW ch, Sound(ch), NEW d \in CompressFragments(ch)
  PROVE  Sound(d) /\ SameEnds(d, ch)
<1>0. ch \in ChannelType /\ ch \in ChannelRecord
  BY DEF Sound, ChannelType
<1>1. PICK w0 \in CompressedHeads(ch.waiting[0]), w1 \in CompressedHeads(ch.waiting[1]) :
        d = [ch EXCEPT !.waiting = [s \in Stream |-> IF s = 0 THEN w0 ELSE w1]]
  BY DEF CompressFragments
<1> DEFINE w == [s \in Stream |-> IF s = 0 THEN w0 ELSE w1]
<1>2. \A s \in Stream : ch.waiting[s] \in Seq(ItemType) /\ w[s] \in CompressedHeads(ch.waiting[s])
  BY <1>0, Fields DEF Stream
<1>3. w \in [Stream -> Seq(ItemType)]
  BY <1>2, CompressedHeadsSound
<1>4. d = [ch EXCEPT !.waiting = w]
  BY <1>1
<1> HIDE DEF w
<1>5. d \in ChannelRecord /\ d.waiting = w /\ d.stream = ch.stream /\ d.streamSize = ch.streamSize
  BY <1>0, <1>3, <1>4 DEF ChannelRecord
<1>6. SameEnds(d, ch)
  BY <1>0, <1>4 DEF ChannelRecord, SameEnds
<1>7. ASSUME NEW s \in Stream PROVE Accounting(d, s)
  <2>1. Accounting(ch, s)
    BY DEF Sound
  <2>2. ch.waiting[s] # <<>> => ch.waiting[s][1].acked + ch.waiting[s][1].pending <= ch.waiting[s][1].total
    BY <2>1 DEF Accounting
  <2>3. \A n \in DOMAIN ch.waiting[s] \ {1} : ch.waiting[s][n].acked = 0 /\ ch.waiting[s][n].pending = 0
    BY <2>1 DEF Accounting
  <2>4. d.waiting[s] = w[s] /\ d.sub = ch.sub
    BY <1>5, <1>6 DEF SameEnds
  <2> DEFINE v == w[s]
             list == ch.waiting[s]
  <2>5. /\ DOMAIN v = DOMAIN list
        /\ list = <<>> => v = <<>>
        /\ list # <<>> => /\ v # <<>>
                          /\ v[1].acked = list[1].acked /\ v[1].pending = list[1].pending
                          /\ v[1].total = list[1].total \/ list[1].acked + list[1].pending <= v[1].total
        /\ \A n \in DOMAIN v \ {1} : v[n] = list[n]
    BY <1>2, CompressedHeadsSound
  <2> HIDE DEF v
  <2> QED BY <2>1, <2>2, <2>3, <2>4, <2>5, SameHead DEF v
<1>8. d \in ChannelType
  BY <1>0, <1>5, Fields DEF ChannelType
<1> QED BY <1>6, <1>7, <1>8 DEF Sound

\* The fragments taken exist, are not out yet, and fit into one packet.
LEMMA UnsentTyped ==
  ASSUME NEW ch, Sound(ch), NEW s \in Stream
  PROVE  Unsent(ch, s) \in Nat
<1> DEFINE head == ch.waiting[s][1]
<1>1. CASE ch.waiting[s] = <<>>
  BY <1>1 DEF Unsent
<1>2. CASE ch.waiting[s] # <<>>
  <2>1. head \in ItemType
    BY <1>2, Fields, ListHead DEF Sound
  <2>2. head.acked + head.pending <= head.total
    BY <1>2 DEF Sound, Accounting
  <2>3. head.acked \in Nat /\ head.pending \in Nat /\ head.total \in Nat
    BY <2>1 DEF ItemType
  <2>4. Unsent(ch, s) = head.total - (head.acked + head.pending)
    BY <1>2 DEF Unsent
  <2> HIDE DEF head
  <2> QED BY <2>2, <2>3, <2>4
<1> QED BY <1>1, <1>2

LEMMA TakeBounds ==
  ASSUME NEW ch, Sound(ch), NEW s \in Stream, NEW n \in Nat
  PROVE  Take(ch, s, n) \in 0 .. n /\ Take(ch, s, n) <= Unsent(ch, s)
BY UnsentTyped, SMT DEF Take, Lesser

LEMMA TakesBounds ==
  ASSUME NEW ch, Sound(ch)
  PROVE  /\ Takes(ch) \in [Stream -> FragmentCount]
         /\ \A s \in Stream : Takes(ch)[s] <= Unsent(ch, s)
<1> DEFINE n0 == Take(ch, 0, MaxFragments)
<1>0. MaxFragments \in Nat
  BY FragmentAssumption
<1>1. n0 \in 0 .. MaxFragments /\ n0 <= Unsent(ch, 0)
  BY <1>0, TakeBounds, Streams
<1>2. MaxFragments - n0 \in Nat /\ MaxFragments - n0 <= MaxFragments
  BY <1>0, <1>1
<1>3. Take(ch, 1, MaxFragments - n0) \in 0 .. (MaxFragments - n0)
        /\ Take(ch, 1, MaxFragments - n0) <= Unsent(ch, 1)
  BY <1>2, TakeBounds, Streams
<1>4. Takes(ch) = [s \in Stream |-> IF s = 0 THEN n0 ELSE Take(ch, 1, MaxFragments - n0)]
  BY DEF Takes
<1> DEFINE n1 == Take(ch, 1, MaxFragments - n0)
<1>5. n1 \in 0 .. MaxFragments
  BY <1>0, <1>2, <1>3
<1>6. Takes(ch)[0] = n0 /\ Takes(ch)[1] = n1
  BY <1>4, Streams
<1>7. Takes(ch) \in [Stream -> FragmentCount]
  <2> HIDE DEF n0, n1
  <2> QED BY <1>1, <1>4, <1>5 DEF FragmentCount, n1
<1> QED BY <1>1, <1>3, <1>6, <1>7, Streams

LEMMA StartsTyped ==
  ASSUME NEW ch, Sound(ch)
  PROVE  /\ Starts(ch) \in [Stream -> Nat \cup {-1}]
         /\ \A s \in Stream : Takes(ch)[s] # 0 =>
              /\ ch.waiting[s] # <<>> /\ ch.waiting[s][1] \in ItemType
              /\ Starts(ch)[s] = ch.waiting[s][1].acked + ch.waiting[s][1].pending
              /\ Starts(ch)[s] \in Nat
<1>1. ASSUME NEW s \in Stream, Takes(ch)[s] # 0
      PROVE  /\ ch.waiting[s] # <<>> /\ ch.waiting[s][1] \in ItemType
             /\ Starts(ch)[s] = ch.waiting[s][1].acked + ch.waiting[s][1].pending
             /\ Starts(ch)[s] \in Nat
  <2>1. ch.waiting[s] # <<>>
    <3>1. Takes(ch)[s] <= Unsent(ch, s) /\ Takes(ch)[s] \in 0 .. MaxFragments
      BY TakesBounds DEF FragmentCount
    <3>2. Unsent(ch, s) # 0
      BY <1>1, <3>1, FragmentAssumption, UnsentTyped
    <3> QED BY <3>2 DEF Unsent
  <2>2. ch.waiting[s][1] \in ItemType
    BY <2>1, Fields, ListHead DEF Sound
  <2>3. Starts(ch)[s] = ch.waiting[s][1].acked + ch.waiting[s][1].pending
    BY <1>1 DEF Starts
  <2>4. ch.waiting[s][1].acked \in Nat /\ ch.waiting[s][1].pending \in Nat
    BY <2>2 DEF ItemType
  <2> QED BY <2>1, <2>2, <2>3, <2>4
<1>2. Starts(ch) \in [Stream -> Nat \cup {-1}]
  <2>1. \A s \in Stream : Starts(ch)[s] \in Nat \cup {-1}
    BY <1>1 DEF Starts
  <2> QED BY <2>1 DEF Starts
<1> QED BY <1>1, <1>2


\* Of all subchannels, only i differs: it was free and is now to be sent.
SubTaken(a, b, i) ==
  /\ a.sub \in [Subchannels -> SubchannelType] /\ b.sub \in [Subchannels -> SubchannelType]
  /\ a.sub[i].state = "FREE" /\ b.sub[i].state = "TOSEND"
  /\ \A j \in Subchannels \ {i} : b.sub[j] = a.sub[j]

\* Fragments in flight, after subchannel i has taken a run of them.
LEMMA InFlightAfterTake ==
  ASSUME NEW a, NEW b, NEW s \in Stream, NEW i \in Subchannels, SubTaken(a, b, i)
  PROVE  /\ i \notin Carrying(a, s)
         /\ \A j \in Carrying(a, s) : b.sub[j] = a.sub[j]
         /\ b.sub[i].num[s] = 0 => Carrying(b, s) = Carrying(a, s) /\ InFlight(b, s) = InFlight(a, s)
         /\ b.sub[i].num[s] # 0 => /\ Carrying(b, s) = Carrying(a, s) \cup {i}
                                   /\ InFlight(b, s) = InFlight(a, s) \cup ChunkOf(b.sub[i], s)
<1>1. i \notin Carrying(a, s)
  BY DEF Carrying, SubTaken
<1>2. \A j \in Carrying(a, s) : b.sub[j] = a.sub[j]
  BY <1>1 DEF Carrying, SubTaken
<1>3. b.sub[i].num[s] \in Nat
  BY ChunkFinite DEF SubTaken
<1>4. ASSUME b.sub[i].num[s] = 0
      PROVE  Carrying(b, s) = Carrying(a, s) /\ InFlight(b, s) = InFlight(a, s)
  <2>1. Carrying(b, s) = Carrying(a, s)
    BY <1>1, <1>4 DEF Carrying, SubTaken
  <2> QED BY <1>2, <2>1 DEF InFlight
<1>5. ASSUME b.sub[i].num[s] # 0
      PROVE  /\ Carrying(b, s) = Carrying(a, s) \cup {i}
             /\ InFlight(b, s) = InFlight(a, s) \cup ChunkOf(b.sub[i], s)
  <2>1. Carrying(b, s) = Carrying(a, s) \cup {i}
    BY <1>1, <1>3, <1>5 DEF Carrying, SubTaken
  <2> QED BY <1>2, <2>1 DEF InFlight
<1> QED BY <1>1, <1>2, <1>4, <1>5

LEMMA InFlightFinite ==
  ASSUME NEW ch, Sound(ch), NEW s \in Stream
  PROVE  IsFiniteSet(InFlight(ch, s))
<1>1. CASE ch.waiting[s] = <<>>
  <2>1. InFlight(ch, s) = {}
    BY <1>1 DEF Sound, Accounting, InFlight
  <2> QED BY <2>1, FS_EmptySet
<1>2. CASE ch.waiting[s] # <<>>
  <2> DEFINE head == ch.waiting[s][1]
  <2>1. head \in ItemType
    BY <1>2, Fields, ListHead DEF Sound
  <2>2. head.acked \in Nat /\ head.pending \in Nat
    BY <2>1 DEF ItemType
  <2>3. InFlight(ch, s) \subseteq 0 .. head.acked + head.pending - 1
    BY <1>2 DEF Sound, Accounting
  <2> DEFINE last == head.acked + head.pending - 1
  <2> HIDE DEF head
  <2>4. last \in Int /\ 0 \in Int
    BY <2>2
  <2> HIDE DEF last
  <2>5. IsFiniteSet(0 .. last)
    BY <2>4, FS_Interval
  <2>6. InFlight(ch, s) \subseteq 0 .. last
    BY <2>3 DEF last
  <2> QED BY <2>5, <2>6, FS_Subset
<1> QED BY <1>1, <1>2

\* Counting a run that starts after all the others.
LEMMA RunAdded ==
  ASSUME NEW S, IsFiniteSet(S), NEW a \in Nat, NEW n \in Nat, S \subseteq 0 .. a - 1
  PROVE  /\ S \cap (a .. a + n - 1) = {}
         /\ Cardinality(S \cup (a .. a + n - 1)) = Cardinality(S) + n
         /\ S \cup (a .. a + n - 1) \subseteq 0 .. a + n - 1
<1>1. S \cap (a .. a + n - 1) = {}
  OBVIOUS
<1>2. IsFiniteSet(a .. a + n - 1) /\ Cardinality(a .. a + n - 1) = n
  BY RunSize
<1>3. Cardinality(S \cup (a .. a + n - 1)) = Cardinality(S) + n
  <2>1. Cardinality(S \cup (a .. a + n - 1)) =
          Cardinality(S) + Cardinality(a .. a + n - 1) - Cardinality(S \cap (a .. a + n - 1))
    BY <1>2, FS_Union
  <2>2. Cardinality(S) \in Nat
    BY FS_CardinalityType
  <2>3. Cardinality(S \cap (a .. a + n - 1)) = 0
    BY <1>1, FS_EmptySet
  <2> DEFINE T == a .. a + n - 1
             c == Cardinality(S)
  <2>4. Cardinality(T) = n /\ Cardinality(S \cap T) = 0 /\ c \in Nat
          /\ Cardinality(S \cup T) = c + Cardinality(T) - Cardinality(S \cap T)
    BY <1>2, <2>1, <2>2, <2>3
  <2> HIDE DEF T, c
  <2>5. Cardinality(S \cup T) = c + n
    BY <2>4
  <2> QED BY <2>5 DEF T, c
<1> QED BY <1>1, <1>3

\* What UpdateSubChannels does to a channel: nothing, or subchannel i takes a
\* run of each stream and flips its bit.
TakesInto(ch, d, i) ==
  /\ ch.sub[i].state = "FREE"
  /\ d.sub[i] = [state |-> "TOSEND", seq |-> 0, start |-> Starts(ch), num |-> Takes(ch)]
  /\ \A j \in Subchannels \ {i} : d.sub[j] = ch.sub[j]
  /\ d.outRel = FlipBit(ch.outRel, i)
  /\ d.outSeq = ch.outSeq /\ d.inSeq = ch.inSeq /\ d.inRel = ch.inRel

LEMMA UpdateTyped ==
  ASSUME NEW ch, Sound(ch), UpdateSubChannels(ch) # ch
  PROVE  /\ UpdateSubChannels(ch) \in ChannelType
         /\ \E i \in Subchannels : TakesInto(ch, UpdateSubChannels(ch), i)
         /\ \A s \in Stream : UpdateSubChannels(ch).waiting[s] =
              IF Takes(ch)[s] = 0 THEN ch.waiting[s]
              ELSE [ch.waiting[s] EXCEPT ![1].pending = @ + Takes(ch)[s]]
<1> DEFINE d == UpdateSubChannels(ch)
           free == {i \in Subchannels : ch.sub[i].state = "FREE"}
           i == MinOf(free)
           new == [state |-> "TOSEND", seq |-> 0, start |-> Starts(ch), num |-> Takes(ch)]
           w == TakenLists(ch)
           sub == [ch.sub EXCEPT ![i] = new]
<1>0. ch \in ChannelType /\ ch \in ChannelRecord
  BY DEF Sound, ChannelType
<1>1. free # {} /\ ~ \A s \in Stream : Takes(ch)[s] = 0
  BY DEF UpdateSubChannels
<1>2. i \in free
  BY <1>1, FirstSubchannel
<1>3. i \in Subchannels /\ ch.sub[i].state = "FREE"
  BY <1>2
<1>4. d = [ch EXCEPT !.sub = sub, !.outRel = FlipBit(@, i), !.waiting = w]
  BY <1>1, Zenon DEF UpdateSubChannels
<1> HIDE DEF i, d, free
<1> USE DEF TakenLists
<1>5. new \in SubchannelType
  BY TakesBounds, StartsTyped DEF SubchannelType
<1>6. w \in [Stream -> Seq(ItemType)]
  <2>1. ASSUME NEW s \in Stream PROVE w[s] \in Seq(ItemType)
    <3>1. ch.waiting[s] \in Seq(ItemType)
      BY <1>0, Fields
    <3>2. CASE Takes(ch)[s] = 0
      BY <3>1, <3>2
    <3>3. CASE Takes(ch)[s] # 0
      <4> DEFINE list == ch.waiting[s]
                 item == [list[1] EXCEPT !.pending = @ + Takes(ch)[s]]
      <4>1. list # <<>> /\ list[1] \in ItemType
        BY <3>3, StartsTyped
      <4>2. Takes(ch)[s] \in Nat
        BY TakesBounds, FragmentAssumption DEF FragmentCount
      <4>3. item \in ItemType
        BY <4>1, <4>2 DEF ItemType
      <4>4. 1 \in 1 .. Len(list) /\ 1 \in DOMAIN list
        BY <3>1, <4>1, ListHead
      <4>5. w[s] = [list EXCEPT ![1] = item]
        BY <3>3, <4>4
      <4> HIDE DEF item, list, w
      <4> QED BY <3>1, <4>3, <4>4, <4>5, ListUpdate DEF list
    <3> QED BY <3>2, <3>3
  <2> QED BY <2>1
<1> HIDE DEF new, w
<1>7. sub \in [Subchannels -> SubchannelType] /\ sub[i] = new
        /\ \A j \in Subchannels \ {i} : sub[j] = ch.sub[j]
  BY <1>0, <1>3, <1>5, Fields
<1> HIDE DEF sub
<1>8. FlipBit(ch.outRel, i) \in SUBSET Subchannels
  BY <1>0, <1>3, Fields, FlipBitType
<1>9. d \in ChannelRecord
  BY <1>0, <1>4, <1>6, <1>7, <1>8 DEF ChannelRecord
<1>10. /\ d.stream = ch.stream /\ d.streamSize = ch.streamSize /\ d.waiting = w /\ d.sub = sub
       /\ d.outRel = FlipBit(ch.outRel, i)
       /\ d.outSeq = ch.outSeq /\ d.inSeq = ch.inSeq /\ d.inRel = ch.inRel
  BY <1>0, <1>4 DEF ChannelRecord
<1>11. d \in ChannelType
  BY <1>0, <1>9, <1>10, Fields DEF ChannelType
<1>12. TakesInto(ch, d, i)
  BY <1>3, <1>7, <1>10 DEF TakesInto, new
<1> QED BY <1>3, <1>10, <1>11, <1>12 DEF d, w

\* Subchannel i takes a run of n fragments of stream s.
RunTaken(c, d, s, i, n) ==
  /\ SubTaken(c, d, i) /\ d.sub[i].num[s] = n
  /\ c.waiting[s] \in Seq(ItemType)
  /\ n = 0 => d.waiting[s] = c.waiting[s]
  /\ n # 0 => /\ c.waiting[s] # <<>>
              /\ d.waiting[s] = [c.waiting[s] EXCEPT ![1].pending = @ + n]
              /\ d.sub[i].start[s] = c.waiting[s][1].acked + c.waiting[s][1].pending
              /\ c.waiting[s][1].acked + c.waiting[s][1].pending + n <= c.waiting[s][1].total

\* That keeps the counters right.
LEMMA TakeAccounting ==
  ASSUME NEW c, NEW d, NEW s \in Stream, NEW i \in Subchannels, NEW n \in Nat,
         RunTaken(c, d, s, i, n), Accounting(c, s), IsFiniteSet(InFlight(c, s))
  PROVE  Accounting(d, s)
<1>0. /\ SubTaken(c, d, i) /\ d.sub[i].num[s] = n
      /\ c.waiting[s] \in Seq(ItemType)
      /\ n = 0 => d.waiting[s] = c.waiting[s]
      /\ n # 0 => /\ c.waiting[s] # <<>>
                  /\ d.waiting[s] = [c.waiting[s] EXCEPT ![1].pending = @ + n]
                  /\ d.sub[i].start[s] = c.waiting[s][1].acked + c.waiting[s][1].pending
                  /\ c.waiting[s][1].acked + c.waiting[s][1].pending + n <= c.waiting[s][1].total
  BY DEF RunTaken
<1> DEFINE list == c.waiting[s]
           head == list[1]
           w    == d.waiting[s]
           S    == InFlight(c, s)
           T    == InFlight(d, s)
<1>1. /\ i \notin Carrying(c, s)
      /\ \A j \in Carrying(c, s) : d.sub[j] = c.sub[j]
      /\ n = 0 => Carrying(d, s) = Carrying(c, s) /\ T = S
      /\ n # 0 => Carrying(d, s) = Carrying(c, s) \cup {i} /\ T = S \cup ChunkOf(d.sub[i], s)
  BY <1>0, InFlightAfterTake
<1>2. /\ \A j, k \in Carrying(c, s) : j # k => ChunkOf(c.sub[j], s) \cap ChunkOf(c.sub[k], s) = {}
      /\ list = <<>> => Carrying(c, s) = {}
      /\ list # <<>> => /\ head.pending = Cardinality(S) /\ head.acked + head.pending <= head.total
                        /\ S \subseteq 0 .. head.acked + head.pending - 1
      /\ \A m \in DOMAIN list \ {1} : list[m].acked = 0 /\ list[m].pending = 0
  BY DEF Accounting
<1>3. \A j, k \in Carrying(c, s) : j # k => ChunkOf(d.sub[j], s) \cap ChunkOf(d.sub[k], s) = {}
  BY <1>1, <1>2
<1>4. CASE n = 0
  BY <1>0, <1>1, <1>2, <1>3, <1>4 DEF Accounting
<1>5. CASE n # 0
  <2>1. list \in Seq(ItemType) /\ list # <<>>
    BY <1>0, <1>5
  <2>2. head \in ItemType /\ 1 \in DOMAIN list /\ 1 \in 1 .. Len(list)
    BY <2>1, ListHead
  <2> DEFINE a    == head.acked + head.pending
             item == [head EXCEPT !.pending = @ + n]
  <2>3. head.acked \in Nat /\ head.pending \in Nat /\ head.total \in Nat /\ a \in Nat
    <3>1. head.acked \in Nat /\ head.pending \in Nat /\ head.total \in Nat
      BY <2>2 DEF ItemType
    <3> HIDE DEF head
    <3> QED BY <3>1
  <2>4. /\ item \in ItemType /\ item.acked = head.acked
        /\ item.pending = head.pending + n /\ item.total = head.total
    <3>1. head.pending + n \in Nat
      BY <2>3
    <3> QED BY <2>2, <3>1 DEF ItemType
  <2>5. w = [list EXCEPT ![1] = item]
    BY <1>0, <1>5, <2>2
  <2>6. /\ ChunkOf(d.sub[i], s) = a .. a + n - 1
        /\ S \subseteq 0 .. a - 1 /\ a + n <= head.total /\ head.pending = Cardinality(S)
    <3>1. d.sub[i].start[s] = a /\ d.sub[i].num[s] = n /\ a + n <= head.total
      BY <1>0, <1>5
    <3>2. head.acked + head.pending - 1 = a - 1
      <4> HIDE DEF head
      <4> QED BY <2>3
    <3>3. /\ S \subseteq 0 .. head.acked + head.pending - 1
          /\ head.pending = Cardinality(S)
      BY <1>2, <2>1, Zenon
    <3> HIDE DEF a, head, list, S
    <3>4. ChunkOf(d.sub[i], s) = a .. a + n - 1
      BY <3>1 DEF ChunkOf
    <3> QED BY <3>1, <3>2, <3>3, <3>4
  <2>7. IsFiniteSet(S)
    OBVIOUS
  <2>8. ASSUME NEW j \in Carrying(c, s) PROVE ChunkOf(d.sub[j], s) \subseteq S
    BY <1>1 DEF InFlight
  <2> HIDE DEF list, w, item, a, head, S, T
  <2>9. w # <<>> /\ w[1] = item /\ DOMAIN w = DOMAIN list /\ \A m \in DOMAIN list \ {1} : w[m] = list[m]
    BY <2>1, <2>2, <2>4, <2>5, ListUpdate
  <2>10. /\ S \cap (a .. a + n - 1) = {} /\ Cardinality(T) = Cardinality(S) + n
         /\ T \subseteq 0 .. a + n - 1
    <3>1. T = S \cup (a .. a + n - 1)
      BY <1>1, <1>5, <2>6
    <3>2. /\ S \cap (a .. a + n - 1) = {}
          /\ Cardinality(S \cup (a .. a + n - 1)) = Cardinality(S) + n
          /\ S \cup (a .. a + n - 1) \subseteq 0 .. a + n - 1
      BY <2>3, <2>6, <2>7, RunAdded, Zenon
    <3> QED BY <3>1, <3>2, Zenon
  <2>11. \A j, k \in Carrying(d, s) : j # k => ChunkOf(d.sub[j], s) \cap ChunkOf(d.sub[k], s) = {}
    <3>1. \A j \in Carrying(c, s) : ChunkOf(d.sub[j], s) \cap ChunkOf(d.sub[i], s) = {}
      BY <2>6, <2>8, <2>10
    <3>2. Carrying(d, s) = Carrying(c, s) \cup {i}
      BY <1>1, <1>5
    <3> QED BY <1>3, <3>1, <3>2
  <2>12. w[1].acked + w[1].pending = a + n
    BY <2>3, <2>4, <2>9 DEF a
  <2>13. w[1].pending = Cardinality(T) /\ w[1].acked + w[1].pending <= w[1].total
    BY <2>4, <2>6, <2>9, <2>10, <2>12
  <2>14. \A m \in DOMAIN w \ {1} : w[m].acked = 0 /\ w[m].pending = 0
    BY <1>2, <2>9
  <2>15. T \subseteq 0 .. w[1].acked + w[1].pending - 1
    <3>1. w[1].acked \in Nat /\ w[1].pending \in Nat
      BY <2>4, <2>9 DEF ItemType
    <3> DEFINE x == w[1].acked
               y == w[1].pending
    <3>2. x + y = a + n /\ x \in Nat /\ y \in Nat
      BY <2>12, <3>1
    <3> HIDE DEF x, y
    <3>3. x + y - 1 = a + n - 1
      BY <2>3, <3>2
    <3> USE DEF x, y
    <3> QED BY <2>10, <3>3
  <2> QED BY <2>9, <2>11, <2>13, <2>14, <2>15 DEF Accounting, w, T
<1> QED BY <1>4, <1>5

LEMMA UpdateSound ==
  ASSUME NEW ch, Sound(ch)
  PROVE  Sound(UpdateSubChannels(ch))
<1> DEFINE d == UpdateSubChannels(ch)
<1>1. CASE d = ch
  BY <1>1
<1>2. CASE d # ch
  <2>1. d \in ChannelType
    BY <1>2, UpdateTyped
  <2>2. PICK i \in Subchannels : TakesInto(ch, d, i)
    BY <1>2, UpdateTyped
  <2>3. \A s \in Stream : d.waiting[s] = IF Takes(ch)[s] = 0 THEN ch.waiting[s]
                            ELSE [ch.waiting[s] EXCEPT ![1].pending = @ + Takes(ch)[s]]
    BY <1>2, UpdateTyped
  <2> HIDE DEF d
  <2>4. ASSUME NEW s \in Stream PROVE Accounting(d, s)
    <3> DEFINE n == Takes(ch)[s]
    <3>1. /\ ch.sub \in [Subchannels -> SubchannelType] /\ d.sub \in [Subchannels -> SubchannelType]
          /\ ch.waiting[s] \in Seq(ItemType)
      BY <2>1, Fields DEF Sound
    <3>2. /\ ch.sub[i].state = "FREE" /\ d.sub[i].state = "TOSEND" /\ d.sub[i].num[s] = n
          /\ d.sub[i].start[s] = Starts(ch)[s] /\ \A j \in Subchannels \ {i} : d.sub[j] = ch.sub[j]
      BY <2>2 DEF TakesInto
    <3>3. Accounting(ch, s) /\ IsFiniteSet(InFlight(ch, s))
      BY InFlightFinite DEF Sound
    <3>4. n \in Nat /\ n <= Unsent(ch, s)
      BY TakesBounds, FragmentAssumption DEF FragmentCount
    <3>5. n = 0 => d.waiting[s] = ch.waiting[s]
      BY <2>3
    <3>6. ASSUME n # 0
          PROVE  /\ ch.waiting[s] # <<>>
                 /\ d.waiting[s] = [ch.waiting[s] EXCEPT ![1].pending = @ + n]
                 /\ d.sub[i].start[s] = ch.waiting[s][1].acked + ch.waiting[s][1].pending
                 /\ ch.waiting[s][1].acked + ch.waiting[s][1].pending + n <= ch.waiting[s][1].total
      <4> DEFINE head == ch.waiting[s][1]
      <4>1. /\ ch.waiting[s] # <<>> /\ head \in ItemType
            /\ Starts(ch)[s] = head.acked + head.pending
        BY <3>6, StartsTyped
      <4>2. head.acked \in Nat /\ head.pending \in Nat /\ head.total \in Nat
        BY <4>1 DEF ItemType
      <4>3. Unsent(ch, s) = head.total - (head.acked + head.pending)
        BY <4>1 DEF Unsent
      <4> HIDE DEF head, n
      <4>4. head.acked + head.pending + n <= head.total
        BY <3>4, <4>2, <4>3
      <4> QED BY <2>3, <3>2, <3>6, <4>1, <4>4 DEF head, n
    <3> HIDE DEF n
    <3>7. RunTaken(ch, d, s, i, n)
      BY <3>1, <3>2, <3>5, <3>6 DEF RunTaken, SubTaken
    <3> QED BY <3>3, <3>4, <3>7, TakeAccounting
  <2> QED BY <2>1, <2>4 DEF Sound, d
<1> QED BY <1>1, <1>2

\* The data of a subchannel to be sent belongs to the head item.
LEMMA ChunkTyped ==
  ASSUME NEW ch, Sound(ch), NEW i \in ToSend(ch), NEW s \in Stream
  PROVE  Chunk(ch, ch.sub[i], s) \in ChunkType
<1> DEFINE sub == ch.sub[i]
           head == ch.waiting[s][1]
<1>0. i \in Subchannels /\ sub \in SubchannelType /\ sub.state = "TOSEND"
  BY Fields DEF ToSend, Sound
<1>1. CASE sub.num[s] = 0
  BY <1>1 DEF Chunk, ChunkType
<1>2. CASE sub.num[s] # 0
  <2>1. sub.num[s] \in FragmentCount \ {0} /\ sub.num[s] \in Nat /\ sub.start[s] \in Nat \cup {-1}
    BY <1>0, <1>2, ChunkFinite DEF SubchannelType
  <2>2. i \in Carrying(ch, s)
    BY <1>0, <2>1 DEF Carrying
  <2>3. ch.waiting[s] # <<>>
    BY <2>2 DEF Sound, Accounting
  <2>4. head \in ItemType
    BY <2>3, Fields, ListHead DEF Sound
  <2>5. sub.start[s] \in Nat
    <3> DEFINE a == sub.start[s]
               n == sub.num[s]
    <3>1. ChunkOf(sub, s) \subseteq InFlight(ch, s)
      BY <2>2 DEF InFlight
    <3>2. InFlight(ch, s) \subseteq Nat
      BY <2>3 DEF Sound, Accounting
    <3>3. ChunkOf(sub, s) = a .. a + n - 1
      BY DEF ChunkOf
    <3>4. a \in Nat \cup {-1} /\ n \in Nat /\ n # 0
      BY <1>2, <2>1
    <3> HIDE DEF a, n
    <3>5. a \in a .. a + n - 1
      BY <3>4
    <3> QED BY <3>1, <3>2, <3>3, <3>5 DEF a
  <2>6. Chunk(ch, sub, s) = [start |-> sub.start[s], num |-> sub.num[s], total |-> head.total,
                             file |-> head.file, payload |-> head.payload]
    BY <1>2 DEF Chunk
  <2> HIDE DEF sub, head
  <2>7. head.total \in Nat \ {0} /\ head.file \in BOOLEAN /\ head.payload \in Seq(Msg)
    BY <2>4 DEF ItemType
  <2>8. Chunk(ch, sub, s) \in ChunkType
    BY <2>1, <2>5, <2>6, <2>7 DEF ChunkType
  <2> QED BY <2>8 DEF sub
<1> QED BY <1>1, <1>2

LEMMA DatagramTyped ==
  ASSUME NEW ch, Sound(ch), NEW p \in Peer
  PROVE  Datagram(p, ch) \in DatagramType
<1> DEFINE i == IF ToSend(ch) = {} THEN -1 ELSE MinOf(ToSend(ch))
           chunk == [s \in Stream |-> IF i = -1 THEN NoChunk ELSE Chunk(ch, ch.sub[i], s)]
<1>1. i \in Subchannels \cup {-1} /\ (i # -1 => i \in ToSend(ch))
  <2>1. ToSend(ch) \subseteq Subchannels
    BY DEF ToSend
  <2> QED BY <2>1, FirstSubchannel
<1> HIDE DEF i
<1>2. chunk \in [Stream -> ChunkType]
  <2>1. NoChunk \in ChunkType
    BY DEF ChunkType
  <2>2. \A s \in Stream : chunk[s] \in ChunkType
    BY <1>1, <2>1, ChunkTyped
  <2> QED BY <2>2
<1>3. Datagram(p, ch) = [from |-> p, seq |-> ch.outSeq, ack |-> ch.inSeq, rel |-> ch.inRel,
                         choked |-> ch.choked % 256, subch |-> i, chunk |-> chunk]
  BY DEF Datagram, i
<1> HIDE DEF chunk
<1>4. ch.outSeq \in Nat /\ ch.inSeq \in Nat /\ ch.inRel \in SUBSET Subchannels /\ ch.choked \in Nat
  BY Fields DEF Sound
<1>5. ch.choked % 256 \in Nat
  BY <1>4
<1> QED BY <1>1, <1>2, <1>3, <1>4, <1>5 DEF DatagramType

\* Changes of the subchannels that leave the set of those that carry data, and
\* what they carry, as it is.
LEMMA SameCarrying ==
  ASSUME NEW c, NEW d, NEW s \in Stream, Accounting(c, s),
         d.waiting[s] = c.waiting[s],
         Carrying(d, s) = Carrying(c, s),
         \A i \in Carrying(c, s) : ChunkOf(d.sub[i], s) = ChunkOf(c.sub[i], s)
  PROVE  Accounting(d, s)
<1>1. InFlight(d, s) = InFlight(c, s)
  BY DEF InFlight
<1> QED BY <1>1 DEF Accounting

LEMMA AfterSendSound ==
  ASSUME NEW ch, Sound(ch)
  PROVE  /\ Sound(AfterSend(ch))
         /\ AfterSend(ch).outSeq = ch.outSeq + 1 /\ AfterSend(ch).inSeq = ch.inSeq
         /\ AfterSend(ch).outRel = ch.outRel /\ AfterSend(ch).inRel = ch.inRel
         /\ ToSend(ch) = {} => AfterSend(ch).sub = ch.sub
         /\ ToSend(ch) # {} =>
              AfterSend(ch).sub = [ch.sub EXCEPT ![MinOf(ToSend(ch))].state = "WAITING",
                                                 ![MinOf(ToSend(ch))].seq = ch.outSeq]
<1> DEFINE d == AfterSend(ch)
           i == MinOf(ToSend(ch))
           sub == IF ToSend(ch) = {} THEN ch.sub
                  ELSE [ch.sub EXCEPT ![i].state = "WAITING", ![i].seq = ch.outSeq]
<1>0. ch \in ChannelType /\ ch \in ChannelRecord
  BY DEF Sound, ChannelType
<1>1. d = [ch EXCEPT !.choked = 0, !.outSeq = @ + 1, !.sub = sub]
  BY <1>0 DEF AfterSend, ChannelRecord
<1>2. ch.sub \in [Subchannels -> SubchannelType] /\ ch.outSeq \in Nat
  BY <1>0, Fields
<1>3. ToSend(ch) # {} => i \in Subchannels /\ ch.sub[i].state = "TOSEND"
  <2>1. ToSend(ch) \subseteq Subchannels
    BY DEF ToSend
  <2>2. ToSend(ch) # {} => i \in ToSend(ch)
    BY <2>1, FirstSubchannel
  <2> QED BY <2>2 DEF ToSend
<1> HIDE DEF i, d
<1>4. /\ sub \in [Subchannels -> SubchannelType]
      /\ \A j \in Subchannels : sub[j].start = ch.sub[j].start /\ sub[j].num = ch.sub[j].num
      /\ \A j \in Subchannels : sub[j].state = ch.sub[j].state
                                  \/ (ch.sub[j].state = "TOSEND" /\ sub[j].state = "WAITING")
  <2>1. CASE ToSend(ch) = {}
    BY <1>2, <2>1
  <2>2. CASE ToSend(ch) # {}
    <3>1. sub = [ch.sub EXCEPT ![i] = [ch.sub[i] EXCEPT !.state = "WAITING", !.seq = ch.outSeq]]
      BY <1>2, <1>3, <2>2
    <3> DEFINE new == [ch.sub[i] EXCEPT !.state = "WAITING", !.seq = ch.outSeq]
    <3>2. new \in SubchannelType /\ new.start = ch.sub[i].start /\ new.num = ch.sub[i].num
            /\ new.state = "WAITING"
      BY <1>2, <1>3, <2>2 DEF SubchannelType
    <3> HIDE DEF new, sub
    <3> QED BY <1>2, <1>3, <2>2, <3>1, <3>2 DEF new
  <2> QED BY <2>1, <2>2
<1> HIDE DEF sub
<1>5. d \in ChannelRecord
  <2> DEFINE next == ch.outSeq + 1
  <2>1. next \in Nat /\ 0 \in Nat
    BY <1>2
  <2>2. d = [ch EXCEPT !.choked = 0, !.outSeq = next, !.sub = sub]
    BY <1>1
  <2> HIDE DEF next
  <2> QED BY <1>0, <1>4, <2>1, <2>2 DEF ChannelRecord
<1>6. /\ d.stream = ch.stream /\ d.streamSize = ch.streamSize /\ d.waiting = ch.waiting
      /\ d.sub = sub /\ d.outSeq = ch.outSeq + 1 /\ d.inSeq = ch.inSeq
      /\ d.outRel = ch.outRel /\ d.inRel = ch.inRel
  BY <1>0, <1>1 DEF ChannelRecord
<1>7. d \in ChannelType
  BY <1>0, <1>5, <1>6, Fields DEF ChannelType
<1>8. ASSUME NEW s \in Stream PROVE Accounting(d, s)
  <2>1. Carrying(d, s) = Carrying(ch, s)
    BY <1>4, <1>6 DEF Carrying
  <2>2. \A j \in Carrying(ch, s) : ChunkOf(d.sub[j], s) = ChunkOf(ch.sub[j], s)
    BY <1>4, <1>6 DEF Carrying, ChunkOf
  <2>3. Accounting(ch, s) /\ d.waiting[s] = ch.waiting[s]
    BY <1>6 DEF Sound
  <2> QED BY <2>1, <2>2, <2>3, SameCarrying
<1> QED BY <1>6, <1>7, <1>8 DEF Sound, d, sub, i

-----------------------------------------------------------------------------
(* SendNetMsg, SendFile, SetChoked and Clear.                              *)

LEMMA WriteSound ==
  ASSUME NEW ch, Sound(ch), NEW m \in Msg
  PROVE  Sound(WriteToBuffer(ch, m)) /\ SameEnds(WriteToBuffer(ch, m), ch)
<1> DEFINE d == WriteToBuffer(ch, m)
           size == ch.streamSize + Size[m]
           t == Append(ch.stream, m)
<1>0. ch \in ChannelType /\ ch \in ChannelRecord
  BY DEF Sound, ChannelType
<1>1. ch.stream \in Seq(Msg) /\ ch.streamSize \in Nat /\ Size[m] \in Nat \ {0}
  BY <1>0, Fields, SizePositive
<1>2. size \in Nat /\ size > 0 /\ t \in Seq(Msg)
  BY <1>1
<1>3. d = [ch EXCEPT !.stream = t, !.streamSize = size]
  BY <1>0 DEF WriteToBuffer, ChannelRecord
<1> HIDE DEF d, size, t
<1>4. d \in ChannelRecord /\ d.streamSize = size /\ d.waiting = ch.waiting
  BY <1>0, <1>2, <1>3 DEF ChannelRecord
<1>5. SameEnds(d, ch)
  BY <1>0, <1>3 DEF ChannelRecord, SameEnds
<1>6. d \in ChannelType
  BY <1>2, <1>4 DEF ChannelType
<1>7. ASSUME NEW s \in Stream PROVE Accounting(d, s)
  <2>1. d.waiting[s] = ch.waiting[s] /\ d.sub = ch.sub /\ Accounting(ch, s)
    BY <1>4, <1>5 DEF SameEnds, Sound
  <2>2. Carrying(d, s) = Carrying(ch, s)
    BY <2>1 DEF Carrying
  <2> QED BY <2>1, <2>2, SameCarrying
<1> QED BY <1>5, <1>6, <1>7 DEF Sound, d

\* A new item at the end of a waiting list.
LEMMA EnqueueSound ==
  ASSUME NEW ch, Sound(ch), NEW r \in Stream, NEW m \in Msg, NEW file \in BOOLEAN
  PROVE  LET d == [ch EXCEPT !.waiting[r] = Append(@, Item(<<m>>, Size[m], file))]
         IN  Sound(d) /\ SameEnds(d, ch)
<1> DEFINE d == [ch EXCEPT !.waiting[r] = Append(@, Item(<<m>>, Size[m], file))]
           item == Item(<<m>>, Size[m], file)
           list == ch.waiting[r]
           w == [ch.waiting EXCEPT ![r] = Append(list, item)]
<1>0. ch \in ChannelType /\ ch \in ChannelRecord
  BY DEF Sound, ChannelType
<1>1. item \in ItemType /\ item.acked = 0 /\ item.pending = 0
  <2>1. <<m>> \in Seq(Msg)
    OBVIOUS
  <2> QED BY <2>1, SizePositive, ItemTyped DEF Item
<1>2. list \in Seq(ItemType) /\ ch.waiting \in [Stream -> Seq(ItemType)]
  BY <1>0, Fields
<1>3. d = [ch EXCEPT !.waiting = w]
  BY <1>0 DEF ChannelRecord
<1> DEFINE long == Append(list, item)
<1> HIDE DEF item, d
<1>4. /\ long \in Seq(ItemType) /\ long # <<>>
      /\ DOMAIN long = DOMAIN list \cup {Len(list) + 1}
      /\ \A n \in DOMAIN list : long[n] = list[n]
      /\ long[Len(list) + 1] = item
  BY <1>1, <1>2, ListAppend
<1>5. w \in [Stream -> Seq(ItemType)] /\ w[r] = long /\ \A s \in Stream \ {r} : w[s] = ch.waiting[s]
  <2> HIDE DEF long
  <2>1. w = [ch.waiting EXCEPT ![r] = long]
    BY DEF long
  <2> QED BY <1>2, <1>4, <2>1
<1> HIDE DEF w
<1>6. d \in ChannelRecord /\ d.stream = ch.stream /\ d.streamSize = ch.streamSize /\ d.waiting = w
  BY <1>0, <1>3, <1>5 DEF ChannelRecord
<1>7. SameEnds(d, ch)
  BY <1>0, <1>3 DEF ChannelRecord, SameEnds
<1>8. d \in ChannelType
  BY <1>0, <1>6, Fields DEF ChannelType
<1>9. ASSUME NEW s \in Stream \ {r} PROVE Accounting(d, s)
  <2>1. d.waiting[s] = ch.waiting[s] /\ d.sub = ch.sub /\ Accounting(ch, s)
    BY <1>5, <1>6, <1>7 DEF SameEnds, Sound
  <2>2. Carrying(d, s) = Carrying(ch, s)
    BY <2>1 DEF Carrying
  <2> QED BY <2>1, <2>2, SameCarrying
<1>10. Accounting(d, r)
  <2>1. Accounting(ch, r) /\ d.sub = ch.sub /\ d.waiting[r] = long
    BY <1>5, <1>6, <1>7 DEF SameEnds, Sound
  <2>2. list = <<>> => long[1] = item
    BY <1>4
  <2>3. list # <<>> => long[1] = list[1] /\ 1 \in DOMAIN list
    BY <1>2, <1>4, ListHead
  <2>4. list # <<>> => list[1].acked + list[1].pending <= list[1].total
    BY <2>1 DEF Accounting
  <2>5. item.total \in Nat
    BY <1>1 DEF ItemType
  <2>6. \A n \in DOMAIN list \ {1} : list[n].acked = 0 /\ list[n].pending = 0
    BY <2>1 DEF Accounting
  <2>7. \A n \in DOMAIN long \ {1} : long[n].acked = 0 /\ long[n].pending = 0
    <3> HIDE DEF long, list
    <3> QED BY <1>1, <1>4, <2>6
  <2> HIDE DEF long
  <2> QED BY <1>1, <1>4, <2>1, <2>2, <2>3, <2>4, <2>5, <2>7, SameHead
<1> QED BY <1>7, <1>8, <1>9, <1>10 DEF Sound, d

LEMMA ChokedSound ==
  ASSUME NEW ch, Sound(ch)
  PROVE  LET d == [ch EXCEPT !.outSeq = @ + 1, !.choked = @ + 1]
         IN  /\ Sound(d) /\ d.outSeq = ch.outSeq + 1 /\ d.inSeq = ch.inSeq
             /\ d.outRel = ch.outRel /\ d.inRel = ch.inRel /\ d.sub = ch.sub
<1> DEFINE d == [ch EXCEPT !.outSeq = @ + 1, !.choked = @ + 1]
           next == ch.outSeq + 1
           more == ch.choked + 1
<1>0. ch \in ChannelType /\ ch \in ChannelRecord
  BY DEF Sound, ChannelType
<1>1. next \in Nat /\ more \in Nat
  BY <1>0, Fields
<1>2. d = [ch EXCEPT !.outSeq = next, !.choked = more]
  BY <1>0 DEF ChannelRecord
<1> HIDE DEF d, next, more
<1>3. d \in ChannelRecord /\ d.stream = ch.stream /\ d.streamSize = ch.streamSize
        /\ d.waiting = ch.waiting /\ d.sub = ch.sub /\ d.outSeq = next
        /\ d.inSeq = ch.inSeq /\ d.outRel = ch.outRel /\ d.inRel = ch.inRel
  BY <1>0, <1>1, <1>2 DEF ChannelRecord
<1>4. d \in ChannelType
  BY <1>0, <1>3, Fields DEF ChannelType
<1>5. ASSUME NEW s \in Stream PROVE Accounting(d, s)
  <2>1. d.waiting[s] = ch.waiting[s] /\ d.sub = ch.sub /\ Accounting(ch, s)
    BY <1>3 DEF Sound
  <2>2. Carrying(d, s) = Carrying(ch, s)
    BY <2>1 DEF Carrying
  <2> QED BY <2>1, <2>2, SameCarrying
<1> QED BY <1>3, <1>4, <1>5 DEF Sound, d, next

\* What Clear leaves of the protocol state.
ClearedSub(ch) ==
  [i \in Subchannels |->
     CASE ch.sub[i].state = "TOSEND"  -> FreeSub
       [] ch.sub[i].state = "WAITING" -> [ch.sub[i] EXCEPT !.state = "DIRTY"]
       [] OTHER                       -> ch.sub[i]]

LEMMA ClearedSubTyped ==
  ASSUME NEW ch \in ChannelType
  PROVE  /\ ClearedSub(ch) \in [Subchannels -> SubchannelType]
         /\ \A i \in Subchannels : ClearedSub(ch)[i].state \notin {"TOSEND", "WAITING"}
<1>1. ASSUME NEW i \in Subchannels
      PROVE  /\ ClearedSub(ch)[i] \in SubchannelType
             /\ ClearedSub(ch)[i].state \notin {"TOSEND", "WAITING"}
  <2>0. ch.sub[i] \in SubchannelType
    BY Fields
  <2>1. CASE ch.sub[i].state = "TOSEND"
    <3>1. ClearedSub(ch)[i] = FreeSub
      BY <2>1 DEF ClearedSub
    <3> QED BY <3>1, FreeSubTyped DEF FreeSub
  <2>2. CASE ch.sub[i].state = "WAITING"
    <3>1. ClearedSub(ch)[i] = [ch.sub[i] EXCEPT !.state = "DIRTY"]
      BY <2>2 DEF ClearedSub
    <3> QED BY <2>0, <3>1 DEF SubchannelType
  <2>3. CASE ch.sub[i].state \notin {"TOSEND", "WAITING"}
    <3>1. ClearedSub(ch)[i] = ch.sub[i]
      BY <2>3 DEF ClearedSub
    <3> QED BY <2>0, <2>3, <3>1
  <2> QED BY <2>1, <2>2, <2>3
<1> QED BY <1>1 DEF ClearedSub

LEMMA ClearSound ==
  ASSUME NEW ch, Sound(ch)
  PROVE  /\ Sound(Clear(ch))
         /\ Clear(ch).outSeq = ch.outSeq /\ Clear(ch).inSeq = ch.inSeq /\ Clear(ch).inRel = ch.inRel
         /\ Clear(ch).outRel = (ch.outRel \ ToSend(ch)) \cup (ToSend(ch) \ ch.outRel)
         /\ Clear(ch).sub = ClearedSub(ch)
<1> DEFINE d == Clear(ch)
           rel == (ch.outRel \ ToSend(ch)) \cup (ToSend(ch) \ ch.outRel)
           w == [s \in Stream |-> <<>>]
           recv == [s \in Stream |-> [ch.recv[s] EXCEPT !.open = FALSE, !.buf = <<>>]]
<1>0. ch \in ChannelType /\ ch \in ChannelRecord
  BY DEF Sound, ChannelType
<1>1. d = [ch EXCEPT !.waiting = w, !.recv = recv, !.outRel = rel, !.sub = ClearedSub(ch),
                     !.stream = <<>>, !.streamSize = 0, !.choked = 0]
  BY <1>0 DEF Clear, ClearedSub, ChannelRecord
<1>2. rel \in SUBSET Subchannels
  BY <1>0, Fields DEF ToSend
<1>3. w \in [Stream -> Seq(ItemType)] /\ <<>> \in Seq(Msg) /\ 0 \in Nat
  OBVIOUS
<1>4. recv \in [Stream -> ListType]
  <2>1. ASSUME NEW s \in Stream PROVE [ch.recv[s] EXCEPT !.open = FALSE, !.buf = <<>>] \in ListType
    <3>1. ch.recv[s] \in ListType
      BY <1>0, Fields
    <3>2. <<>> \in Seq({<<>>} \cup (Seq(Msg) \X Nat))
      OBVIOUS
    <3> QED BY <3>1, <3>2 DEF ListType
  <2> QED BY <2>1
<1>5. ClearedSub(ch) \in [Subchannels -> SubchannelType]
  BY <1>0, ClearedSubTyped
<1> HIDE DEF d, rel, w, recv
<1>6. d \in ChannelRecord
  BY <1>0, <1>1, <1>2, <1>3, <1>4, <1>5 DEF ChannelRecord
<1>7. /\ d.stream = <<>> /\ d.waiting = w /\ d.sub = ClearedSub(ch) /\ d.outRel = rel
      /\ d.outSeq = ch.outSeq /\ d.inSeq = ch.inSeq /\ d.inRel = ch.inRel
  BY <1>0, <1>1 DEF ChannelRecord
<1>8. d \in ChannelType
  BY <1>6, <1>7 DEF ChannelType
<1>9. ASSUME NEW s \in Stream PROVE Accounting(d, s)
  <2>1. Carrying(d, s) = {}
    BY <1>0, <1>7, ClearedSubTyped DEF Carrying
  <2>2. d.waiting[s] = <<>> /\ DOMAIN d.waiting[s] = {}
    BY <1>7 DEF w
  <2> QED BY <2>1, <2>2 DEF Accounting
<1> QED BY <1>7, <1>8, <1>9 DEF Sound, d, rel

LEMMA SignonTyped == \A p \in Peer : Signon[p] \in Msg
BY MessageAssumption DEF Msg

LEMMA ClearAndSignonSound ==
  ASSUME NEW ch, Sound(ch), NEW p \in Peer
  PROVE  Sound(ClearAndSignon(p, ch)) /\ SameEnds(ClearAndSignon(p, ch), Clear(ch))
BY ClearSound, WriteSound, SignonTyped DEF ClearAndSignon

-----------------------------------------------------------------------------
(* Receiving a header.                                                     *)

\* The subchannels after the header has been looked at.
AnsweredSub(ch, k) ==
  [i \in Subchannels |->
     CASE i \in AckedSubs(ch, k) \cup DirtyDone(ch, k) \cup DirtyLost(ch, k) -> FreeSub
       [] i \in MissedSubs(ch, k) /\ ch.sub[i].state = "WAITING"
            -> [ch.sub[i] EXCEPT !.state = "TOSEND"]
       [] OTHER -> ch.sub[i]]

\* Case by case.
LEMMA AnsweredCases ==
  ASSUME NEW ch, NEW k, ch.sub \in [Subchannels -> SubchannelType], NEW i \in Subchannels
  PROVE  /\ AnsweredSub(ch, k)[i] \in SubchannelType
         /\ i \in AckedSubs(ch, k) => AnsweredSub(ch, k)[i] = FreeSub /\ ch.sub[i].state = "WAITING"
         /\ i \in DirtyDone(ch, k) \cup DirtyLost(ch, k) =>
              AnsweredSub(ch, k)[i] = FreeSub /\ ch.sub[i].state = "DIRTY"
         /\ i \in MissedSubs(ch, k) /\ ch.sub[i].state = "WAITING" =>
              AnsweredSub(ch, k)[i] = [ch.sub[i] EXCEPT !.state = "TOSEND"]
         /\ /\ i \notin AckedSubs(ch, k)
            /\ i \notin DirtyDone(ch, k) \cup DirtyLost(ch, k)
            /\ ~ (i \in MissedSubs(ch, k) /\ ch.sub[i].state = "WAITING")
            => AnsweredSub(ch, k)[i] = ch.sub[i]
<1> DEFINE D == AckedSubs(ch, k) \cup DirtyDone(ch, k) \cup DirtyLost(ch, k)
<1>0. ch.sub[i] \in SubchannelType
  OBVIOUS
<1>1. i \in AckedSubs(ch, k) => ch.sub[i].state = "WAITING"
  BY DEF AckedSubs
<1>2. i \in DirtyDone(ch, k) \cup DirtyLost(ch, k) => ch.sub[i].state = "DIRTY"
  BY DEF DirtyDone, DirtyLost
<1>3. i \in MissedSubs(ch, k) => i \notin AckedSubs(ch, k)
  BY DEF MissedSubs, AckedSubs
<1>4. CASE i \in D
  <2>1. AnsweredSub(ch, k)[i] = FreeSub
    BY <1>1, <1>2, <1>3, <1>4 DEF AnsweredSub
  <2> QED BY <1>1, <1>2, <1>3, <1>4, <2>1, FreeSubTyped
<1>5. CASE i \notin D /\ i \in MissedSubs(ch, k) /\ ch.sub[i].state = "WAITING"
  <2>1. AnsweredSub(ch, k)[i] = [ch.sub[i] EXCEPT !.state = "TOSEND"]
    BY <1>5 DEF AnsweredSub
  <2>2. AnsweredSub(ch, k)[i] \in SubchannelType
    BY <1>0, <2>1 DEF SubchannelType
  <2> QED BY <1>1, <1>2, <1>5, <2>1, <2>2
<1>6. CASE i \notin D /\ ~(i \in MissedSubs(ch, k) /\ ch.sub[i].state = "WAITING")
  <2>1. AnsweredSub(ch, k)[i] = ch.sub[i]
    BY <1>6 DEF AnsweredSub
  <2> QED BY <1>0, <1>6, <2>1
<1> QED BY <1>4, <1>5, <1>6

\* A subchannel that the header says nothing of.
LEMMA NotAnswered ==
  ASSUME NEW ch, NEW k, ch.sub \in [Subchannels -> SubchannelType], NEW i \in Subchannels,
         i \notin AckedSubs(ch, k), i \notin DirtyDone(ch, k) \cup DirtyLost(ch, k),
         ~(i \in MissedSubs(ch, k) /\ ch.sub[i].state = "WAITING")
  PROVE  AnsweredSub(ch, k)[i] = ch.sub[i]
BY DEF AnsweredSub

\* Fragments whose subchannels are acknowledged are not in flight any more.
LEMMA InFlightAfterAck ==
  ASSUME NEW ch, Sound(ch), NEW k, NEW s \in Stream, NEW d, d.sub = AnsweredSub(ch, k)
  PROVE  LET A == UNION {ChunkOf(ch.sub[i], s) : i \in AckedSubs(ch, k)}
         IN  /\ A \subseteq InFlight(ch, s)
             /\ InFlight(d, s) = InFlight(ch, s) \ A
             /\ Carrying(d, s) \subseteq Carrying(ch, s)
             /\ \A i \in Carrying(d, s) : ChunkOf(d.sub[i], s) = ChunkOf(ch.sub[i], s)
<1> DEFINE A == UNION {ChunkOf(ch.sub[i], s) : i \in AckedSubs(ch, k)}
<1>0. ch.sub \in [Subchannels -> SubchannelType]
  BY Fields DEF Sound
<1>1. Carrying(d, s) = Carrying(ch, s) \ AckedSubs(ch, k)
  <2>1. ASSUME NEW i \in Carrying(d, s) PROVE i \in Carrying(ch, s) \ AckedSubs(ch, k)
    <3>1. i \in Subchannels /\ d.sub[i].num[s] > 0 /\ d.sub[i].state \in {"TOSEND", "WAITING"}
      BY DEF Carrying
    <3>2. d.sub[i] # FreeSub
      BY <3>1 DEF FreeSub
    <3>3. i \notin AckedSubs(ch, k) \cup DirtyDone(ch, k) \cup DirtyLost(ch, k)
      BY <1>0, <3>1, <3>2, AnsweredCases
    <3>4. CASE i \in MissedSubs(ch, k) /\ ch.sub[i].state = "WAITING"
      <4>1. d.sub[i] = [ch.sub[i] EXCEPT !.state = "TOSEND"] /\ ch.sub[i] \in SubchannelType
        BY <1>0, <3>1, <3>4, AnsweredCases
      <4>2. d.sub[i].num = ch.sub[i].num
        BY <4>1 DEF SubchannelType
      <4> QED BY <3>1, <3>3, <3>4, <4>2 DEF Carrying
    <3>5. CASE ~(i \in MissedSubs(ch, k) /\ ch.sub[i].state = "WAITING")
      <4>1. d.sub[i] = ch.sub[i]
        <5>1. i \in Subchannels /\ i \notin AckedSubs(ch, k)
                /\ i \notin DirtyDone(ch, k) \cup DirtyLost(ch, k)
          BY <3>1, <3>3
        <5>2. AnsweredSub(ch, k)[i] = ch.sub[i]
          BY <1>0, <3>5, <5>1, NotAnswered
        <5> QED BY <5>2
      <4> QED BY <3>1, <3>3, <4>1 DEF Carrying
    <3> QED BY <3>4, <3>5
  <2>2. ASSUME NEW i \in Carrying(ch, s) \ AckedSubs(ch, k) PROVE i \in Carrying(d, s)
    <3>1. i \in Subchannels /\ ch.sub[i].num[s] > 0 /\ ch.sub[i].state \in {"TOSEND", "WAITING"}
      BY DEF Carrying
    <3>2. i \notin DirtyDone(ch, k) \cup DirtyLost(ch, k)
      BY <1>0, <3>1, AnsweredCases
    <3>3. CASE i \in MissedSubs(ch, k) /\ ch.sub[i].state = "WAITING"
      <4>1. d.sub[i] = [ch.sub[i] EXCEPT !.state = "TOSEND"] /\ ch.sub[i] \in SubchannelType
        BY <1>0, <3>1, <3>3, AnsweredCases
      <4>2. d.sub[i].num = ch.sub[i].num /\ d.sub[i].state = "TOSEND"
        BY <4>1 DEF SubchannelType
      <4> QED BY <3>1, <4>2 DEF Carrying
    <3>4. CASE ~(i \in MissedSubs(ch, k) /\ ch.sub[i].state = "WAITING")
      <4>1. d.sub[i] = ch.sub[i]
        <5>1. i \in Subchannels /\ i \notin AckedSubs(ch, k)
                /\ i \notin DirtyDone(ch, k) \cup DirtyLost(ch, k)
          BY <3>1, <3>2
        <5>2. AnsweredSub(ch, k)[i] = ch.sub[i]
          BY <1>0, <3>4, <5>1, NotAnswered
        <5> QED BY <5>2
      <4> QED BY <3>1, <4>1 DEF Carrying
    <3> QED BY <3>3, <3>4
  <2> QED BY <2>1, <2>2
<1>2. ASSUME NEW i \in Carrying(d, s) PROVE ChunkOf(d.sub[i], s) = ChunkOf(ch.sub[i], s)
  <2>1. i \in Subchannels /\ ch.sub[i].state \in {"TOSEND", "WAITING"} /\ i \notin AckedSubs(ch, k)
    BY <1>1 DEF Carrying
  <2>2. i \notin DirtyDone(ch, k) \cup DirtyLost(ch, k)
    BY <1>0, <2>1, AnsweredCases
  <2>3. d.sub[i] = [ch.sub[i] EXCEPT !.state = "TOSEND"] \/ d.sub[i] = ch.sub[i]
    <3>1. CASE i \in MissedSubs(ch, k) /\ ch.sub[i].state = "WAITING"
      BY <1>0, <2>1, <3>1, AnsweredCases
    <3>2. CASE ~ (i \in MissedSubs(ch, k) /\ ch.sub[i].state = "WAITING")
      BY <1>0, <2>1, <2>2, <3>2, AnsweredCases
    <3> QED BY <3>1, <3>2
  <2>4. ch.sub[i] \in SubchannelType
    BY <1>0, <2>1
  <2>5. d.sub[i].num = ch.sub[i].num /\ d.sub[i].start = ch.sub[i].start
    BY <2>3, <2>4 DEF SubchannelType
  <2> QED BY <2>5 DEF ChunkOf
<1>3. \A i \in AckedSubs(ch, k) : i \in Carrying(ch, s) \/ ChunkOf(ch.sub[i], s) = {}
  <2>1. ASSUME NEW i \in AckedSubs(ch, k) PROVE i \in Carrying(ch, s) \/ ChunkOf(ch.sub[i], s) = {}
    <3>1. i \in Subchannels /\ ch.sub[i].state = "WAITING"
      BY DEF AckedSubs, Reached
    <3>2. ch.sub[i].num[s] \in Nat /\ (ChunkOf(ch.sub[i], s) = {} <=> ch.sub[i].num[s] = 0)
      BY <1>0, <3>1, ChunkFinite
    <3> QED BY <3>1, <3>2 DEF Carrying
  <2> QED BY <2>1
<1>4. A \subseteq InFlight(ch, s)
  BY <1>3 DEF InFlight
<1>5. InFlight(d, s) = InFlight(ch, s) \ A
  <2>1. \A i, j \in Carrying(ch, s) : i # j => ChunkOf(ch.sub[i], s) \cap ChunkOf(ch.sub[j], s) = {}
    BY DEF Sound, Accounting
  <2>2. InFlight(d, s) = UNION {ChunkOf(ch.sub[i], s) : i \in Carrying(ch, s) \ AckedSubs(ch, k)}
    BY <1>1, <1>2 DEF InFlight
  <2>3. ASSUME NEW x \in InFlight(d, s) PROVE x \in InFlight(ch, s) \ A
    <3>1. PICK i \in Carrying(ch, s) \ AckedSubs(ch, k) : x \in ChunkOf(ch.sub[i], s)
      BY <2>2
    <3>2. x \in InFlight(ch, s)
      BY <3>1 DEF InFlight
    <3>3. x \notin A
      BY <1>3, <2>1, <3>1
    <3> QED BY <3>2, <3>3
  <2>4. ASSUME NEW x \in InFlight(ch, s) \ A PROVE x \in InFlight(d, s)
    <3>1. PICK i \in Carrying(ch, s) : x \in ChunkOf(ch.sub[i], s)
      BY DEF InFlight
    <3>2. i \notin AckedSubs(ch, k)
      BY <3>1
    <3> QED BY <2>2, <3>1, <3>2
  <2> QED BY <2>3, <2>4
<1> QED BY <1>1, <1>2, <1>4, <1>5

\* Moving fragments from pending to acknowledged.
LEMMA CountersMoved ==
  ASSUME NEW S, IsFiniteSet(S), NEW A \in SUBSET S
  PROVE  /\ Cardinality(A) \in Nat /\ Cardinality(A) <= Cardinality(S)
         /\ Cardinality(S \ A) = Cardinality(S) - Cardinality(A)
<1>1. IsFiniteSet(A) /\ IsFiniteSet(S \ A)
  BY FS_Subset
<1>2. Cardinality(A) \in Nat /\ Cardinality(S) \in Nat /\ Cardinality(S \ A) \in Nat
  BY <1>1, FS_CardinalityType
<1>3. Cardinality(A \cup (S \ A)) = Cardinality(A) + Cardinality(S \ A) - Cardinality(A \cap (S \ A))
  BY <1>1, FS_Union
<1>4. A \cup (S \ A) = S /\ A \cap (S \ A) = {}
  OBVIOUS
<1>5. Cardinality(A \cap (S \ A)) = 0
  BY <1>4, FS_EmptySet
<1> DEFINE a == Cardinality(A)
           b == Cardinality(S \ A)
           c == Cardinality(S)
<1>6. a \in Nat /\ b \in Nat /\ c \in Nat /\ c = a + b - 0
  BY <1>2, <1>3, <1>4, <1>5
<1> HIDE DEF a, b, c
<1>7. a <= c /\ b = c - a
  BY <1>6
<1> QED BY <1>2, <1>7 DEF a, b, c

LEMMA AckedListTyped ==
  ASSUME NEW ch, Sound(ch), NEW k, NEW s \in Stream
  PROVE  /\ AckedFragments(ch, k, s) \in Nat
         /\ AckedList(ch, k, s) \in Seq(ItemType)
         /\ ch.waiting[s] = <<>> => AckedList(ch, k, s) = <<>>
         /\ ch.waiting[s] # <<>> =>
              /\ AckedFragments(ch, k, s) <= ch.waiting[s][1].pending
              /\ AckedList(ch, k, s) # <<>>
              /\ AckedList(ch, k, s)[1].acked = ch.waiting[s][1].acked + AckedFragments(ch, k, s)
              /\ AckedList(ch, k, s)[1].pending = ch.waiting[s][1].pending - AckedFragments(ch, k, s)
              /\ AckedList(ch, k, s)[1].total = ch.waiting[s][1].total
              /\ DOMAIN AckedList(ch, k, s) = DOMAIN ch.waiting[s]
              /\ \A n \in DOMAIN ch.waiting[s] \ {1} : AckedList(ch, k, s)[n] = ch.waiting[s][n]
<1> DEFINE A == UNION {ChunkOf(ch.sub[i], s) : i \in AckedSubs(ch, k)}
           c == AckedFragments(ch, k, s)
           list == ch.waiting[s]
           head == list[1]
           S == InFlight(ch, s)
<1>1. A \subseteq S
  <2> DEFINE d == [sub |-> AnsweredSub(ch, k)]
  <2>1. d.sub = AnsweredSub(ch, k)
    OBVIOUS
  <2> HIDE DEF d
  <2> QED BY <2>1, InFlightAfterAck
<1>2. IsFiniteSet(S)
  BY InFlightFinite
<1>3. c = Cardinality(A)
  BY DEF AckedFragments
<1> HIDE DEF A, S, c
<1>4. c \in Nat /\ c <= Cardinality(S)
  BY <1>1, <1>2, <1>3, CountersMoved
<1>5. list \in Seq(ItemType)
  BY Fields DEF Sound
<1>6. CASE list = <<>>
  <2>1. AckedList(ch, k, s) = <<>>
    BY <1>6 DEF AckedList
  <2> QED BY <1>4, <1>5, <1>6, <2>1 DEF c
<1>7. CASE list # <<>>
  <2>1. head \in ItemType /\ 1 \in 1 .. Len(list) /\ 1 \in DOMAIN list
    BY <1>5, <1>7, ListHead
  <2>2. head.acked \in Nat /\ head.pending \in Nat
    BY <2>1 DEF ItemType
  <2>3. head.pending = Cardinality(S)
    BY <1>7 DEF Sound, Accounting, S
  <2> DEFINE a == head.acked + c
             n == head.pending - c
             item == [head EXCEPT !.acked = a, !.pending = n]
  <2>4. a \in Nat /\ n \in Nat
    <3> HIDE DEF head
    <3> QED BY <1>4, <2>2, <2>3
  <2>5. AckedList(ch, k, s) = [list EXCEPT ![1] = item]
    BY <1>7, <2>1 DEF AckedList, c, ItemType
  <2> HIDE DEF a, n
  <2>6. item \in ItemType /\ item.acked = a /\ item.pending = n /\ item.total = head.total
    BY <2>1, <2>4 DEF ItemType
  <2> HIDE DEF item, list
  <2>7. /\ [list EXCEPT ![1] = item] \in Seq(ItemType) /\ [list EXCEPT ![1] = item] # <<>>
        /\ [list EXCEPT ![1] = item][1] = item
        /\ DOMAIN [list EXCEPT ![1] = item] = DOMAIN list
        /\ \A m \in DOMAIN list \ {1} : [list EXCEPT ![1] = item][m] = list[m]
    BY <1>5, <2>1, <2>6, ListUpdate
  <2> QED BY <1>4, <1>7, <2>3, <2>5, <2>6, <2>7 DEF list, c, a, n
<1> QED BY <1>6, <1>7

LEMMA AckSound ==
  ASSUME NEW ch, Sound(ch), NEW k
  PROVE  /\ Sound(AckSubChannels(ch, k))
         /\ AckSubChannels(ch, k).outSeq = ch.outSeq /\ AckSubChannels(ch, k).inSeq = ch.inSeq
         /\ AckSubChannels(ch, k).inRel = ch.inRel
         /\ AckSubChannels(ch, k).sub = AnsweredSub(ch, k)
         /\ AckSubChannels(ch, k).outRel =
              (ch.outRel \ DirtyLost(ch, k)) \cup (DirtyLost(ch, k) \ ch.outRel)
<1> DEFINE d == AckSubChannels(ch, k)
           w == [s \in Stream |-> AckedList(ch, k, s)]
           rel == (ch.outRel \ DirtyLost(ch, k)) \cup (DirtyLost(ch, k) \ ch.outRel)
<1>0. ch \in ChannelType /\ ch \in ChannelRecord
  BY DEF Sound, ChannelType
<1>1. d = [ch EXCEPT !.waiting = w, !.outRel = rel, !.sub = AnsweredSub(ch, k)]
  BY <1>0 DEF AckSubChannels, AnsweredSub, ChannelRecord
<1>2. w \in [Stream -> Seq(ItemType)]
  BY AckedListTyped
<1>3. rel \in SUBSET Subchannels
  BY <1>0, Fields DEF DirtyLost, MissedSubs, Reached
<1>4. AnsweredSub(ch, k) \in [Subchannels -> SubchannelType]
  <2>1. \A i \in Subchannels : AnsweredSub(ch, k)[i] \in SubchannelType
    BY <1>0, Fields, AnsweredCases
  <2> QED BY <2>1 DEF AnsweredSub
<1> HIDE DEF d, rel
<1>5. \A s \in Stream : w[s] = AckedList(ch, k, s)
  OBVIOUS
<1> HIDE DEF w
<1>6. d \in ChannelRecord
  BY <1>0, <1>1, <1>2, <1>3, <1>4 DEF ChannelRecord
<1>7. /\ d.stream = ch.stream /\ d.streamSize = ch.streamSize /\ d.waiting = w
      /\ d.sub = AnsweredSub(ch, k) /\ d.outRel = rel
      /\ d.outSeq = ch.outSeq /\ d.inSeq = ch.inSeq /\ d.inRel = ch.inRel
  BY <1>0, <1>1 DEF ChannelRecord
<1>8. d \in ChannelType
  BY <1>0, <1>6, <1>7, Fields DEF ChannelType
<1>9. ASSUME NEW s \in Stream PROVE Accounting(d, s)
  <2> DEFINE A == UNION {ChunkOf(ch.sub[i], s) : i \in AckedSubs(ch, k)}
             c == AckedFragments(ch, k, s)
             list == ch.waiting[s]
             head == list[1]
             v == AckedList(ch, k, s)
             S == InFlight(ch, s)
  <2>1. /\ A \subseteq S /\ InFlight(d, s) = S \ A
        /\ Carrying(d, s) \subseteq Carrying(ch, s)
        /\ \A i \in Carrying(d, s) : ChunkOf(d.sub[i], s) = ChunkOf(ch.sub[i], s)
    BY <1>7, InFlightAfterAck
  <2>2. d.waiting[s] = v
    BY <1>5, <1>7
  <2>3. Accounting(ch, s)
    BY DEF Sound
  <2>4. c = Cardinality(A)
    BY DEF AckedFragments
  <2>5. \A i, j \in Carrying(d, s) : i # j => ChunkOf(d.sub[i], s) \cap ChunkOf(d.sub[j], s) = {}
    BY <2>1, <2>3 DEF Accounting
  <2>6. CASE list = <<>>
    <3>1. v = <<>> /\ Carrying(ch, s) = {}
      BY <2>3, <2>6, AckedListTyped DEF Accounting
    <3>2. DOMAIN v = {}
      BY <3>1
    <3> HIDE DEF v
    <3> QED BY <2>1, <2>2, <2>5, <3>1, <3>2 DEF Accounting
  <2>7. CASE list # <<>>
    <3>1. head \in ItemType
      BY <2>7, Fields, ListHead DEF Sound
    <3>2. head.acked \in Nat /\ head.pending \in Nat /\ head.total \in Nat
      BY <3>1 DEF ItemType
    <3>3. /\ c \in Nat /\ v # <<>> /\ v[1].acked = head.acked + c /\ v[1].pending = head.pending - c
          /\ v[1].total = head.total /\ DOMAIN v = DOMAIN list
          /\ \A n \in DOMAIN list \ {1} : v[n] = list[n]
      BY <2>7, AckedListTyped
    <3>4. /\ head.pending = Cardinality(S) /\ head.acked + head.pending <= head.total
          /\ S \subseteq 0 .. head.acked + head.pending - 1
          /\ \A n \in DOMAIN list \ {1} : list[n].acked = 0 /\ list[n].pending = 0
      BY <2>3, <2>7 DEF Accounting
    <3>5. Cardinality(S \ A) = Cardinality(S) - c
      <4>1. IsFiniteSet(S)
        BY InFlightFinite
      <4> HIDE DEF S, A, c
      <4> QED BY <2>1, <2>4, <4>1, CountersMoved
    <3> HIDE DEF v, head, c, S, A
    <3>6. v[1].acked + v[1].pending = head.acked + head.pending
      <4>1. c \in Nat /\ v[1].acked = head.acked + c /\ v[1].pending = head.pending - c
        BY <3>3
      <4>2. (head.acked + c) + (head.pending - c) = head.acked + head.pending
        BY <3>2, <4>1
      <4>3. v[1].acked + v[1].pending = (head.acked + c) + (head.pending - c)
        BY <4>1, Zenon
      <4> QED BY <4>2, <4>3, Zenon
    <3>7. v[1].pending = Cardinality(InFlight(d, s))
      BY <2>1, <3>3, <3>4, <3>5
    <3>8. InFlight(d, s) \subseteq 0 .. v[1].acked + v[1].pending - 1
      <4>1. S \subseteq 0 .. head.acked + head.pending - 1
        BY <3>4
      <4>2. S \subseteq 0 .. v[1].acked + v[1].pending - 1
        <5>1. v[1].acked \in Int /\ v[1].pending \in Int
          BY <3>2, <3>3
        <5> QED BY <3>2, <3>6, <4>1, <5>1
      <4>3. InFlight(d, s) \subseteq S
        BY <2>1
      <4> QED BY <4>2, <4>3
    <3>9. \A n \in DOMAIN v \ {1} : v[n].acked = 0 /\ v[n].pending = 0
      BY <3>3, <3>4
    <3>10. v[1].acked + v[1].pending <= v[1].total
      BY <3>3, <3>4, <3>6
    <3> QED BY <2>2, <2>5, <3>3, <3>7, <3>8, <3>9, <3>10 DEF Accounting
  <2> QED BY <2>6, <2>7
<1> QED BY <1>7, <1>8, <1>9 DEF Sound, d, rel

\* A head item leaves the list when nothing of it is in flight.
LEMMA HeadRemoved ==
  ASSUME NEW list \in Seq(ItemType), list # <<>>
  PROVE  /\ Tail(list) \in Seq(ItemType)
         /\ \A n \in DOMAIN Tail(list) : n + 1 \in DOMAIN list \ {1} /\ Tail(list)[n] = list[n + 1]
         /\ Tail(list) # <<>> => 1 \in DOMAIN Tail(list) /\ Tail(list)[1] \in ItemType
<1>1. Tail(list) \in Seq(ItemType) /\ Len(Tail(list)) = Len(list) - 1
        /\ \A n \in 1 .. Len(Tail(list)) : Tail(list)[n] = list[n + 1]
  BY HeadTailProperties
<1>2. \A n \in DOMAIN Tail(list) : n + 1 \in DOMAIN list \ {1}
  BY <1>1
<1> QED BY <1>1, <1>2, ListHead

LEMMA CheckWaitingAccounting ==
  ASSUME NEW c, NEW d, Sound(c), NEW s \in Stream, NEW ack \in Nat, d.sub = c.sub,
         d.waiting[s] = CheckWaitingList(c.waiting[s], ack)
  PROVE  Accounting(d, s) /\ CheckWaitingList(c.waiting[s], ack) \in Seq(ItemType)
<1> DEFINE list == c.waiting[s]
           head == list[1]
           v == d.waiting[s]
<1>1. list \in Seq(ItemType) /\ Accounting(c, s)
  BY Fields DEF Sound
<1>2. Carrying(d, s) = Carrying(c, s)
  BY DEF Carrying
<1>3. CASE v = list
  <2>1. \A i \in Carrying(c, s) : ChunkOf(d.sub[i], s) = ChunkOf(c.sub[i], s)
    OBVIOUS
  <2> QED BY <1>1, <1>2, <1>3, <2>1, SameCarrying
<1>4. CASE v # list
  <2>1. list # <<>> /\ head.acked = head.total /\ v = Tail(list)
    BY <1>4 DEF CheckWaitingList
  <2>2. head \in ItemType
    BY <1>1, <2>1, ListHead
  <2>3. head.pending = Cardinality(InFlight(c, s)) /\ head.acked + head.pending <= head.total
    BY <1>1, <2>1 DEF Accounting
  <2>4. head.pending = 0
    <3>1. head.acked \in Nat /\ head.pending \in Nat /\ head.total \in Nat
      BY <2>2 DEF ItemType
    <3> HIDE DEF head
    <3> QED BY <2>1, <2>3, <3>1
  <2>5. InFlight(c, s) = {}
    BY <2>3, <2>4, InFlightFinite, FS_EmptySet
  <2>6. Carrying(c, s) = {}
    <3>1. ASSUME NEW i \in Carrying(c, s) PROVE FALSE
      <4>1. i \in Subchannels /\ c.sub[i].num[s] > 0 /\ c.sub[i] \in SubchannelType
        BY Fields DEF Carrying, Sound
      <4>2. ChunkOf(c.sub[i], s) # {}
        BY <4>1, ChunkFinite
      <4>3. ChunkOf(c.sub[i], s) \subseteq InFlight(c, s)
        BY DEF InFlight
      <4> QED BY <2>5, <4>2, <4>3
    <3> QED BY <3>1
  <2>7. Carrying(d, s) = {} /\ InFlight(d, s) = {}
    BY <1>2, <2>6 DEF InFlight
  <2>8. \A n \in DOMAIN list \ {1} : list[n].acked = 0 /\ list[n].pending = 0
    BY <1>1 DEF Accounting
  <2> HIDE DEF list, v, head
  <2>9. /\ v \in Seq(ItemType)
        /\ \A n \in DOMAIN v : v[n].acked = 0 /\ v[n].pending = 0
        /\ v # <<>> => 1 \in DOMAIN v /\ v[1] \in ItemType
    BY <1>1, <2>1, <2>8, HeadRemoved
  <2>10. v # <<>> => v[1].acked = 0 /\ v[1].pending = 0 /\ v[1].total \in Nat
    BY <2>9 DEF ItemType
  <2>11. v # <<>> => /\ v[1].pending = Cardinality(InFlight(d, s))
                     /\ v[1].acked + v[1].pending <= v[1].total
    BY <2>7, <2>10, FS_EmptySet
  <2> QED BY <2>7, <2>9, <2>11 DEF Accounting, v, list
<1> QED BY <1>1, <1>3, <1>4

\* What ProcessPacketHeader does to a channel.
LEMMA HeaderSound ==
  ASSUME NEW ch, Sound(ch), NEW k \in DatagramType
  PROVE  /\ Sound(ProcessPacketHeader(ch, k))
         /\ ProcessPacketHeader(ch, k).outSeq = ch.outSeq
         /\ ProcessPacketHeader(ch, k).inRel = ch.inRel
         /\ ProcessPacketHeader(ch, k).sub = AnsweredSub(ch, k)
         /\ ProcessPacketHeader(ch, k).outRel =
              (ch.outRel \ DirtyLost(ch, k)) \cup (DirtyLost(ch, k) \ ch.outRel)
         /\ ProcessPacketHeader(ch, k).inSeq = IF Invalid(ch, k) = {} THEN k.seq ELSE ch.inSeq
<1> DEFINE b == AckSubChannels(ch, k)
           drop == k.seq - (ch.inSeq + k.choked + 1)
           a == [b EXCEPT !.drop = drop]
           d == ProcessPacketHeader(ch, k)
<1>0. k.seq \in Nat /\ k.ack \in Nat /\ k.choked \in Nat
  BY DEF DatagramType
<1>1. Sound(b) /\ b.outSeq = ch.outSeq /\ b.inSeq = ch.inSeq /\ b.inRel = ch.inRel
        /\ b.sub = AnsweredSub(ch, k)
        /\ b.outRel = (ch.outRel \ DirtyLost(ch, k)) \cup (DirtyLost(ch, k) \ ch.outRel)
  BY AckSound
<1>2. drop \in Int
  BY <1>0, Fields DEF Sound
<1>3. d = IF Invalid(ch, k) # {} THEN a
          ELSE [a EXCEPT !.inSeq = k.seq, !.outSeqAck = k.ack,
                         !.waiting = [s \in Stream |-> CheckWaitingList(@[s], k.ack)]]
  BY DEF ProcessPacketHeader
<1> HIDE DEF b, drop, d
<1>4. b \in ChannelType /\ b \in ChannelRecord
  BY <1>1 DEF Sound, ChannelType
<1>5. a \in ChannelRecord /\ a.stream = b.stream /\ a.streamSize = b.streamSize /\ a.waiting = b.waiting
        /\ SameEnds(a, b)
  BY <1>2, <1>4 DEF ChannelRecord, SameEnds
<1>6. a \in ChannelType
  BY <1>4, <1>5, Fields DEF ChannelType
<1> HIDE DEF a
<1>7. CASE Invalid(ch, k) # {}
  <2>1. d = a
    BY <1>3, <1>7
  <2>2. ASSUME NEW s \in Stream PROVE Accounting(d, s)
    <3>1. d.waiting[s] = b.waiting[s] /\ d.sub = b.sub /\ Accounting(b, s)
      BY <1>1, <1>5, <2>1 DEF SameEnds, Sound
    <3>2. Carrying(d, s) = Carrying(b, s)
      BY <3>1 DEF Carrying
    <3> QED BY <3>1, <3>2, SameCarrying
  <2> QED BY <1>1, <1>5, <1>6, <1>7, <2>1, <2>2 DEF Sound, SameEnds, d
<1>8. CASE Invalid(ch, k) = {}
  <2> DEFINE w == [s \in Stream |-> CheckWaitingList(b.waiting[s], k.ack)]
  <2>1. d = [a EXCEPT !.inSeq = k.seq, !.outSeqAck = k.ack, !.waiting = w]
    BY <1>3, <1>5, <1>8 DEF ChannelRecord
  <2>2. \A s \in Stream : w[s] = CheckWaitingList(b.waiting[s], k.ack)
    OBVIOUS
  <2> HIDE DEF w
  <2>3. d.waiting = w /\ d.sub = a.sub /\ d.stream = a.stream /\ d.streamSize = a.streamSize
          /\ d.outSeq = a.outSeq /\ d.inSeq = k.seq /\ d.outRel = a.outRel /\ d.inRel = a.inRel
    BY <1>5, <2>1 DEF ChannelRecord
  <2>4. ASSUME NEW s \in Stream PROVE Accounting(d, s) /\ w[s] \in Seq(ItemType)
    <3>1. d.sub = b.sub /\ d.waiting[s] = CheckWaitingList(b.waiting[s], k.ack)
      BY <1>5, <2>2, <2>3 DEF SameEnds
    <3> QED BY <1>0, <1>1, <2>2, <3>1, CheckWaitingAccounting
  <2>5. w \in [Stream -> Seq(ItemType)]
    <3>1. w = [s \in Stream |-> w[s]]
      BY DEF w
    <3> QED BY <2>4, <3>1
  <2>6. d \in ChannelRecord
    BY <1>0, <1>5, <2>1, <2>5 DEF ChannelRecord
  <2>7. d \in ChannelType
    BY <1>6, <2>3, <2>6, Fields DEF ChannelType
  <2> QED BY <1>1, <1>5, <1>8, <2>3, <2>4, <2>7 DEF Sound, SameEnds, d
<1> QED BY <1>7, <1>8

-----------------------------------------------------------------------------
(* Receiving the chunks and handing over what is complete.                 *)

BufferElement == {<<>>} \cup (Seq(Msg) \X Nat)

LEMMA OpenListTyped ==
  ASSUME NEW list \in ListType, NEW c \in ChunkType, c.num # 0
  PROVE  OpenList(list, c) \in ListType
<1>1. c.total \in Nat \ {0} /\ c.file \in BOOLEAN
  BY DEF ChunkType, NoChunk
<1>2. CASE c.start = 0
  <2> DEFINE buf == [n \in 1 .. c.total |-> <<>>]
             l == [open |-> TRUE, total |-> c.total, acked |-> 0, file |-> c.file, buf |-> buf]
  <2>1. buf \in Seq(BufferElement) /\ Len(buf) = c.total
    <3>1. buf \in [1 .. c.total -> BufferElement]
      BY DEF BufferElement
    <3> HIDE DEF buf
    <3> QED BY <1>1, <3>1
  <2>2. OpenList(list, c) = l
    BY <1>2 DEF OpenList
  <2> HIDE DEF buf
  <2> QED BY <1>1, <2>1, <2>2 DEF ListType, BufferElement
<1>3. CASE c.start # 0
  BY <1>3 DEF OpenList
<1> QED BY <1>2, <1>3

LEMMA ReadTyped ==
  ASSUME NEW list \in ListType, NEW c \in ChunkType
  PROVE  ReadSubChannelData(list, c) \in ListType
<1> DEFINE l == OpenList(list, c)
           buf == [n \in 1 .. l.total |->
                     IF n - 1 \in c.start .. c.start + c.num - 1 THEN <<c.payload, n>> ELSE l.buf[n]]
<1>1. CASE c.num = 0
  BY <1>1 DEF ReadSubChannelData
<1>2. CASE c.num # 0 /\ ~Readable(list, c)
  BY <1>2, OpenListTyped DEF ReadSubChannelData
<1>3. CASE c.num # 0 /\ Readable(list, c)
  <2>1. l \in ListType /\ l.open
    BY <1>3, OpenListTyped DEF Readable
  <2>2. c.num \in Nat /\ c.payload \in Seq(Msg)
    BY <1>3, FragmentAssumption DEF ChunkType, NoChunk, FragmentCount
  <2>3. l.total \in Nat /\ l.acked \in Nat /\ l.total > 0 /\ Len(l.buf) = l.total
          /\ l.buf \in Seq(BufferElement)
    BY <2>1 DEF ListType, BufferElement
  <2>4. ReadSubChannelData(list, c) = [l EXCEPT !.acked = l.acked + c.num, !.buf = buf]
    BY <1>3, <2>1 DEF ReadSubChannelData, ListType
  <2> HIDE DEF l
  <2>5. \A n \in 1 .. l.total : buf[n] \in BufferElement
    <3>1. \A n \in 1 .. l.total : l.buf[n] \in BufferElement
      BY <2>3
    <3>2. \A n \in 1 .. l.total : <<c.payload, n>> \in BufferElement
      BY <2>2 DEF BufferElement
    <3> QED BY <3>1, <3>2
  <2>6. buf \in Seq(BufferElement) /\ Len(buf) = l.total
    <3>1. buf \in [1 .. l.total -> BufferElement]
      BY <2>5
    <3> HIDE DEF buf
    <3> QED BY <2>3, <3>1
  <2> DEFINE acked == l.acked + c.num
  <2>7. acked \in Nat
    BY <2>2, <2>3
  <2> HIDE DEF buf, acked
  <2>8. [l EXCEPT !.acked = acked, !.buf = buf] \in ListType
    BY <2>1, <2>3, <2>6, <2>7 DEF ListType, BufferElement
  <2> QED BY <2>4, <2>8 DEF acked
<1> QED BY <1>1, <1>2, <1>3

\* A change of the receive lists alone.
LEMMA RecvSound ==
  ASSUME NEW ch, Sound(ch), NEW recv \in [Stream -> ListType]
  PROVE  Sound([ch EXCEPT !.recv = recv]) /\ SameEnds([ch EXCEPT !.recv = recv], ch)
<1> DEFINE d == [ch EXCEPT !.recv = recv]
<1>0. ch \in ChannelType /\ ch \in ChannelRecord
  BY DEF Sound, ChannelType
<1>1. d \in ChannelRecord /\ d.stream = ch.stream /\ d.streamSize = ch.streamSize
        /\ d.waiting = ch.waiting /\ d.recv = recv
  BY <1>0 DEF ChannelRecord
<1>2. SameEnds(d, ch)
  BY <1>0 DEF ChannelRecord, SameEnds
<1> HIDE DEF d
<1>3. d \in ChannelType
  BY <1>0, <1>1, Fields DEF ChannelType
<1>4. ASSUME NEW s \in Stream PROVE Accounting(d, s)
  <2>1. d.waiting[s] = ch.waiting[s] /\ d.sub = ch.sub /\ Accounting(ch, s)
    BY <1>1, <1>2 DEF SameEnds, Sound
  <2>2. Carrying(d, s) = Carrying(ch, s)
    BY <2>1 DEF Carrying
  <2> QED BY <2>1, <2>2, SameCarrying
<1> QED BY <1>2, <1>3, <1>4 DEF Sound, d

LEMMA ReadAllSound ==
  ASSUME NEW ch, Sound(ch), NEW k \in DatagramType
  PROVE  Sound(ReadAll(ch, k)) /\ SameEnds(ReadAll(ch, k), ch)
<1> DEFINE recv == [s \in Stream |->
                      IF s = 0 \/ ReadOk(ch.recv[0], k.chunk[0])
                      THEN ReadSubChannelData(ch.recv[s], k.chunk[s]) ELSE ch.recv[s]]
<1>1. ReadAll(ch, k) = [ch EXCEPT !.recv = recv]
  BY DEF ReadAll
<1>2. \A s \in Stream : ch.recv[s] \in ListType /\ k.chunk[s] \in ChunkType
  BY Fields DEF Sound, DatagramType
<1>3. recv \in [Stream -> ListType]
  BY <1>2, ReadTyped
<1> HIDE DEF recv
<1> QED BY <1>1, <1>3, RecvSound

\* What handlers may get.
LEMMA ContentsTyped ==
  ASSUME NEW list \in ListType, list.open
  PROVE  Contents(list) \in Seq(Msg \cup {Garbage})
<1>1. /\ list.total \in Nat /\ list.total > 0 /\ Len(list.buf) = list.total
      /\ list.buf \in Seq(BufferElement)
  BY DEF ListType, BufferElement
<1>2. list.buf[1] \in BufferElement
  BY <1>1
<1>3. CASE \A n \in 1 .. list.total : list.buf[n] # <<>> /\ list.buf[n] = <<list.buf[1][1], n>>
  <2>1. list.buf[1] # <<>>
    BY <1>1, <1>3
  <2>2. list.buf[1][1] \in Seq(Msg)
    BY <1>2, <2>1 DEF BufferElement
  <2>3. Contents(list) = list.buf[1][1]
    BY <1>3 DEF Contents
  <2> QED BY <2>2, <2>3
<1>4. CASE ~ \A n \in 1 .. list.total : list.buf[n] # <<>> /\ list.buf[n] = <<list.buf[1][1], n>>
  <2>1. Contents(list) = <<Garbage>>
    BY <1>4 DEF Contents
  <2> QED BY <2>1
<1> QED BY <1>3, <1>4

LEMMA ProcessedTyped ==
  ASSUME NEW msgs \in Seq(Msg \cup {Garbage})
  PROVE  Processed(msgs) \in Seq(Msg \cup {Garbage})
<1> DEFINE stop == {n \in 1 .. Len(msgs) : Stops(msgs[n])}
           last == MinOf(stop)
<1>1. CASE stop = {}
  BY <1>1 DEF Processed
<1>2. CASE stop # {}
  <2>1. stop \in SUBSET Nat
    OBVIOUS
  <2>2. last \in stop
    BY <1>2, <2>1, LeastElement
  <2>3. last \in 1 .. Len(msgs)
    BY <2>2
  <2>4. Processed(msgs) = SubSeq(msgs, 1, last)
    BY <1>2 DEF Processed
  <2> HIDE DEF last, stop
  <2>5. \A i \in 1 .. last : msgs[i] \in Msg \cup {Garbage}
    BY <2>3
  <2> QED BY <2>3, <2>4, <2>5, SubSeqProperties
<1> QED BY <1>1, <1>2

LEMMA HandledTyped ==
  ASSUME NEW list \in ListType, list.open, NEW got
  PROVE  Handled(list, got) \in Seq(Msg \cup {Garbage})
BY ContentsTyped, ProcessedTyped DEF Handled

\* CheckReceivingList hands over messages and either leaves the protocol state
\* alone or clears the channel.
LEMMA CheckReceivingSound ==
  ASSUME NEW p \in Peer, NEW ch, Sound(ch), NEW s \in Stream, NEW got
  PROVE  /\ Sound(CheckReceivingList(p, ch, s, got)[1])
         /\ CheckReceivingList(p, ch, s, got)[2] \in Seq(Msg \cup {Garbage})
         /\ \/ SameEnds(CheckReceivingList(p, ch, s, got)[1], ch)
            \/ SameEnds(CheckReceivingList(p, ch, s, got)[1], Clear(ch))
<1> DEFINE list == ch.recv[s]
           msgs == Handled(list, got)
           last == msgs[Len(msgs)]
           done == [ch EXCEPT !.recv[s].open = FALSE, !.recv[s].buf = <<>>]
           result == CheckReceivingList(p, ch, s, got)
<1>0. list \in ListType /\ ch.recv \in [Stream -> ListType]
  BY Fields DEF Sound
<1>1. Complete(list) => msgs \in Seq(Msg \cup {Garbage})
  BY <1>0, HandledTyped DEF Complete
<1>2. Sound(done) /\ SameEnds(done, ch)
  <2> DEFINE l == [list EXCEPT !.open = FALSE, !.buf = <<>>]
             recv == [ch.recv EXCEPT ![s] = l]
  <2>1. l \in ListType
    <3>1. <<>> \in Seq(BufferElement)
      OBVIOUS
    <3> QED BY <1>0, <3>1 DEF ListType, BufferElement
  <2>2. done = [ch EXCEPT !.recv = recv]
    BY <1>0 DEF Sound, ChannelType, ChannelRecord, ListType
  <2> HIDE DEF l
  <2>3. recv \in [Stream -> ListType]
    BY <1>0, <2>1
  <2> HIDE DEF recv, done
  <2> QED BY <2>2, <2>3, RecvSound
<1>3. SameEnds(ch, ch) /\ <<>> \in Seq(Msg \cup {Garbage})
  BY DEF SameEnds
<1>4. Sound(ClearAndSignon(p, ch)) /\ SameEnds(ClearAndSignon(p, ch), Clear(ch))
  BY ClearAndSignonSound
<1>5. \/ result = <<ch, <<>>, ~TooMany(list)>>
      \/ Complete(list) /\ result = <<ClearAndSignon(p, ch), msgs, FALSE>>
      \/ Complete(list) /\ result = <<ch, msgs, FALSE>>
      \/ Complete(list) /\ result = <<done, msgs, TRUE>>
  <2>1. CASE ~Complete(list)
    BY <2>1 DEF CheckReceivingList
  <2>2. CASE Complete(list) /\ msgs # <<>> /\ last \in Clearing
    BY <2>2 DEF CheckReceivingList
  <2>3. CASE Complete(list) /\ msgs # <<>> /\ last \in Failing \ Clearing
    BY <2>3 DEF CheckReceivingList
  <2>4. CASE Complete(list) /\ ~(msgs # <<>> /\ last \in Clearing)
                            /\ ~(msgs # <<>> /\ last \in Failing \ Clearing)
    BY <2>4 DEF CheckReceivingList
  <2> QED BY <2>1, <2>2, <2>3, <2>4
<1> HIDE DEF result, msgs, done, list
<1>6. CASE result = <<ch, <<>>, ~TooMany(list)>>
  BY <1>3, <1>6 DEF result
<1>7. CASE Complete(list) /\ result = <<ClearAndSignon(p, ch), msgs, FALSE>>
  BY <1>1, <1>4, <1>7 DEF result
<1>8. CASE Complete(list) /\ result = <<ch, msgs, FALSE>>
  BY <1>1, <1>3, <1>8 DEF result
<1>9. CASE Complete(list) /\ result = <<done, msgs, TRUE>>
  BY <1>1, <1>2, <1>9 DEF result
<1> QED BY <1>5, <1>6, <1>7, <1>8, <1>9

\* The channel afterwards is the channel before, or the channel cleared.
MayClear(a, b) == SameEnds(b, a) \/ SameEnds(b, Clear(a))

\* Reading the chunks of datagram k flips at most its subchannel's bit.
MayFlip(a, b, k) ==
  /\ b.outSeq = a.outSeq /\ b.inSeq = a.inSeq /\ b.outRel = a.outRel /\ b.sub = a.sub
  /\ \/ b.inRel = a.inRel
     \/ k.subch # -1 /\ b.inRel = FlipBit(a.inRel, k.subch)

LEMMA FlipSound ==
  ASSUME NEW ch, Sound(ch), NEW i \in Subchannels
  PROVE  LET d == [ch EXCEPT !.inRel = FlipBit(@, i)]
         IN  /\ Sound(d) /\ d.outSeq = ch.outSeq /\ d.inSeq = ch.inSeq
             /\ d.outRel = ch.outRel /\ d.sub = ch.sub /\ d.inRel = FlipBit(ch.inRel, i)
<1> DEFINE d == [ch EXCEPT !.inRel = FlipBit(@, i)]
           rel == FlipBit(ch.inRel, i)
<1>0. ch \in ChannelType /\ ch \in ChannelRecord
  BY DEF Sound, ChannelType
<1>1. rel \in SUBSET Subchannels
  BY <1>0, Fields, FlipBitType
<1>2. d = [ch EXCEPT !.inRel = rel]
  BY <1>0 DEF ChannelRecord
<1> HIDE DEF d, rel
<1>3. d \in ChannelRecord /\ d.stream = ch.stream /\ d.streamSize = ch.streamSize
        /\ d.waiting = ch.waiting /\ d.outSeq = ch.outSeq /\ d.inSeq = ch.inSeq
        /\ d.outRel = ch.outRel /\ d.sub = ch.sub /\ d.inRel = rel
  BY <1>0, <1>1, <1>2 DEF ChannelRecord
<1>4. d \in ChannelType
  BY <1>0, <1>3, Fields DEF ChannelType
<1>5. ASSUME NEW s \in Stream PROVE Accounting(d, s)
  <2>1. d.waiting[s] = ch.waiting[s] /\ d.sub = ch.sub /\ Accounting(ch, s)
    BY <1>3 DEF Sound
  <2>2. Carrying(d, s) = Carrying(ch, s)
    BY <2>1 DEF Carrying
  <2> QED BY <2>1, <2>2, SameCarrying
<1> QED BY <1>3, <1>4, <1>5 DEF Sound, d, rel

\* What a packet that is not stale does to the receiving channel.
LEMMA PacketSound ==
  ASSUME NEW p \in Peer, NEW k \in DatagramType, chan \in [Peer -> ChannelType],
         Sound(chan[p]), ProcessPacket(p, k)
  PROVE  \E f, g, d :
           /\ Sound(f) /\ Sound(g) /\ Sound(d)
           /\ MayFlip(ProcessPacketHeader(chan[p], k), f, k)
           /\ MayClear(f, g) /\ MayClear(g, d)
           /\ chan' = [chan EXCEPT ![p] = d]
<1> DEFINE h    == ProcessPacketHeader(chan[p], k)
           read == ReadAll(h, k)
           flip == [read EXCEPT !.inRel = FlipBit(@, k.subch)]
           got0 == CheckReceivingList(p, flip, 0, received[k.from][0])
           got1 == CheckReceivingList(p, got0[1], 1, received[k.from][1])
           reliable == Invalid(chan[p], k) = {} /\ k.subch # -1
<1>1. Sound(h)
  BY HeaderSound
<1>2. Sound(read) /\ SameEnds(read, h)
  BY <1>1, ReadAllSound
<1>3. MayFlip(h, h, k) /\ MayFlip(h, read, k)
  BY <1>2 DEF MayFlip, SameEnds
<1>4. \A a : MayClear(a, a)
  BY DEF MayClear, SameEnds
<1>5. \/ chan' = [chan EXCEPT ![p] = h]
      \/ chan' = [chan EXCEPT ![p] = read]
      \/ reliable /\ chan' = [chan EXCEPT ![p] = got0[1]]
      \/ reliable /\ chan' = [chan EXCEPT ![p] = got1[1]]
  BY DEF ProcessPacket
<1> HIDE DEF h, read, got0, got1
<1>6. CASE chan' = [chan EXCEPT ![p] = h]
  BY <1>1, <1>3, <1>4, <1>6 DEF h
<1>7. CASE chan' = [chan EXCEPT ![p] = read]
  BY <1>1, <1>2, <1>3, <1>4, <1>7 DEF h
<1>8. ASSUME reliable
      PROVE  /\ Sound(flip) /\ MayFlip(h, flip, k)
             /\ Sound(got0[1]) /\ MayClear(flip, got0[1])
             /\ Sound(got1[1]) /\ MayClear(got0[1], got1[1])
  <2>1. k.subch \in Subchannels
    BY <1>8 DEF DatagramType
  <2>2. Sound(flip) /\ MayFlip(h, flip, k)
    <3>1. /\ Sound(flip) /\ flip.outSeq = read.outSeq /\ flip.inSeq = read.inSeq
          /\ flip.outRel = read.outRel /\ flip.sub = read.sub
          /\ flip.inRel = FlipBit(read.inRel, k.subch)
      BY <1>2, <2>1, FlipSound
    <3> HIDE DEF flip
    <3> QED BY <1>2, <1>8, <3>1 DEF MayFlip, SameEnds
  <2> HIDE DEF flip
  <2>3. Sound(got0[1]) /\ MayClear(flip, got0[1])
    BY <2>2, CheckReceivingSound, Streams DEF MayClear, got0, flip
  <2>4. Sound(got1[1]) /\ MayClear(got0[1], got1[1])
    BY <2>3, CheckReceivingSound, Streams DEF MayClear, got1
  <2> QED BY <2>2, <2>3, <2>4
<1> HIDE DEF flip
<1>9. CASE reliable /\ chan' = [chan EXCEPT ![p] = got0[1]]
  <2>1. /\ Sound(flip) /\ MayFlip(h, flip, k)
        /\ Sound(got0[1]) /\ MayClear(flip, got0[1])
    BY <1>8, <1>9
  <2> QED BY <1>4, <1>9, <2>1 DEF h
<1>10. CASE reliable /\ chan' = [chan EXCEPT ![p] = got1[1]]
  <2>1. /\ Sound(flip) /\ MayFlip(h, flip, k)
        /\ Sound(got0[1]) /\ MayClear(flip, got0[1])
        /\ Sound(got1[1]) /\ MayClear(got0[1], got1[1])
    BY <1>8, <1>10
  <2> QED BY <1>10, <2>1 DEF h
<1> QED BY <1>5, <1>6, <1>7, <1>9, <1>10

-----------------------------------------------------------------------------
(* The invariant.                                                          *)

TypeInv == TypeOK /\ AckAccounting

LEMMA TypeInvSound ==
  ASSUME TypeInv
  PROVE  /\ chan \in [Peer -> ChannelType] /\ \A p \in Peer : Sound(chan[p])
         /\ net \subseteq DatagramType
         /\ sent \in [Peer -> [Stream -> Seq(Msg)]]
         /\ received \in [Peer -> [Stream -> Seq(Msg \cup {Garbage})]]
         /\ clears \in [Peer -> Nat]
BY DEF TypeInv, TypeOK, AckAccounting, Sound

\* One channel changes, to a sound one.
LEMMA ChannelStep ==
  ASSUME TypeInv, NEW p \in Peer, NEW d, Sound(d), chan' = [chan EXCEPT ![p] = d],
         net' \subseteq DatagramType,
         sent' \in [Peer -> [Stream -> Seq(Msg)]],
         received' \in [Peer -> [Stream -> Seq(Msg \cup {Garbage})]],
         clears' \in [Peer -> Nat]
  PROVE  TypeInv'
<1>1. chan \in [Peer -> ChannelType] /\ d \in ChannelType
  BY TypeInvSound DEF Sound
<1>2. chan' \in [Peer -> ChannelType]
  BY <1>1
<1>3. ASSUME NEW q \in Peer, NEW s \in Stream PROVE Accounting(chan'[q], s)
  <2>1. CASE q = p
    BY <1>1, <2>1 DEF Sound
  <2>2. CASE q # p
    BY <1>1, <2>2 DEF TypeInv, AckAccounting
  <2> QED BY <2>1, <2>2
<1>4. AckAccounting'
  BY <1>3 DEF AckAccounting
<1> QED BY <1>2, <1>4 DEF TypeInv, TypeOK

LEMMA InitType == Init => TypeInv
<1> SUFFICES ASSUME Init PROVE TypeInv
  OBVIOUS
<1>1. NewChannel \in ChannelRecord
  <2>1. EmptyList \in ListType /\ FreeSub \in SubchannelType
    BY EmptyListTyped, FreeSubTyped
  <2>2. [s \in Stream |-> <<>>] \in [Stream -> Seq(ItemType)] /\ <<>> \in Seq(Msg)
    OBVIOUS
  <2>3. [s \in Stream |-> EmptyList] \in [Stream -> ListType]
    BY <2>1
  <2>4. [i \in Subchannels |-> FreeSub] \in [Subchannels -> SubchannelType]
    BY <2>1
  <2>5. {} \in SUBSET Subchannels /\ 0 \in Nat /\ 1 \in Nat /\ 0 \in Int
    OBVIOUS
  <2> HIDE DEF EmptyList, FreeSub
  <2> QED BY <2>2, <2>3, <2>4, <2>5 DEF NewChannel, ChannelRecord
<1>2. NewChannel \in ChannelType
  BY <1>1 DEF ChannelType, NewChannel
<1>3. ASSUME NEW s \in Stream PROVE Accounting(NewChannel, s)
  <2>1. Carrying(NewChannel, s) = {}
    BY DEF Carrying, NewChannel, FreeSub
  <2>2. NewChannel.waiting[s] = <<>>
    BY DEF NewChannel
  <2> QED BY <2>1, <2>2 DEF Accounting
<1>4. chan = [p \in Peer |-> NewChannel] /\ net = {}
        /\ sent = [p \in Peer |-> [s \in Stream |-> <<>>]]
        /\ received = [p \in Peer |-> [s \in Stream |-> <<>>]]
        /\ clears = [p \in Peer |-> 0]
  BY DEF Init
<1>5. AckAccounting
  BY <1>3, <1>4 DEF AckAccounting
<1>6. <<>> \in Seq(Msg) /\ <<>> \in Seq(Msg \cup {Garbage})
  OBVIOUS
<1>7. TypeOK
  BY <1>2, <1>4, <1>6 DEF TypeOK
<1> QED BY <1>5, <1>7 DEF TypeInv

\* Appending to a history.
LEMMA SentAppend ==
  ASSUME sent \in [Peer -> [Stream -> Seq(Msg)]], NEW p \in Peer, NEW s \in Stream, NEW m \in Msg
  PROVE  [sent EXCEPT ![p][s] = Append(@, m)] \in [Peer -> [Stream -> Seq(Msg)]]
<1>1. Append(sent[p][s], m) \in Seq(Msg)
  OBVIOUS
<1>2. [sent[p] EXCEPT ![s] = Append(sent[p][s], m)] \in [Stream -> Seq(Msg)]
  BY <1>1
<1> QED BY <1>2

LEMMA ReceivedConcat ==
  ASSUME NEW r \in [Peer -> [Stream -> Seq(Msg \cup {Garbage})]], NEW p \in Peer, NEW s \in Stream,
         NEW msgs \in Seq(Msg \cup {Garbage})
  PROVE  [r EXCEPT ![p][s] = @ \o msgs] \in [Peer -> [Stream -> Seq(Msg \cup {Garbage})]]
<1>1. r[p][s] \o msgs \in Seq(Msg \cup {Garbage})
  OBVIOUS
<1>2. [r[p] EXCEPT ![s] = r[p][s] \o msgs] \in [Stream -> Seq(Msg \cup {Garbage})]
  BY <1>1
<1> QED BY <1>2

LEMMA SendNetMsgType ==
  ASSUME TypeInv, NEW p \in Peer, NEW m \in Msg, SendNetMsg(p, m)
  PROVE  TypeInv'
<1> DEFINE d == WriteToBuffer(chan[p], m)
<1>1. Sound(d)
  BY TypeInvSound, WriteSound
<1>2. chan' = [chan EXCEPT ![p] = d] /\ net' = net /\ received' = received /\ clears' = clears
        /\ sent' = [sent EXCEPT ![p][0] = Append(@, m)]
  BY DEF SendNetMsg
<1> HIDE DEF d
<1>3. sent' \in [Peer -> [Stream -> Seq(Msg)]]
  BY <1>2, TypeInvSound, SentAppend, Streams
<1> QED BY <1>1, <1>2, <1>3, TypeInvSound, ChannelStep

LEMMA SendFileType ==
  ASSUME TypeInv, NEW p \in Peer, NEW m \in Msg, SendFile(p, m)
  PROVE  TypeInv'
<1> DEFINE d == [chan[p] EXCEPT !.waiting[1] = Append(@, Item(<<m>>, Size[m], m \in FileMsg))]
<1>1. Sound(d)
  <2>1. Sound(chan[p]) /\ (m \in FileMsg) \in BOOLEAN
    BY TypeInvSound
  <2> QED BY <2>1, EnqueueSound, Streams
<1>2. chan' = [chan EXCEPT ![p] = d] /\ net' = net /\ received' = received /\ clears' = clears
        /\ sent' = [sent EXCEPT ![p][1] = Append(@, m)]
  BY TypeInvSound DEF SendFile
<1> HIDE DEF d
<1>3. sent' \in [Peer -> [Stream -> Seq(Msg)]]
  BY <1>2, TypeInvSound, SentAppend, Streams
<1> QED BY <1>1, <1>2, <1>3, TypeInvSound, ChannelStep

LEMMA SetChokedType ==
  ASSUME TypeInv, NEW p \in Peer, SetChoked(p)
  PROVE  TypeInv'
<1> DEFINE d == [chan[p] EXCEPT !.outSeq = @ + 1, !.choked = @ + 1]
<1>1. Sound(d)
  BY TypeInvSound, ChokedSound
<1>2. chan' = [chan EXCEPT ![p] = d] /\ UNCHANGED <<net, sent, received, clears>>
  BY TypeInvSound DEF SetChoked
<1> HIDE DEF d
<1> QED BY <1>1, <1>2, TypeInvSound, ChannelStep

LEMMA SendDatagramType ==
  ASSUME TypeInv, NEW p \in Peer, SendDatagram(p)
  PROVE  TypeInv'
<1>1. PICK ch \in CompressFragments(CreateFragmentsFromBuffer(chan[p])) :
        /\ chan' = [chan EXCEPT ![p] = AfterSend(UpdateSubChannels(ch))]
        /\ net'  = net \cup {Datagram(p, UpdateSubChannels(ch))}
  BY DEF SendDatagram
<1>2. Sound(ch)
  BY TypeInvSound, CreateSound, CompressSound
<1> DEFINE ready == UpdateSubChannels(ch)
           d == AfterSend(ready)
<1>3. Sound(ready)
  BY <1>2, UpdateSound
<1>4. Sound(d) /\ Datagram(p, ready) \in DatagramType
  BY <1>3, AfterSendSound, DatagramTyped
<1>5. net' \subseteq DatagramType /\ UNCHANGED <<sent, received, clears>>
  BY <1>1, <1>4, TypeInvSound DEF SendDatagram
<1>6. chan' = [chan EXCEPT ![p] = d]
  BY <1>1
<1> HIDE DEF d
<1> QED BY <1>4, <1>5, <1>6, TypeInvSound, ChannelStep

LEMMA ClearChannelType ==
  ASSUME TypeInv, NEW p \in Peer, ClearChannel(p)
  PROVE  TypeInv'
<1> DEFINE d == ClearAndSignon(p, chan[p])
<1>1. Sound(d)
  BY TypeInvSound, ClearAndSignonSound
<1>2. chan' = [chan EXCEPT ![p] = d] /\ net' = net /\ received' = received
        /\ sent' = [sent EXCEPT ![p][0] = Append(@, Signon[p])]
        /\ clears' = [clears EXCEPT ![p] = @ + 1]
  BY TypeInvSound DEF ClearChannel
<1> HIDE DEF d
<1>3. sent' \in [Peer -> [Stream -> Seq(Msg)]]
  BY <1>2, TypeInvSound, SentAppend, Streams, SignonTyped
<1>4. clears' \in [Peer -> Nat]
  BY <1>2, TypeInvSound
<1> QED BY <1>1, <1>2, <1>3, <1>4, TypeInvSound, ChannelStep

LEMMA ProcessPacketType ==
  ASSUME TypeInv, NEW p \in Peer, NEW k \in net, ProcessPacket(p, k)
  PROVE  TypeInv'
<1> DEFINE h    == ProcessPacketHeader(chan[p], k)
           read == ReadAll(h, k)
           flip == [read EXCEPT !.inRel = FlipBit(@, k.subch)]
           q    == k.from
           got0 == CheckReceivingList(p, flip, 0, received[q][0])
           got1 == CheckReceivingList(p, got0[1], 1, received[q][1])
           reliable == Invalid(chan[p], k) = {} /\ k.subch # -1
<1>1. k \in DatagramType /\ q \in Peer
  BY TypeInvSound DEF DatagramType
<1>2. PICK d : Sound(d) /\ chan' = [chan EXCEPT ![p] = d]
  <2>1. Sound(chan[p]) /\ chan \in [Peer -> ChannelType]
    BY TypeInvSound
  <2> QED BY <1>1, <2>1, PacketSound
<1>3. net' \subseteq DatagramType /\ clears' \in [Peer -> Nat]
  BY TypeInvSound DEF ProcessPacket
<1>4. sent' \in [Peer -> [Stream -> Seq(Msg)]]
  <2>1. sent' = sent \/ sent' = [sent EXCEPT ![p][0] = Append(@, Signon[p])]
    BY DEF ProcessPacket
  <2>2. sent \in [Peer -> [Stream -> Seq(Msg)]] /\ Signon[p] \in Msg /\ 0 \in Stream
    BY TypeInvSound, Streams, SignonTyped
  <2>3. [sent EXCEPT ![p][0] = Append(@, Signon[p])] \in [Peer -> [Stream -> Seq(Msg)]]
    BY <2>2, SentAppend
  <2> QED BY <2>1, <2>2, <2>3
<1>5. received' \in [Peer -> [Stream -> Seq(Msg \cup {Garbage})]]
  <2>1. \/ received' = received
        \/ reliable /\ received' = [received EXCEPT ![q][0] = @ \o got0[2]]
        \/ reliable /\ received' = [received EXCEPT ![q][0] = @ \o got0[2], ![q][1] = @ \o got1[2]]
    BY DEF ProcessPacket
  <2> HIDE DEF got0, got1, q, flip
  <2>2. ASSUME reliable PROVE got0[2] \in Seq(Msg \cup {Garbage}) /\ got1[2] \in Seq(Msg \cup {Garbage})
    <3>1. Sound(read)
      BY <1>1, TypeInvSound, HeaderSound, ReadAllSound
    <3>2. k.subch \in Subchannels
      BY <1>1, <2>2 DEF DatagramType
    <3>3. Sound(flip)
      BY <3>1, <3>2, FlipSound DEF flip
    <3>4. Sound(got0[1]) /\ got0[2] \in Seq(Msg \cup {Garbage})
      BY <3>3, CheckReceivingSound, Streams DEF got0
    <3>5. got1[2] \in Seq(Msg \cup {Garbage})
      BY <3>4, CheckReceivingSound, Streams DEF got1
    <3> QED BY <3>4, <3>5
  <2>3. received \in [Peer -> [Stream -> Seq(Msg \cup {Garbage})]]
    BY TypeInvSound
  <2>4. CASE received' = received
    BY <2>3, <2>4
  <2>5. CASE reliable /\ received' = [received EXCEPT ![q][0] = @ \o got0[2]]
    BY <1>1, <2>2, <2>3, <2>5, ReceivedConcat, Streams
  <2>6. CASE reliable /\ received' = [received EXCEPT ![q][0] = @ \o got0[2], ![q][1] = @ \o got1[2]]
    <3> DEFINE r == [received EXCEPT ![q][0] = @ \o got0[2]]
    <3>1. r \in [Peer -> [Stream -> Seq(Msg \cup {Garbage})]]
      BY <1>1, <2>2, <2>3, <2>6, ReceivedConcat, Streams
    <3>2. received' = [r EXCEPT ![q][1] = @ \o got1[2]]
      BY <2>6
    <3>3. got1[2] \in Seq(Msg \cup {Garbage}) /\ 1 \in Stream
      BY <2>2, <2>6, Streams
    <3> HIDE DEF r
    <3>4. [r EXCEPT ![q][1] = @ \o got1[2]] \in [Peer -> [Stream -> Seq(Msg \cup {Garbage})]]
      BY <1>1, <3>1, <3>3, ReceivedConcat
    <3> QED BY <3>2, <3>4
  <2> QED BY <2>1, <2>4, <2>5, <2>6
<1> HIDE DEF h, read, flip, q, got0, got1, reliable
<1> QED BY <1>2, <1>3, <1>4, <1>5, ChannelStep, Zenon

LEMMA StepType == TypeInv /\ [Next]_vars => TypeInv'
<1> SUFFICES ASSUME TypeInv, [Next]_vars PROVE TypeInv'
  OBVIOUS
<1>1. CASE UNCHANGED vars
  BY <1>1 DEF vars, TypeInv, TypeOK, AckAccounting
<1>2. CASE Next
  <2>1. PICK p \in Peer :
          \/ \E m \in Msg : SendNetMsg(p, m)
          \/ \E m \in Msg : SendFile(p, m)
          \/ SetChoked(p)
          \/ SendDatagram(p)
          \/ ClearChannel(p)
          \/ \E k \in net : ProcessPacket(p, k)
    BY <1>2 DEF Next
  <2> QED BY <2>1, SendNetMsgType, SendFileType, SetChokedType, SendDatagramType,
             ClearChannelType, ProcessPacketType
<1> QED BY <1>1, <1>2

\* Every field keeps its type, whatever is lost, repeated, reordered, cleared
\* or refused: no datagram carries data of an item that is gone.
THEOREM TypeCorrect == Spec => []TypeOK
<1>1. TypeInv => TypeOK
  BY DEF TypeInv
<1> QED BY InitType, StepType, <1>1, PTL DEF Spec

\* The fragment counters of the head items agree with the subchannels at all
\* times (the assertions at net_chan.cpp:1863 and 2738 never fail).
THEOREM AccountingCorrect == Spec => []AckAccounting
<1>1. TypeInv => AckAccounting
  BY DEF TypeInv
<1> QED BY InitType, StepType, <1>1, PTL DEF Spec

-----------------------------------------------------------------------------
(* The invariant on values.                                                *)

\* The datagrams of q in N that channel a would accept.
Accepts(q, a, N) == {k \in N : k.from = q /\ k.seq > a.inSeq}

\* The bit of subchannel i is the same at sender a and at receiver b.
SameBit(a, b, i) == (i \in a.outRel) <=> (i \in b.inRel)

Order(p, q, a, b, N) ==
  /\ a.inSeq < b.outSeq /\ b.inSeq < a.outSeq
  /\ \A k \in N : k.from = p => k.seq < a.outSeq /\ k.ack <= a.inSeq
  /\ \A k \in N : k.from = q => k.seq < b.outSeq /\ k.ack <= b.inSeq
  /\ \A k, l \in N : k.from = l.from /\ k.seq <= l.seq => k.ack <= l.ack

\* Subchannel i of sender p towards q carries nothing.
Idle(p, q, a, b, N, i) ==
  /\ a.sub[i].seq = -1
  /\ SameBit(a, b, i)
  /\ \A k \in Accepts(q, a, N) : Matches(a, k, i)
  /\ \A k \in Accepts(p, b, N) : k.subch # i

\* Its data is to be sent.
Ready(p, q, a, b, N, i) ==
  /\ ~SameBit(a, b, i)
  /\ \A k \in Accepts(q, a, N) : ~Matches(a, k, i)
  /\ \A k \in Accepts(p, b, N) : k.subch # i

\* Its data has been sent.
Underway(p, q, a, b, N, i) ==
  /\ a.sub[i].seq < a.outSeq
  /\ \A k \in Accepts(p, b, N) : k.subch = i => k.seq = a.sub[i].seq
  /\ SameBit(a, b, i) => a.sub[i].seq <= b.inSeq
  /\ \A k \in Accepts(q, a, N) :
       /\ Matches(a, k, i) => SameBit(a, b, i) /\ a.sub[i].seq <= k.ack
       /\ ~Matches(a, k, i) /\ a.sub[i].seq <= k.ack => ~SameBit(a, b, i)

Link(p, q, a, b, N, i) ==
  /\ a.sub[i].state = "FREE" => Idle(p, q, a, b, N, i)
  /\ a.sub[i].state = "TOSEND" => Ready(p, q, a, b, N, i)
  /\ a.sub[i].state \in {"WAITING", "DIRTY"} => Underway(p, q, a, b, N, i)

Links(p, q, a, b, N) == \A i \in Subchannels : Link(p, q, a, b, N, i)

Protocol(p, q, a, b, N) ==
  Order(p, q, a, b, N) /\ Links(p, q, a, b, N) /\ Links(q, p, b, a, N)

\* The facts about types that the argument needs.
Numbers(a) ==
  /\ a.outSeq \in Nat /\ a.inSeq \in Nat
  /\ \A i \in Subchannels : a.sub[i].seq \in Int
       /\ a.sub[i].state \in {"FREE", "TOSEND", "WAITING", "DIRTY"}
Stamps(N) == \A k \in N : k.seq \in Nat /\ k.ack \in Nat

LEMMA SoundNumbers ==
  ASSUME NEW ch, Sound(ch)
  PROVE  Numbers(ch)
<1>1. ch.outSeq \in Nat /\ ch.inSeq \in Nat /\ ch.sub \in [Subchannels -> SubchannelType]
  BY Fields DEF Sound
<1>2. \A i \in Subchannels : ch.sub[i].seq \in Int
        /\ ch.sub[i].state \in {"FREE", "TOSEND", "WAITING", "DIRTY"}
  BY <1>1 DEF SubchannelType
<1> QED BY <1>1, <1>2 DEF Numbers

LEMMA TypedStamps ==
  ASSUME NEW N \in SUBSET DatagramType
  PROVE  Stamps(N)
BY DEF Stamps, DatagramType

-----------------------------------------------------------------------------
(* Steps of p.                                                             *)

\* The invariant looks at the ends only.
LEMMA SameProtocol ==
  ASSUME NEW p, NEW q, NEW a, NEW b, NEW d, NEW N, Protocol(p, q, a, b, N), SameEnds(d, a)
  PROVE  Protocol(p, q, d, b, N)
BY DEF Protocol, Order, Links, Link, Idle, Ready, Underway, Accepts, SameBit, Matches, SameEnds

\* A frame is choked: only the next number changes.
LEMMA ChokedProtocol ==
  ASSUME NEW p, NEW q, NEW a, NEW b, NEW d, NEW N, Protocol(p, q, a, b, N),
         Numbers(a), Numbers(b), Stamps(N),
         d.outSeq = a.outSeq + 1, d.inSeq = a.inSeq, d.outRel = a.outRel,
         d.inRel = a.inRel, d.sub = a.sub
  PROVE  Protocol(p, q, d, b, N)
<1>1. Order(p, q, d, b, N)
  BY DEF Protocol, Order, Numbers, Stamps
<1>2. Links(p, q, d, b, N)
  BY DEF Protocol, Links, Link, Idle, Ready, Underway, Accepts, SameBit, Matches, Numbers
<1>3. Links(q, p, b, d, N)
  BY DEF Protocol, Links, Link, Idle, Ready, Underway, Accepts, SameBit, Matches, Numbers
<1> QED BY <1>1, <1>2, <1>3 DEF Protocol

\* A free subchannel takes data and flips its bit.
LEMMA TakeProtocol ==
  ASSUME NEW p, NEW q, NEW a, NEW b, NEW d, NEW N, Protocol(p, q, a, b, N),
         NEW i \in Subchannels, TakesInto(a, d, i)
  PROVE  Protocol(p, q, d, b, N)
<1>0. /\ a.sub[i].state = "FREE" /\ d.sub[i].state = "TOSEND"
      /\ \A j \in Subchannels \ {i} : d.sub[j] = a.sub[j]
      /\ d.outRel = FlipBit(a.outRel, i)
      /\ d.outSeq = a.outSeq /\ d.inSeq = a.inSeq /\ d.inRel = a.inRel
  BY DEF TakesInto
<1>1. Order(p, q, d, b, N)
  BY <1>0 DEF Protocol, Order
<1>2. Accepts(q, d, N) = Accepts(q, a, N)
  BY <1>0 DEF Accepts
<1>3. Link(p, q, d, b, N, i)
  <2>1. SameBit(d, b, i) <=> ~SameBit(a, b, i)
    BY <1>0 DEF SameBit, FlipBit
  <2>2. \A k \in N : Matches(d, k, i) <=> ~Matches(a, k, i)
    BY <1>0 DEF Matches, FlipBit
  <2>3. Idle(p, q, a, b, N, i)
    BY <1>0 DEF Protocol, Links, Link
  <2>4. Ready(p, q, d, b, N, i)
    BY <1>2, <2>1, <2>2, <2>3 DEF Idle, Ready, Accepts
  <2> QED BY <1>0, <2>4 DEF Link
<1>4. ASSUME NEW j \in Subchannels \ {i} PROVE Link(p, q, d, b, N, j)
  <2>1. d.sub[j] = a.sub[j] /\ (j \in d.outRel <=> j \in a.outRel)
    BY <1>0 DEF FlipBit
  <2>2. Link(p, q, a, b, N, j)
    BY DEF Protocol, Links
  <2> QED BY <1>0, <1>2, <2>1, <2>2 DEF Link, Idle, Ready, Underway, SameBit, Matches
<1>5. Links(q, p, b, d, N)
  BY <1>0, <1>2 DEF Protocol, Links, Link, Idle, Ready, Underway, SameBit
<1> QED BY <1>1, <1>3, <1>4, <1>5 DEF Protocol, Links

\* A datagram is sent, with the data of the first subchannel that has some.
LEMMA SendProtocol ==
  ASSUME NEW p, NEW q, NEW a, NEW b, NEW N, NEW k, Protocol(p, q, a, b, N), p # q,
         Sound(a), Numbers(b), Stamps(N),
         k = Datagram(p, a)
  PROVE  Protocol(p, q, AfterSend(a), b, N \cup {k})
<1> DEFINE d == AfterSend(a)
           M == N \cup {k}
           i == MinOf(ToSend(a))
<1>0. Numbers(a)
  BY SoundNumbers
<1>1. /\ d.outSeq = a.outSeq + 1 /\ d.inSeq = a.inSeq
      /\ d.outRel = a.outRel /\ d.inRel = a.inRel
      /\ ToSend(a) = {} => d.sub = a.sub
      /\ ToSend(a) # {} => d.sub = [a.sub EXCEPT ![i].state = "WAITING", ![i].seq = a.outSeq]
  BY AfterSendSound
<1>2. /\ k.from = p /\ k.seq = a.outSeq /\ k.ack = a.inSeq /\ k.rel = a.inRel
      /\ ToSend(a) = {} => k.subch = -1
      /\ ToSend(a) # {} => k.subch = i
  BY DEF Datagram
<1>3. a.sub \in [Subchannels -> SubchannelType]
  BY Fields DEF Sound
<1>4. ToSend(a) # {} => i \in Subchannels /\ a.sub[i].state = "TOSEND"
  <2>1. ToSend(a) \subseteq Subchannels
    BY DEF ToSend
  <2>2. ToSend(a) # {} => i \in ToSend(a)
    BY <2>1, FirstSubchannel
  <2> QED BY <2>2 DEF ToSend
<1>5. ToSend(a) # {} => /\ d.sub[i].state = "WAITING" /\ d.sub[i].seq = a.outSeq
                        /\ \A j \in Subchannels \ {i} : d.sub[j] = a.sub[j]
  <2> HIDE DEF i
  <2> QED BY <1>1, <1>3, <1>4 DEF SubchannelType
<1>6. \A j \in Subchannels : j \in Nat
  BY SubchannelsNat
<1> HIDE DEF d, i
<1>7. Order(p, q, d, b, M)
  <2>1. d.inSeq < b.outSeq /\ b.inSeq < d.outSeq
    BY <1>0, <1>1 DEF Protocol, Order, Numbers
  <2>2. \A l \in M : l.from = p => l.seq < d.outSeq /\ l.ack <= d.inSeq
    BY <1>0, <1>1, <1>2 DEF Protocol, Order, Numbers, Stamps
  <2>3. \A l \in M : l.from = q => l.seq < b.outSeq /\ l.ack <= b.inSeq
    BY <1>2 DEF Protocol, Order
  <2>4. \A l, m \in M : l.from = m.from /\ l.seq <= m.seq => l.ack <= m.ack
    BY <1>0, <1>2 DEF Protocol, Order, Numbers, Stamps
  <2> QED BY <2>1, <2>2, <2>3, <2>4 DEF Order
<1>8. Accepts(q, d, M) = Accepts(q, a, N)
  BY <1>1, <1>2 DEF Accepts
<1>9. Accepts(p, b, M) = Accepts(p, b, N) \cup {k}
  BY <1>0, <1>2 DEF Accepts, Protocol, Order, Numbers
<1>10. ASSUME NEW j \in Subchannels, ToSend(a) # {} => j # i PROVE Link(p, q, d, b, M, j)
  <2>1. d.sub[j] = a.sub[j] /\ k.subch # j /\ Link(p, q, a, b, N, j)
    BY <1>1, <1>2, <1>5, <1>6, <1>10 DEF Protocol, Links
  <2>2. a.sub[j].seq \in Int /\ a.outSeq \in Nat
        /\ a.sub[j].state \in {"FREE", "TOSEND", "WAITING", "DIRTY"}
    BY <1>0 DEF Numbers
  <2>3. SameBit(d, b, j) <=> SameBit(a, b, j)
    BY <1>1 DEF SameBit
  <2>4. \A l \in Accepts(q, d, M) : Matches(d, l, j) <=> Matches(a, l, j)
    BY <1>1 DEF Matches
  <2>5. CASE a.sub[j].state = "FREE"
    BY <1>8, <1>9, <2>1, <2>3, <2>4, <2>5 DEF Link, Idle
  <2>6. CASE a.sub[j].state = "TOSEND"
    BY <1>8, <1>9, <2>1, <2>3, <2>4, <2>6 DEF Link, Ready
  <2>7. CASE a.sub[j].state \in {"WAITING", "DIRTY"}
    <3>1. Underway(p, q, a, b, N, j)
      BY <2>1, <2>7 DEF Link
    <3>2. d.sub[j].seq < d.outSeq
      BY <1>1, <2>1, <2>2, <3>1 DEF Underway
    <3>3. Underway(p, q, d, b, M, j)
      BY <1>8, <1>9, <2>1, <2>3, <2>4, <3>1, <3>2 DEF Underway
    <3> QED BY <2>1, <2>7, <3>3 DEF Link
  <2> QED BY <2>2, <2>5, <2>6, <2>7
<1>11. ASSUME ToSend(a) # {} PROVE Link(p, q, d, b, M, i)
  <2>1. Ready(p, q, a, b, N, i) /\ i \in Subchannels
    BY <1>4, <1>11 DEF Protocol, Links, Link
  <2>2. d.sub[i].seq < d.outSeq
    BY <1>0, <1>1, <1>5, <1>11 DEF Numbers
  <2>3. \A l \in Accepts(p, b, M) : l.subch = i => l.seq = d.sub[i].seq
    BY <1>2, <1>5, <1>9, <1>11, <2>1 DEF Ready
  <2>4. ~SameBit(d, b, i) /\ \A l \in Accepts(q, d, M) : ~Matches(d, l, i)
    BY <1>1, <1>8, <2>1 DEF Ready, SameBit, Matches
  <2>5. Underway(p, q, d, b, M, i)
    BY <2>2, <2>3, <2>4 DEF Underway
  <2> QED BY <1>5, <1>11, <2>5 DEF Link
<1>12. Links(p, q, d, b, M)
  BY <1>10, <1>11 DEF Links
<1>13. ASSUME NEW j \in Subchannels PROVE Link(q, p, b, d, M, j)
  <2>1. Link(q, p, b, a, N, j)
    BY DEF Protocol, Links
  <2>2. SameBit(b, d, j) <=> SameBit(b, a, j)
    BY <1>1 DEF SameBit
  <2>3. Matches(b, k, j) <=> SameBit(b, a, j)
    BY <1>2 DEF Matches, SameBit
  <2>4. CASE b.sub[j].state = "FREE"
    BY <1>8, <1>9, <2>1, <2>2, <2>3, <2>4 DEF Link, Idle
  <2>5. CASE b.sub[j].state = "TOSEND"
    BY <1>8, <1>9, <2>1, <2>2, <2>3, <2>5 DEF Link, Ready
  <2>6. CASE b.sub[j].state \in {"WAITING", "DIRTY"}
    <3>1. Underway(q, p, b, a, N, j)
      BY <2>1, <2>6 DEF Link
    <3>2. Underway(q, p, b, d, M, j)
      BY <1>1, <1>2, <1>8, <1>9, <2>2, <2>3, <3>1 DEF Underway
    <3> QED BY <2>6, <3>2 DEF Link
  <2>7. b.sub[j].state \in {"FREE", "TOSEND", "WAITING", "DIRTY"}
    BY DEF Numbers
  <2> QED BY <2>4, <2>5, <2>6, <2>7
<1>14. Links(q, p, b, d, M)
  BY <1>13 DEF Links
<1> QED BY <1>7, <1>12, <1>14 DEF Protocol, d

\* The channel is cleared: data that was not sent is taken back with its bit,
\* data that was sent becomes dirty.
LEMMA ClearProtocol ==
  ASSUME NEW p, NEW q, NEW a, NEW b, NEW N, Protocol(p, q, a, b, N), Sound(a)
  PROVE  Protocol(p, q, Clear(a), b, N)
<1> DEFINE d == Clear(a)
<1>1. /\ d.outSeq = a.outSeq /\ d.inSeq = a.inSeq /\ d.inRel = a.inRel
      /\ d.outRel = (a.outRel \ ToSend(a)) \cup (ToSend(a) \ a.outRel)
      /\ d.sub = ClearedSub(a)
  BY ClearSound
<1>2. a.sub \in [Subchannels -> SubchannelType]
  BY Fields DEF Sound
<1> HIDE DEF d
<1>3. Order(p, q, d, b, N)
  BY <1>1 DEF Protocol, Order
<1>4. Accepts(q, d, N) = Accepts(q, a, N)
  BY <1>1 DEF Accepts
<1>5. ASSUME NEW i \in Subchannels PROVE Link(p, q, d, b, N, i)
  <2>0. Link(p, q, a, b, N, i) /\ a.sub[i] \in SubchannelType
    BY <1>2 DEF Protocol, Links
  <2>1. CASE a.sub[i].state = "TOSEND"
    <3>1. d.sub[i] = FreeSub
      BY <1>1, <2>1 DEF ClearedSub
    <3>2. i \in d.outRel <=> i \notin a.outRel
      BY <1>1, <2>1 DEF ToSend
    <3>3. Ready(p, q, a, b, N, i)
      BY <2>0, <2>1 DEF Link
    <3>4. Idle(p, q, d, b, N, i)
      BY <1>4, <3>1, <3>2, <3>3 DEF Ready, Idle, SameBit, Matches, FreeSub
    <3> QED BY <3>1, <3>4 DEF Link, FreeSub
  <2>2. CASE a.sub[i].state # "TOSEND"
    <3>1. i \in d.outRel <=> i \in a.outRel
      BY <1>1, <2>2 DEF ToSend
    <3>2. SameBit(d, b, i) <=> SameBit(a, b, i)
      BY <3>1 DEF SameBit
    <3>3. \A k \in N : Matches(d, k, i) <=> Matches(a, k, i)
      BY <3>1 DEF Matches
    <3>4. CASE a.sub[i].state = "WAITING"
      <4>1. d.sub[i] = [a.sub[i] EXCEPT !.state = "DIRTY"]
        BY <1>1, <3>4 DEF ClearedSub
      <4>2. d.sub[i].state = "DIRTY" /\ d.sub[i].seq = a.sub[i].seq
        BY <2>0, <4>1 DEF SubchannelType
      <4>3. Underway(p, q, a, b, N, i)
        BY <2>0, <3>4 DEF Link
      <4>4. Underway(p, q, d, b, N, i)
        BY <1>1, <1>4, <3>2, <3>3, <4>2, <4>3 DEF Underway, Accepts
      <4> QED BY <4>2, <4>4 DEF Link
    <3>5. CASE a.sub[i].state # "WAITING"
      <4>1. d.sub[i] = a.sub[i]
        BY <1>1, <2>2, <3>5 DEF ClearedSub
      <4> QED BY <1>1, <1>4, <2>0, <2>2, <3>2, <3>3, <4>1 DEF Link, Idle, Underway, Accepts
    <3> QED BY <3>4, <3>5
  <2> QED BY <2>1, <2>2
<1>6. Links(p, q, d, b, N)
  BY <1>5 DEF Links
<1>7. Links(q, p, b, d, N)
  BY <1>1, <1>4 DEF Protocol, Links, Link, Idle, Ready, Underway, SameBit
<1> QED BY <1>3, <1>6, <1>7 DEF Protocol, d

LEMMA MayClearProtocol ==
  ASSUME NEW p, NEW q, NEW a, NEW b, NEW d, NEW N, Protocol(p, q, a, b, N), Sound(a), MayClear(a, d)
  PROVE  Protocol(p, q, d, b, N)
BY ClearProtocol, SameProtocol DEF MayClear

-----------------------------------------------------------------------------
(* Receiving.                                                              *)

\* A header that is accepted is consistent with the sender's subchannels, so
\* the loop looks at all of them.
LEMMA HeaderValid ==
  ASSUME NEW p, NEW q, NEW a, NEW b, NEW N, NEW k \in Accepts(q, a, N),
         Protocol(p, q, a, b, N), Numbers(a), Stamps(N)
  PROVE  /\ Invalid(a, k) = {}
         /\ Reached(a, k) = Subchannels
         /\ \A i \in MissedSubs(a, k) : a.sub[i].state # "FREE"
<1>0. k \in N /\ k.ack \in Nat
  BY DEF Accepts, Stamps
<1>1. ASSUME NEW i \in Subchannels, Matches(a, k, i), a.sub[i].state # "DIRTY"
      PROVE  ~ (a.sub[i].seq > k.ack)
  <2>1. Link(p, q, a, b, N, i)
    BY DEF Protocol, Links
  <2>2. a.sub[i].seq \in Int /\ a.sub[i].state \in {"FREE", "TOSEND", "WAITING", "DIRTY"}
    BY DEF Numbers
  <2>3. CASE a.sub[i].state = "FREE"
    BY <1>0, <2>1, <2>3 DEF Link, Idle
  <2>4. CASE a.sub[i].state = "TOSEND"
    BY <1>1, <2>1, <2>4 DEF Link, Ready
  <2>5. CASE a.sub[i].state = "WAITING"
    BY <1>0, <1>1, <2>1, <2>2, <2>5 DEF Link, Underway
  <2> QED BY <1>1, <2>2, <2>3, <2>4, <2>5
<1>2. Invalid(a, k) = {}
  BY <1>1 DEF Invalid
<1>3. Reached(a, k) = Subchannels
  BY <1>2 DEF Reached
<1>4. ASSUME NEW i \in MissedSubs(a, k) PROVE a.sub[i].state # "FREE"
  <2>1. i \in Subchannels /\ ~Matches(a, k, i)
    BY <1>3 DEF MissedSubs
  <2> QED BY <2>1 DEF Protocol, Links, Link, Idle
<1> QED BY <1>2, <1>3, <1>4

\* The channel f after the header of datagram k and its chunks.
Receives(a, f, k) ==
  /\ f.outSeq = a.outSeq /\ f.inSeq = k.seq
  /\ f.outRel = (a.outRel \ DirtyLost(a, k)) \cup (DirtyLost(a, k) \ a.outRel)
  /\ f.sub = AnsweredSub(a, k)
  /\ \/ f.inRel = a.inRel
     \/ k.subch # -1 /\ f.inRel = FlipBit(a.inRel, k.subch)

\* The datagrams that stay under way when k has arrived.
StillUnderWay(N, k) == {l \in N : l.from = k.from => l.seq >= k.seq}

\* The subchannels of the receiver of k as a sender: what the acks do.
LEMMA AckLinks ==
  ASSUME NEW p, NEW q, NEW a, NEW b, NEW f, NEW N, NEW k \in Accepts(q, a, N), p # q,
         Protocol(p, q, a, b, N), Sound(a), Numbers(b), Stamps(N), Receives(a, f, k),
         NEW i \in Subchannels
  PROVE  Link(p, q, f, b, StillUnderWay(N, k), i)
<1> DEFINE M == StillUnderWay(N, k)
<1> SUFFICES Link(p, q, f, b, M, i)
  OBVIOUS
<1>0. /\ Numbers(a)
      /\ k \in N /\ k.from = q /\ k.seq \in Nat /\ k.ack \in Nat /\ k.seq > a.inSeq
      /\ a.inSeq \in Nat /\ a.sub[i].seq \in Int
      /\ b.inSeq \in Nat
      /\ a.sub[i].state \in {"FREE", "TOSEND", "WAITING", "DIRTY"}
  BY SoundNumbers DEF Accepts, Stamps, Numbers
<1>1. Reached(a, k) = Subchannels
  BY <1>0, HeaderValid
<1>2. a.sub \in [Subchannels -> SubchannelType]
  BY Fields DEF Sound
<1>3. Accepts(p, b, M) = Accepts(p, b, N)
  BY <1>0 DEF Accepts, StillUnderWay
<1>4. \A l \in Accepts(q, f, M) :
        l \in Accepts(q, a, N) /\ l.ack \in Nat /\ l.ack >= k.ack
  BY <1>0 DEF Accepts, StillUnderWay, Receives, Protocol, Order, Stamps
<1>5. Link(p, q, a, b, N, i)
  BY DEF Protocol, Links
<1>6. f.sub[i] = AnsweredSub(a, k)[i] /\ f.outSeq = a.outSeq
  BY DEF Receives
<1>7. k.ack <= b.inSeq
  BY <1>0 DEF Protocol, Order
<1>8. \A l \in Accepts(p, b, N) : l.seq > b.inSeq /\ l.seq \in Nat
  BY DEF Accepts, Stamps
<1> HIDE DEF M
<1>9. i \notin DirtyLost(a, k) => /\ SameBit(f, b, i) <=> SameBit(a, b, i)
                                  /\ \A l : Matches(f, l, i) <=> Matches(a, l, i)
  BY DEF Receives, SameBit, Matches
<1>10. i \in DirtyLost(a, k) => /\ SameBit(f, b, i) <=> ~SameBit(a, b, i)
                                /\ \A l : Matches(f, l, i) <=> ~Matches(a, l, i)
  BY DEF Receives, SameBit, Matches
<1>11. /\ i \in AckedSubs(a, k) \cup DirtyDone(a, k) \cup DirtyLost(a, k) => f.sub[i] = FreeSub
       /\ i \in MissedSubs(a, k) /\ a.sub[i].state = "WAITING" =>
            f.sub[i] = [a.sub[i] EXCEPT !.state = "TOSEND"]
       /\ /\ i \notin AckedSubs(a, k)
          /\ i \notin DirtyDone(a, k) \cup DirtyLost(a, k)
          /\ ~ (i \in MissedSubs(a, k) /\ a.sub[i].state = "WAITING")
          => f.sub[i] = a.sub[i]
  BY <1>2, <1>6, AnsweredCases
<1>12. CASE a.sub[i].state = "FREE"
  <2>1. f.sub[i] = a.sub[i] /\ i \notin DirtyLost(a, k)
    BY <1>12, <1>11 DEF AckedSubs, DirtyDone, DirtyLost
  <2>2. Idle(p, q, f, b, M, i)
    BY <1>3, <1>4, <1>5, <1>9, <1>12, <2>1 DEF Link, Idle
  <2> QED BY <1>12, <2>1, <2>2 DEF Link
<1>13. CASE a.sub[i].state = "TOSEND"
  <2>1. f.sub[i] = a.sub[i] /\ i \notin DirtyLost(a, k)
    BY <1>13, <1>11 DEF AckedSubs, DirtyDone, DirtyLost
  <2>2. Ready(p, q, f, b, M, i)
    BY <1>3, <1>4, <1>5, <1>9, <1>13, <2>1 DEF Link, Ready
  <2> QED BY <1>13, <2>1, <2>2 DEF Link
<1>14. CASE a.sub[i].state \in {"WAITING", "DIRTY"}
  <2>0. Underway(p, q, a, b, N, i)
    BY <1>5, <1>14 DEF Link
  <2>1. CASE Matches(a, k, i)
    <3>1. f.sub[i] = FreeSub /\ i \notin DirtyLost(a, k)
      BY <1>1, <1>14, <1>11, <2>1 DEF AckedSubs, DirtyDone, DirtyLost, MissedSubs
    <3>2. SameBit(a, b, i) /\ a.sub[i].seq <= k.ack /\ a.sub[i].seq <= b.inSeq
      BY <2>0, <2>1 DEF Underway
    <3>3. ASSUME NEW l \in Accepts(q, f, M) PROVE Matches(a, l, i)
      <4>1. a.sub[i].seq <= l.ack
        BY <1>0, <1>4, <3>2
      <4> QED BY <1>4, <2>0, <3>2, <4>1 DEF Underway
    <3>4. \A l \in Accepts(p, b, N) : l.subch # i
      BY <1>0, <1>8, <2>0, <3>2 DEF Underway
    <3>5. Idle(p, q, f, b, M, i)
      BY <1>3, <1>9, <3>1, <3>2, <3>3, <3>4 DEF Idle, FreeSub
    <3> QED BY <3>1, <3>5 DEF Link, FreeSub
  <2>2. CASE ~Matches(a, k, i) /\ a.sub[i].seq <= k.ack
    <3>1. i \in MissedSubs(a, k)
      BY <1>1, <2>2 DEF MissedSubs
    <3>2. ~SameBit(a, b, i)
      BY <2>0, <2>2 DEF Underway
    <3>3. \A l \in Accepts(q, f, M) : ~Matches(a, l, i)
      BY <1>4, <2>0, <3>2 DEF Underway
    <3>4. \A l \in Accepts(p, b, N) : l.subch # i
      BY <1>0, <1>7, <1>8, <2>0, <2>2 DEF Underway
    <3>5. CASE a.sub[i].state = "WAITING"
      <4>1. i \notin DirtyLost(a, k)
        BY <3>5 DEF DirtyLost
      <4>2. f.sub[i] = [a.sub[i] EXCEPT !.state = "TOSEND"]
        BY <3>1, <3>5, <1>11
      <4>3. f.sub[i].state = "TOSEND"
        BY <1>2, <4>2 DEF SubchannelType
      <4>4. Ready(p, q, f, b, M, i)
        BY <1>3, <1>9, <3>2, <3>3, <3>4, <4>1 DEF Ready
      <4> QED BY <4>3, <4>4 DEF Link
    <3>6. CASE a.sub[i].state = "DIRTY"
      <4>1. i \in DirtyLost(a, k)
        BY <3>1, <3>6 DEF DirtyLost
      <4>2. f.sub[i] = FreeSub
        BY <4>1, <1>11
      <4>3. Idle(p, q, f, b, M, i)
        BY <1>3, <1>10, <3>2, <3>3, <3>4, <4>1, <4>2 DEF Idle, FreeSub
      <4> QED BY <4>2, <4>3 DEF Link, FreeSub
    <3> QED BY <1>14, <3>5, <3>6
  <2>3. CASE ~Matches(a, k, i) /\ ~ (a.sub[i].seq <= k.ack)
    <3>1. i \notin MissedSubs(a, k) /\ i \notin DirtyLost(a, k)
      BY <2>3 DEF MissedSubs, DirtyLost
    <3>2. f.sub[i] = a.sub[i]
      BY <2>3, <3>1, <1>11 DEF AckedSubs, DirtyDone
    <3>3. Underway(p, q, f, b, M, i)
      BY <1>3, <1>4, <1>6, <1>9, <2>0, <3>1, <3>2 DEF Underway
    <3> QED BY <1>14, <3>2, <3>3 DEF Link
  <2> QED BY <2>1, <2>2, <2>3
<1> QED BY <1>0, <1>12, <1>13, <1>14

\* The subchannels of the sender of k: what reading the chunks does.
LEMMA DataLinks ==
  ASSUME NEW p, NEW q, NEW a, NEW b, NEW f, NEW N, NEW k \in Accepts(q, a, N), p # q,
         Protocol(p, q, a, b, N), Numbers(a), Numbers(b), Stamps(N), Receives(a, f, k),
         NEW i \in Subchannels
  PROVE  Link(q, p, b, f, StillUnderWay(N, k), i)
<1> DEFINE M == StillUnderWay(N, k)
<1> SUFFICES Link(q, p, b, f, M, i)
  OBVIOUS
<1>0. /\ k \in N /\ k.from = q /\ k.seq \in Nat /\ k.seq > a.inSeq /\ a.inSeq \in Nat
      /\ b.sub[i].seq \in Int /\ b.sub[i].state \in {"FREE", "TOSEND", "WAITING", "DIRTY"}
      /\ f.inSeq = k.seq
  BY DEF Accepts, Stamps, Numbers, Receives
<1>1. Accepts(p, b, M) = Accepts(p, b, N)
  BY <1>0 DEF Accepts, StillUnderWay
<1>2. \A l \in Accepts(q, f, M) : l \in Accepts(q, a, N)
  BY <1>0 DEF Accepts, StillUnderWay, Stamps
<1>3. Link(q, p, b, a, N, i)
  BY DEF Protocol, Links
<1>4. \A l \in Accepts(p, b, N) : l.ack \in Nat /\ l.ack <= a.inSeq
  BY DEF Accepts, Protocol, Order, Stamps
<1> HIDE DEF M
<1>5. CASE SameBit(b, f, i) <=> SameBit(b, a, i)
  <2>1. CASE b.sub[i].state = "FREE"
    <3>1. Idle(q, p, b, f, M, i)
      BY <1>1, <1>2, <1>3, <1>5, <2>1 DEF Link, Idle
    <3> QED BY <2>1, <3>1 DEF Link
  <2>2. CASE b.sub[i].state = "TOSEND"
    <3>1. Ready(q, p, b, f, M, i)
      BY <1>1, <1>2, <1>3, <1>5, <2>2 DEF Link, Ready
    <3> QED BY <2>2, <3>1 DEF Link
  <2>3. CASE b.sub[i].state \in {"WAITING", "DIRTY"}
    <3>1. Underway(q, p, b, a, N, i)
      BY <1>3, <2>3 DEF Link
    <3>2. SameBit(b, f, i) => b.sub[i].seq <= f.inSeq
      BY <1>0, <1>5, <3>1 DEF Underway
    <3>3. Underway(q, p, b, f, M, i)
      BY <1>1, <1>2, <1>5, <3>1, <3>2 DEF Underway
    <3> QED BY <2>3, <3>3 DEF Link
  <2> QED BY <1>0, <2>1, <2>2, <2>3
<1>6. CASE ~ (SameBit(b, f, i) <=> SameBit(b, a, i))
  <2>1. k.subch = i
    BY <1>6 DEF Receives, SameBit, FlipBit
  <2>2. b.sub[i].state \in {"WAITING", "DIRTY"}
    BY <1>0, <1>3, <2>1 DEF Link, Idle, Ready
  <2>3. Underway(q, p, b, a, N, i)
    BY <1>3, <2>2 DEF Link
  <2>4. b.sub[i].seq = k.seq
    BY <2>1, <2>3 DEF Underway
  <2>5. ~SameBit(b, a, i) /\ SameBit(b, f, i)
    BY <1>0, <1>6, <2>3, <2>4 DEF Underway
  <2>6. \A l \in Accepts(p, b, N) : ~Matches(b, l, i) /\ ~ (b.sub[i].seq <= l.ack)
    BY <1>0, <1>4, <2>3, <2>4, <2>5 DEF Underway
  <2>7. Underway(q, p, b, f, M, i)
    BY <1>0, <1>1, <1>2, <2>3, <2>4, <2>5, <2>6 DEF Underway
  <2> QED BY <2>2, <2>7 DEF Link
<1> QED BY <1>5, <1>6

LEMMA ReceiveProtocol ==
  ASSUME NEW p, NEW q, NEW a, NEW b, NEW f, NEW N, NEW k \in Accepts(q, a, N), p # q,
         Protocol(p, q, a, b, N), Sound(a), Numbers(b), Stamps(N), Receives(a, f, k)
  PROVE  Protocol(p, q, f, b, StillUnderWay(N, k))
<1>0. /\ Numbers(a) /\ a.inSeq \in Nat /\ k \in N /\ k.from = q /\ k.seq \in Nat
      /\ k.seq > a.inSeq /\ f.inSeq = k.seq /\ f.outSeq = a.outSeq
  BY SoundNumbers DEF Accepts, Stamps, Numbers, Receives
<1>1. Order(p, q, f, b, StillUnderWay(N, k))
  BY <1>0 DEF Protocol, Order, StillUnderWay, Stamps
<1>2. Links(p, q, f, b, StillUnderWay(N, k))
  BY AckLinks DEF Links
<1>3. Links(q, p, b, f, StillUnderWay(N, k))
  BY <1>0, DataLinks DEF Links
<1> QED BY <1>1, <1>2, <1>3 DEF Protocol

-----------------------------------------------------------------------------
(* The invariant of the module NetChan in these terms.                     *)

Corresponds ==
  \A p, q \in Peer : p # q =>
    (SequenceInv /\ SubchannelInv <=> Protocol(p, q, chan[p], chan[q], net))

LEMMA TwoPeers ==
  /\ \A p, q, r \in Peer : p # q => r = p \/ r = q
  /\ \A p \in Peer : \E q \in Peer : p # q
BY PeerAssumption

LEMMA LiveIsAccepts ==
  ASSUME TypeInv, NEW p \in Peer, NEW q \in Peer, p # q
  PROVE  Live(p) = Accepts(q, chan[p], net)
<1>1. \A k \in net : k.from \in Peer
  BY TypeInvSound DEF DatagramType
<1>2. \A k \in net : k.from # p <=> k.from = q
  BY <1>1, TwoPeers
<1> QED BY <1>2 DEF Live, Fresh, Accepts

LEMMA LinkIsInv ==
  ASSUME TypeInv, NEW p \in Peer, NEW q \in Peer, p # q, NEW i \in Subchannels
  PROVE  Link(p, q, chan[p], chan[q], net, i)
           <=> FreeInv(p, q, i) /\ ToSendInv(p, q, i) /\ SentInv(p, q, i)
<1>1. Live(p) = Accepts(q, chan[p], net) /\ Live(q) = Accepts(p, chan[q], net)
  BY LiveIsAccepts
<1>2. Agree(p, q, i) <=> SameBit(chan[p], chan[q], i)
  BY DEF Agree, SameBit
<1>3. FreeInv(p, q, i) <=>
        (chan[p].sub[i].state = "FREE" => Idle(p, q, chan[p], chan[q], net, i))
  BY <1>1, <1>2 DEF FreeInv, Idle
<1>4. ToSendInv(p, q, i) <=>
        (chan[p].sub[i].state = "TOSEND" => Ready(p, q, chan[p], chan[q], net, i))
  BY <1>1, <1>2 DEF ToSendInv, Ready
<1>5. SentInv(p, q, i) <=>
        (chan[p].sub[i].state \in {"WAITING", "DIRTY"} => Underway(p, q, chan[p], chan[q], net, i))
  BY <1>1, <1>2 DEF SentInv, Underway
<1> QED BY <1>3, <1>4, <1>5 DEF Link

LEMMA OrderIsInv ==
  ASSUME TypeInv, NEW p \in Peer, NEW q \in Peer, p # q
  PROVE  Order(p, q, chan[p], chan[q], net) <=> SequenceInv
<1>1. \A k \in net : k.from = p \/ k.from = q
  BY TypeInvSound, TwoPeers DEF DatagramType
<1>2. \A r, t \in Peer : r # t => (r = p /\ t = q) \/ (r = q /\ t = p)
  BY TwoPeers
<1> QED BY <1>1, <1>2 DEF Order, SequenceInv

LEMMA InvCorresponds == TypeInv => Corresponds
<1> SUFFICES ASSUME TypeInv, NEW p \in Peer, NEW q \in Peer, p # q
             PROVE  SequenceInv /\ SubchannelInv <=> Protocol(p, q, chan[p], chan[q], net)
  BY DEF Corresponds
<1>1. \A r, t \in Peer : r # t => (r = p /\ t = q) \/ (r = q /\ t = p)
  BY TwoPeers
<1>2. SubchannelInv <=> Links(p, q, chan[p], chan[q], net) /\ Links(q, p, chan[q], chan[p], net)
  BY <1>1, LinkIsInv DEF SubchannelInv, Links
<1> QED BY <1>2, OrderIsInv DEF Protocol

LEMMA InvCorrespondsNext == TypeInv' => Corresponds'
BY InvCorresponds, PTL

-----------------------------------------------------------------------------
(* The actions.                                                            *)

LEMMA QuietStep ==
  ASSUME NEW p \in Peer, NEW q \in Peer, p # q, Protocol(p, q, chan[p], chan[q], net),
         chan \in [Peer -> ChannelType],
         NEW d, SameEnds(d, chan[p]), chan' = [chan EXCEPT ![p] = d], net' = net
  PROVE  Protocol(p, q, chan'[p], chan'[q], net')
<1>1. chan'[p] = d /\ chan'[q] = chan[q]
  OBVIOUS
<1>2. Protocol(p, q, d, chan[q], net)
  BY SameProtocol
<1> QED BY <1>1, <1>2

LEMMA SendNetMsgStep ==
  ASSUME TypeInv, NEW p \in Peer, NEW q \in Peer, p # q,
         Protocol(p, q, chan[p], chan[q], net), NEW m \in Msg, SendNetMsg(p, m)
  PROVE  Protocol(p, q, chan'[p], chan'[q], net')
<1>1. SameEnds(WriteToBuffer(chan[p], m), chan[p])
  BY TypeInvSound, WriteSound
<1>2. chan' = [chan EXCEPT ![p] = WriteToBuffer(chan[p], m)] /\ net' = net
  BY DEF SendNetMsg
<1> QED BY <1>1, <1>2, TypeInvSound, QuietStep

LEMMA SendFileStep ==
  ASSUME TypeInv, NEW p \in Peer, NEW q \in Peer, p # q,
         Protocol(p, q, chan[p], chan[q], net), NEW m \in Msg, SendFile(p, m)
  PROVE  Protocol(p, q, chan'[p], chan'[q], net')
<1> DEFINE d == [chan[p] EXCEPT !.waiting[1] = Append(@, Item(<<m>>, Size[m], m \in FileMsg))]
<1>1. SameEnds(d, chan[p])
  <2>1. Sound(chan[p]) /\ (m \in FileMsg) \in BOOLEAN
    BY TypeInvSound
  <2> QED BY <2>1, EnqueueSound, Streams
<1>2. chan' = [chan EXCEPT ![p] = d] /\ net' = net
  BY TypeInvSound DEF SendFile
<1> HIDE DEF d
<1> QED BY <1>1, <1>2, TypeInvSound, QuietStep

LEMMA SetChokedStep ==
  ASSUME TypeInv, NEW p \in Peer, NEW q \in Peer, p # q,
         Protocol(p, q, chan[p], chan[q], net), SetChoked(p)
  PROVE  Protocol(p, q, chan'[p], chan'[q], net')
<1> DEFINE d == [chan[p] EXCEPT !.outSeq = @ + 1, !.choked = @ + 1]
<1>1. /\ d.outSeq = chan[p].outSeq + 1 /\ d.inSeq = chan[p].inSeq
      /\ d.outRel = chan[p].outRel /\ d.inRel = chan[p].inRel /\ d.sub = chan[p].sub
  BY TypeInvSound, ChokedSound
<1>2. chan' = [chan EXCEPT ![p] = d] /\ net' = net
  BY TypeInvSound DEF SetChoked
<1>3. Numbers(chan[p]) /\ Numbers(chan[q]) /\ Stamps(net)
  BY TypeInvSound, SoundNumbers, TypedStamps
<1> HIDE DEF d
<1>4. Protocol(p, q, d, chan[q], net)
  BY <1>1, <1>3, ChokedProtocol
<1>5. chan'[p] = d /\ chan'[q] = chan[q]
  BY <1>2, TypeInvSound
<1> QED BY <1>2, <1>4, <1>5

LEMMA SendDatagramStep ==
  ASSUME TypeInv, NEW p \in Peer, NEW q \in Peer, p # q,
         Protocol(p, q, chan[p], chan[q], net), SendDatagram(p)
  PROVE  Protocol(p, q, chan'[p], chan'[q], net')
<1>1. PICK ch \in CompressFragments(CreateFragmentsFromBuffer(chan[p])) :
        /\ chan' = [chan EXCEPT ![p] = AfterSend(UpdateSubChannels(ch))]
        /\ net'  = net \cup {Datagram(p, UpdateSubChannels(ch))}
  BY DEF SendDatagram
<1> DEFINE made  == CreateFragmentsFromBuffer(chan[p])
           ready == UpdateSubChannels(ch)
           k     == Datagram(p, ready)
<1>2. /\ Sound(made) /\ SameEnds(made, chan[p])
      /\ Sound(ch) /\ SameEnds(ch, made) /\ Sound(ready)
  BY TypeInvSound, CreateSound, CompressSound, UpdateSound
<1> HIDE DEF made
<1>3. Protocol(p, q, ch, chan[q], net)
  BY <1>2, SameProtocol
<1>4. Protocol(p, q, ready, chan[q], net)
  <2>1. CASE ready = ch
    BY <1>3, <2>1
  <2>2. CASE ready # ch
    <3>1. PICK i \in Subchannels : TakesInto(ch, ready, i)
      BY <1>2, <2>2, UpdateTyped
    <3> QED BY <1>3, <3>1, TakeProtocol
  <2> QED BY <2>1, <2>2
<1>5. Numbers(chan[q]) /\ Stamps(net)
  BY TypeInvSound, SoundNumbers, TypedStamps
<1> HIDE DEF ready
<1>6. Protocol(p, q, AfterSend(ready), chan[q], net \cup {k})
  BY <1>2, <1>4, <1>5, SendProtocol
<1>7. chan'[p] = AfterSend(ready) /\ chan'[q] = chan[q] /\ net' = net \cup {k}
  BY <1>1, TypeInvSound DEF ready
<1> QED BY <1>6, <1>7

LEMMA ClearChannelStep ==
  ASSUME TypeInv, NEW p \in Peer, NEW q \in Peer, p # q,
         Protocol(p, q, chan[p], chan[q], net), ClearChannel(p)
  PROVE  Protocol(p, q, chan'[p], chan'[q], net')
<1> DEFINE d == ClearAndSignon(p, chan[p])
<1>1. MayClear(chan[p], d) /\ Sound(chan[p])
  BY TypeInvSound, ClearAndSignonSound DEF MayClear
<1>2. chan' = [chan EXCEPT ![p] = d] /\ net' = net
  BY TypeInvSound DEF ClearChannel
<1> HIDE DEF d
<1>3. Protocol(p, q, d, chan[q], net)
  BY <1>1, MayClearProtocol
<1>4. chan'[p] = d /\ chan'[q] = chan[q]
  BY <1>2, TypeInvSound
<1> QED BY <1>2, <1>3, <1>4

LEMMA MayClearSeq ==
  ASSUME NEW a, NEW d, Sound(a), MayClear(a, d)
  PROVE  d.inSeq = a.inSeq
BY ClearSound DEF MayClear, SameEnds

LEMMA ProcessPacketStep ==
  ASSUME TypeInv, NEW p \in Peer, NEW q \in Peer, p # q,
         Protocol(p, q, chan[p], chan[q], net), NEW k \in net, ProcessPacket(p, k)
  PROVE  Protocol(p, q, chan'[p], chan'[q], net')
<1> DEFINE a == chan[p]
           b == chan[q]
           M == StillUnderWay(net, k)
<1>1. k \in DatagramType /\ Sound(a) /\ Sound(b) /\ chan \in [Peer -> ChannelType]
  BY TypeInvSound
<1>2. PICK f, g, d : /\ Sound(f) /\ Sound(g) /\ Sound(d)
                     /\ MayFlip(ProcessPacketHeader(a, k), f, k)
                     /\ MayClear(f, g) /\ MayClear(g, d)
                     /\ chan' = [chan EXCEPT ![p] = d]
  BY <1>1, PacketSound
<1>3. Numbers(a) /\ Numbers(b) /\ Stamps(net)
  BY <1>1, TypeInvSound, SoundNumbers, TypedStamps
<1>4. k \in Accepts(q, a, net) /\ k.from = q
  <2>1. k \in Live(p)
    BY DEF ProcessPacket, Live
  <2> QED BY <2>1, LiveIsAccepts DEF Accepts
<1>5. Invalid(a, k) = {}
  BY <1>3, <1>4, HeaderValid
<1>6. Receives(a, f, k)
  BY <1>1, <1>2, <1>5, HeaderSound DEF MayFlip, Receives
<1>7. Protocol(p, q, f, b, M)
  BY <1>1, <1>3, <1>4, <1>6, ReceiveProtocol
<1>8. d.inSeq = k.seq
  BY <1>2, <1>6, MayClearSeq DEF Receives
<1> HIDE DEF a, b, M
<1>9. Protocol(p, q, d, b, M)
  BY <1>2, <1>7, MayClearProtocol
<1>10. chan'[p] = d /\ chan'[q] = b
  BY <1>1, <1>2 DEF b
<1>11. net' = M
  BY <1>8, <1>10 DEF ProcessPacket, StillUnderWay, M
<1> QED BY <1>9, <1>10, <1>11

-----------------------------------------------------------------------------
(* The theorems.                                                           *)

ProtocolInv == TypeInv /\ SequenceInv /\ SubchannelInv

LEMMA InitProtocol == Init => ProtocolInv
<1> SUFFICES ASSUME Init PROVE ProtocolInv
  OBVIOUS
<1>1. TypeInv
  BY InitType
<1>2. chan = [p \in Peer |-> NewChannel] /\ net = {}
  BY DEF Init
<1>3. \A p \in Peer : /\ chan[p].outSeq = 1 /\ chan[p].inSeq = 0
                      /\ chan[p].outRel = {} /\ chan[p].inRel = {}
                      /\ \A i \in Subchannels : chan[p].sub[i] = FreeSub
  BY <1>2 DEF NewChannel
<1>4. SequenceInv
  BY <1>2, <1>3 DEF SequenceInv
<1>5. \A p : Live(p) = {}
  BY <1>2 DEF Live
<1>6. SubchannelInv
  BY <1>3, <1>5 DEF SubchannelInv, FreeInv, ToSendInv, SentInv, Agree, FreeSub
<1> QED BY <1>1, <1>4, <1>6 DEF ProtocolInv

LEMMA StepProtocol == ProtocolInv /\ [Next]_vars => ProtocolInv'
<1> SUFFICES ASSUME ProtocolInv, [Next]_vars PROVE ProtocolInv'
  OBVIOUS
<1>1. TypeInv /\ TypeInv' /\ Corresponds /\ Corresponds'
  BY StepType, InvCorresponds, InvCorrespondsNext DEF ProtocolInv
<1>2. \A p, q \in Peer : p # q => Protocol(p, q, chan[p], chan[q], net)
  BY <1>1 DEF ProtocolInv, Corresponds
<1>3. \E p, q \in Peer : p # q /\ Protocol(p, q, chan'[p], chan'[q], net')
  <2>1. CASE UNCHANGED vars
    <3>1. chan' = chan /\ net' = net
      BY <2>1 DEF vars
    <3>2. PICK p, q \in Peer : p # q
      BY PeerAssumption
    <3> QED BY <1>2, <3>1, <3>2
  <2>2. CASE Next
    <3>1. PICK p \in Peer :
            \/ \E m \in Msg : SendNetMsg(p, m)
            \/ \E m \in Msg : SendFile(p, m)
            \/ SetChoked(p)
            \/ SendDatagram(p)
            \/ ClearChannel(p)
            \/ \E k \in net : ProcessPacket(p, k)
      BY <2>2 DEF Next
    <3>2. PICK q \in Peer : p # q
      BY TwoPeers
    <3>3. Protocol(p, q, chan[p], chan[q], net)
      BY <1>2, <3>2
    <3>4. Protocol(p, q, chan'[p], chan'[q], net')
      BY <1>1, <3>1, <3>2, <3>3, SendNetMsgStep, SendFileStep, SetChokedStep,
         SendDatagramStep, ClearChannelStep, ProcessPacketStep
    <3> QED BY <3>2, <3>4
  <2> QED BY <2>1, <2>2
<1>4. (SequenceInv /\ SubchannelInv)'
  BY <1>1, <1>3 DEF Corresponds
<1> QED BY <1>1, <1>4 DEF ProtocolInv

\* Sequence numbers and acks are ordered as ProcessPacketHeader takes for
\* granted.
THEOREM SequenceCorrect == Spec => []SequenceInv
<1>1. ProtocolInv => SequenceInv
  BY DEF ProtocolInv
<1> QED BY InitProtocol, StepProtocol, <1>1, PTL DEF Spec

\* The subchannels are alternating bits: data, acknowledgements and bits of the
\* two ends agree, however datagrams are lost, repeated or reordered and
\* whenever either end clears the channel.
THEOREM SubchannelCorrect == Spec => []SubchannelInv
<1>1. ProtocolInv => SubchannelInv
  BY DEF ProtocolInv
<1> QED BY InitProtocol, StepProtocol, <1>1, PTL DEF Spec

\* No datagram is ever rejected with "reliable state invalid"
\* (net_chan.cpp:2710), and none contradicts a free subchannel.
THEOREM HeadersConsistent == Spec => []HeaderConsistent
<1>1. ProtocolInv => HeaderConsistent
  <2> SUFFICES ASSUME ProtocolInv, NEW p \in Peer, NEW k \in Live(p)
               PROVE  /\ Invalid(chan[p], k) = {}
                      /\ \A i \in MissedSubs(chan[p], k) : chan[p].sub[i].state # "FREE"
    BY DEF HeaderConsistent
  <2>1. PICK q \in Peer : p # q
    BY TwoPeers
  <2>2. TypeInv /\ Protocol(p, q, chan[p], chan[q], net)
    BY <2>1, InvCorresponds DEF ProtocolInv, Corresponds
  <2>3. k \in Accepts(q, chan[p], net)
    BY <2>1, <2>2, LiveIsAccepts
  <2>4. Numbers(chan[p]) /\ Stamps(net)
    BY <2>2, TypeInvSound, SoundNumbers, TypedStamps
  <2> QED BY <2>2, <2>3, <2>4, HeaderValid
<1> QED BY InitProtocol, StepProtocol, <1>1, PTL DEF Spec
=============================================================================
