------------------------ MODULE NetChanDeliveryProofs ------------------------
(***************************************************************************)
(* Reliable delivery: when nobody clears the channel, no handler fails and *)
(* nothing is queued on the file stream, each direction of the channel is  *)
(* the queue of ReliableStream, whatever the network does.                 *)
(*                                                                         *)
(* The invariant follows the messages from the sender's reliable buffer    *)
(* through its waiting list and the subchannels into the receive buffer:   *)
(* the waiting items are consecutive pieces of what was accepted, and of   *)
(* the head the receiver has exactly the fragments that no subchannel      *)
(* carries under a bit that the receiver has not taken.                    *)
(***************************************************************************)
EXTENDS NetChanProofs

\* What the theorems suppose.  Otherwise the code makes no such promise: a
\* datagram with chunks of both streams may be read by half, Clear drops what
\* is queued, and a failed handler sees its messages again.
Undisturbed ==
  /\ AsyncMsg \cup FileMsg = {} /\ Clearing = {} /\ Failing = {}
  /\ \A p \in Peer : MaxClears[p] = 0

-----------------------------------------------------------------------------
(* Sequences.                                                              *)

\* A piece of a sequence: its elements x + 1 .. y.
Piece(S, x, y) == SubSeq(S, x + 1, y)

LEMMA PieceElements ==
  ASSUME NEW T, NEW S \in Seq(T), NEW x \in Nat, NEW y \in Nat, x <= y, y <= Len(S)
  PROVE  /\ Piece(S, x, y) \in Seq(T) /\ Len(Piece(S, x, y)) = y - x
         /\ \A i \in 1 .. y - x : Piece(S, x, y)[i] = S[x + i]
<1>1. \A i \in x + 1 .. y : S[i] \in T
  BY ElementOfSeq
<1>2. /\ SubSeq(S, x + 1, y) \in Seq(T)
      /\ Len(SubSeq(S, x + 1, y)) = IF x + 1 <= y THEN y - (x + 1) + 1 ELSE 0
      /\ \A i \in 1 .. y - (x + 1) + 1 : SubSeq(S, x + 1, y)[i] = S[x + 1 + i - 1]
  BY <1>1, SubSeqProperties
<1>3. \A i \in 1 .. y - x : x + 1 + i - 1 = x + i /\ i \in 1 .. y - (x + 1) + 1
  OBVIOUS
<1> QED BY <1>2, <1>3 DEF Piece

LEMMA PieceToEnd ==
  ASSUME NEW T, NEW S \in Seq(T), NEW x \in Nat, x <= Len(S)
  PROVE  Piece(S, x, Len(S)) \in Seq(T) /\ Len(Piece(S, x, Len(S))) = Len(S) - x
<1>1. Len(S) \in Nat /\ Len(S) <= Len(S)
  BY LenProperties
<1> QED BY <1>1, PieceElements

\* Pieces of an extended sequence.
LEMMA PieceOfAppend ==
  ASSUME NEW T, NEW S \in Seq(T), NEW m \in T, NEW x \in Nat, NEW y \in Nat, x <= y, y <= Len(S)
  PROVE  /\ Piece(Append(S, m), x, y) = Piece(S, x, y)
         /\ Append(Piece(S, x, Len(S)), m) = Piece(Append(S, m), x, Len(S) + 1)
<1>1. /\ Append(S, m) \in Seq(T) /\ Len(Append(S, m)) = Len(S) + 1 /\ Len(S) \in Nat
      /\ \A i \in 1 .. Len(S) : Append(S, m)[i] = S[i]
      /\ Append(S, m)[Len(S) + 1] = m
  BY AppendProperties, LenProperties
<1> DEFINE V == Append(S, m)
<1> HIDE DEF V
<1>0. V \in Seq(T) /\ Len(V) \in Nat /\ y <= Len(V) /\ x <= Len(S) /\ Len(S) + 1 <= Len(V) /\ x <= Len(S) + 1
      /\ Len(S) <= Len(S) /\ Len(S) + 1 \in Nat
  BY <1>1 DEF V
<1>2. Piece(Append(S, m), x, y) = Piece(S, x, y)
  <2>1. /\ Piece(Append(S, m), x, y) \in Seq(T) /\ Len(Piece(Append(S, m), x, y)) = y - x
        /\ \A i \in 1 .. y - x : Piece(Append(S, m), x, y)[i] = Append(S, m)[x + i]
    <3>1. /\ Piece(V, x, y) \in Seq(T) /\ Len(Piece(V, x, y)) = y - x
          /\ \A i \in 1 .. y - x : Piece(V, x, y)[i] = V[x + i]
      BY <1>0, PieceElements
    <3> QED BY <3>1 DEF V
  <2>2. /\ Piece(S, x, y) \in Seq(T) /\ Len(Piece(S, x, y)) = y - x
        /\ \A i \in 1 .. y - x : Piece(S, x, y)[i] = S[x + i]
    BY PieceElements
  <2>3. \A i \in 1 .. y - x : x + i \in 1 .. Len(S)
    BY <1>1
  <2> QED BY <1>1, <2>1, <2>2, <2>3, SeqEqual
<1>3. Append(Piece(S, x, Len(S)), m) = Piece(Append(S, m), x, Len(S) + 1)
  <2> DEFINE n == Len(S)
             t == Piece(S, x, n)
             u == Piece(Append(S, m), x, n + 1)
  <2>1. x <= n /\ n \in Nat
    BY <1>1
  <2>2. t \in Seq(T) /\ Len(t) = n - x /\ \A i \in 1 .. n - x : t[i] = S[x + i]
    BY <1>0, <1>1, PieceElements
  <2>3. u \in Seq(T) /\ Len(u) = n + 1 - x /\ \A i \in 1 .. n + 1 - x : u[i] = Append(S, m)[x + i]
    <3> DEFINE z == n + 1
    <3>1. V \in Seq(T) /\ z \in Nat /\ x <= z /\ z <= Len(V)
      BY <1>0
    <3>2. /\ Piece(V, x, z) \in Seq(T) /\ Len(Piece(V, x, z)) = z - x
          /\ \A i \in 1 .. z - x : Piece(V, x, z)[i] = V[x + i]
      <4> HIDE DEF z, V
      <4> QED BY <3>1, PieceElements
    <3>3. z - x = n + 1 - x
      BY <2>1
    <3>4. u = Piece(V, x, z) /\ V = Append(S, m)
      BY DEF V
    <3> HIDE DEF z, V, u
    <3>5. /\ u \in Seq(T) /\ Len(u) = n + 1 - x
          /\ \A i \in 1 .. n + 1 - x : u[i] = V[x + i]
      BY <3>2, <3>3, <3>4, Zenon
    <3> QED BY <3>4, <3>5, Zenon
  <2> HIDE DEF t, u
  <2>4. /\ Append(t, m) \in Seq(T) /\ Len(Append(t, m)) = n - x + 1
        /\ \A i \in 1 .. n - x : Append(t, m)[i] = t[i]
        /\ Append(t, m)[n - x + 1] = m
    BY <2>2, AppendProperties
  <2>5. \A i \in 1 .. n + 1 - x : Append(t, m)[i] = u[i]
    <3> SUFFICES ASSUME NEW i \in 1 .. n + 1 - x PROVE Append(t, m)[i] = u[i]
      OBVIOUS
    <3>1. CASE i \in 1 .. n - x
      <4>1. x + i \in 1 .. n
        BY <2>1, <3>1
      <4> QED BY <1>1, <2>2, <2>3, <2>4, <3>1, <4>1
    <3>2. CASE i \notin 1 .. n - x
      <4>1. i = n - x + 1 /\ x + i = n + 1
        BY <2>1, <3>2
      <4> QED BY <1>1, <2>3, <2>4, <4>1
    <3> QED BY <3>1, <3>2
  <2>6. Len(Append(t, m)) = Len(u)
    BY <2>1, <2>3, <2>4
  <2>7. Append(t, m) = u
    BY <2>3, <2>4, <2>5, <2>6, SeqEqual
  <2> QED BY <2>7 DEF t, u
<1> QED BY <1>2, <1>3

\* Two neighbours make a longer piece.
LEMMA PiecesJoin ==
  ASSUME NEW T, NEW S \in Seq(T), NEW x \in Nat, NEW y \in Nat, NEW z \in Nat, x <= y, y <= z, z <= Len(S)
  PROVE  Piece(S, x, y) \o Piece(S, y, z) = Piece(S, x, z)
<1>1. x + 1 \in 1 .. Len(S) + 1 /\ y \in x + 1 - 1 .. Len(S) /\ z \in y .. Len(S)
  BY LenProperties
<1> QED BY <1>1, ConcatAdjacentSubSeq DEF Piece

\* Its elements are elements of the whole.
LEMMA PieceSet ==
  ASSUME NEW T, NEW S \in Seq(T), NEW x \in Nat, NEW y \in Nat, x <= y, y <= Len(S)
  PROVE  ToSet(Piece(S, x, y)) = {S[i] : i \in x + 1 .. y}
<1>1. /\ Piece(S, x, y) \in Seq(T) /\ Len(Piece(S, x, y)) = y - x
      /\ \A i \in 1 .. y - x : Piece(S, x, y)[i] = S[x + i]
  BY PieceElements
<1>2. DOMAIN Piece(S, x, y) = 1 .. y - x
  BY <1>1
<1>3. \A i \in 1 .. y - x : x + i \in x + 1 .. y
  OBVIOUS
<1>4. \A i \in x + 1 .. y : i - x \in 1 .. y - x /\ x + (i - x) = i
  OBVIOUS
<1>5. ToSet(Piece(S, x, y)) = {Piece(S, x, y)[i] : i \in 1 .. y - x}
  BY <1>2 DEF ToSet
<1>6. ASSUME NEW e \in ToSet(Piece(S, x, y)) PROVE e \in {S[i] : i \in x + 1 .. y}
  <2>1. PICK i \in 1 .. y - x : e = Piece(S, x, y)[i]
    BY <1>5, <1>6
  <2> QED BY <1>1, <1>3, <2>1
<1>7. ASSUME NEW i \in x + 1 .. y PROVE S[i] \in ToSet(Piece(S, x, y))
  <2>1. i - x \in 1 .. y - x /\ S[i] = Piece(S, x, y)[i - x]
    BY <1>1, <1>4
  <2> QED BY <1>5, <2>1
<1> QED BY <1>6, <1>7
-----------------------------------------------------------------------------
(* The invariant on values: a is the channel of the sender, b that of the    *)
(* receiver, w the sender's waiting list, st its reliable buffer, r the      *)
(* receive list, S what was accepted and R what was handled.                 *)

\* The fragments of the head item that are out and not read: their subchannel's
\* bit is not taken yet.
Unread(a, b) == UNION {ChunkOf(a.sub[i], 0) : i \in {j \in Carrying(a, 0) : ~SameBit(a, b, j)}}

\* The fragments of the head item h that were read.
Arrived(h, U) == (0 .. h.acked + h.pending - 1) \ U

\* The head is being received: what was read is in the buffer, at its places.
Buffered(h, U, r) ==
  /\ Arrived(h, U) # 0 .. h.total - 1
  /\ r.open <=> Arrived(h, U) # {}
  /\ r.open => /\ 0 \in Arrived(h, U)
               /\ r.total = h.total /\ ~r.file /\ r.acked = Cardinality(Arrived(h, U))
               /\ \A n \in Arrived(h, U) : r.buf[n + 1] = <<h.payload, n + 1>>

\* The head was read to its end and handled; its acknowledgement is under way.
Handed(h, U, r) == U = {} /\ h.acked + h.pending = h.total /\ ~r.open

\* The waiting items and the reliable buffer are the pieces of S between the
\* cuts B.
Layout(w, st, S, B) ==
  /\ \A n \in 1 .. Len(w) : /\ B[n] < B[n + 1] /\ ~w[n].file
                            /\ w[n].payload = Piece(S, B[n], B[n + 1])
  /\ st = Piece(S, B[Len(w) + 1], Len(S))

\* Everything before the head was handled, and nothing behind it.
Stage(w, U, r, S, R, B) ==
  /\ w = <<>> => R = Piece(S, 0, B[1]) /\ ~r.open
  /\ w # <<>> => \/ R = Piece(S, 0, B[1]) /\ Buffered(w[1], U, r)
                 \/ R = Piece(S, 0, B[2]) /\ Handed(w[1], U, r)

Cuts(w, S) == [1 .. Len(w) + 1 -> 0 .. Len(S)]
Follows(w, st, U, r, S, R) == \E B \in Cuts(w, S) : Layout(w, st, S, B) /\ Stage(w, U, r, S, R, B)

\* Every datagram that the receiver would accept has the chunks of its subchannel.
Carried(p, a, b, N) ==
  \A k \in Accepts(p, b, N) : k.subch # -1 =>
    \A s \in Stream : k.chunk[s] = Chunk(a, a.sub[k.subch], s)

\* Nothing was cleared, and the file stream is not used.
Quiet(a) == (\A i \in Subchannels : a.sub[i].state # "DIRTY") /\ a.waiting[1] = <<>>

Delivery(p, a, b, N, S, R) ==
  /\ Quiet(a) /\ ~b.recv[1].open
  /\ Carried(p, a, b, N)
  /\ Follows(a.waiting[0], a.stream, Unread(a, b), b.recv[0], S, R)

-----------------------------------------------------------------------------
(* Steps of the lists.                                                       *)

\* The cuts of a list.
LEMMA CutsTyped ==
  ASSUME NEW w, Len(w) \in Nat, NEW S, Len(S) \in Nat, NEW B \in Cuts(w, S)
  PROVE  /\ \A n \in 1 .. Len(w) + 1 : B[n] \in Nat /\ B[n] <= Len(S)
         /\ \A n \in 1 .. Len(w) : n \in 1 .. Len(w) + 1 /\ n + 1 \in 1 .. Len(w) + 1
         /\ 1 \in 1 .. Len(w) + 1 /\ Len(w) + 1 \in 1 .. Len(w) + 1
         /\ Len(w) # 0 => 2 \in 1 .. Len(w) + 1 /\ 1 \in 1 .. Len(w)
BY DEF Cuts

\* A message is accepted.
LEMMA AcceptFollows ==
  ASSUME NEW T, NEW S \in Seq(T), NEW m \in T, NEW w, Len(w) \in Nat, w # <<>> => Len(w) # 0,
         NEW st, NEW U, NEW r, NEW R, Follows(w, st, U, r, S, R)
  PROVE  Follows(w, Append(st, m), U, r, Append(S, m), R)
<1> DEFINE V == Append(S, m)
<1>0. Len(S) \in Nat /\ Len(V) = Len(S) + 1
  BY AppendProperties, LenProperties
<1>1. PICK B \in Cuts(w, S) : Layout(w, st, S, B) /\ Stage(w, U, r, S, R, B)
  BY DEF Follows
<1>2. /\ \A n \in 1 .. Len(w) + 1 : B[n] \in Nat /\ B[n] <= Len(S)
      /\ \A n \in 1 .. Len(w) : n \in 1 .. Len(w) + 1 /\ n + 1 \in 1 .. Len(w) + 1
      /\ 1 \in 1 .. Len(w) + 1 /\ Len(w) + 1 \in 1 .. Len(w) + 1
      /\ Len(w) # 0 => 2 \in 1 .. Len(w) + 1 /\ 1 \in 1 .. Len(w)
  BY <1>0, <1>1, CutsTyped
<1>3. \A x, y \in Nat : x <= y /\ y <= Len(S) => /\ Piece(V, x, y) = Piece(S, x, y)
                                               /\ Append(Piece(S, x, Len(S)), m) = Piece(V, x, Len(S) + 1)
  BY PieceOfAppend
<1> HIDE DEF V
<1>4. B \in Cuts(w, V)
  BY <1>0, <1>1 DEF Cuts
<1>5. Layout(w, Append(st, m), V, B)
  <2>1. ASSUME NEW n \in 1 .. Len(w)
        PROVE  B[n] < B[n + 1] /\ ~w[n].file /\ w[n].payload = Piece(V, B[n], B[n + 1])
    <3>1. B[n] < B[n + 1] /\ ~w[n].file /\ w[n].payload = Piece(S, B[n], B[n + 1])
      BY <1>1 DEF Layout
    <3>2. B[n] \in Nat /\ B[n + 1] \in Nat /\ B[n + 1] <= Len(S) /\ B[n] <= B[n + 1]
      BY <1>2, <3>1
    <3> QED BY <1>3, <3>1, <3>2
  <2>2. Append(st, m) = Piece(V, B[Len(w) + 1], Len(V))
    <3>1. B[Len(w) + 1] \in Nat /\ B[Len(w) + 1] <= Len(S)
      BY <1>2
    <3>2. st = Piece(S, B[Len(w) + 1], Len(S))
      BY <1>1 DEF Layout
    <3>3. Append(Piece(S, B[Len(w) + 1], Len(S)), m) = Piece(V, B[Len(w) + 1], Len(S) + 1)
      BY <1>0, <1>3, <3>1
    <3> QED BY <1>0, <3>2, <3>3
  <2> QED BY <2>1, <2>2 DEF Layout
<1>6. Stage(w, U, r, V, R, B)
  <2>1. Piece(V, 0, B[1]) = Piece(S, 0, B[1])
    BY <1>2, <1>3
  <2>2. w # <<>> => Piece(V, 0, B[2]) = Piece(S, 0, B[2])
    BY <1>2, <1>3
  <2> QED BY <1>1, <2>1, <2>2 DEF Stage
<1> QED BY <1>4, <1>5, <1>6 DEF Follows, V

\* An item of which nothing was sent is about to be received.
LEMMA FreshBuffered ==
  ASSUME NEW h, h.total \in Nat \ {0}, h.acked = 0, h.pending = 0, NEW r, ~r.open
  PROVE  Buffered(h, {}, r)
<1>1. Arrived(h, {}) = {}
  BY DEF Arrived
<1>2. 0 \in 0 .. h.total - 1
  OBVIOUS
<1> QED BY <1>1, <1>2 DEF Buffered

\* The reliable buffer becomes an item.
LEMMA CreateFollows ==
  ASSUME NEW T, NEW S \in Seq(T), NEW w \in Seq(ItemType), NEW h \in ItemType, NEW st, st # <<>>,
         h.payload = st, ~h.file, h.acked = 0, h.pending = 0,
         NEW U, w = <<>> => U = {}, NEW r, NEW R, Follows(w, st, U, r, S, R)
  PROVE  Follows(Append(w, h), <<>>, U, r, S, R)
<1> DEFINE v == Append(w, h)
           l == Len(w)
<1>0. l \in Nat /\ Len(S) \in Nat /\ (l = 0 <=> w = <<>>)
  BY LenProperties
<1>1. PICK B \in Cuts(w, S) : Layout(w, st, S, B) /\ Stage(w, U, r, S, R, B)
  BY DEF Follows
<1>2. /\ \A n \in 1 .. l + 1 : B[n] \in Nat /\ B[n] <= Len(S)
      /\ \A n \in 1 .. l : n \in 1 .. l + 1 /\ n + 1 \in 1 .. l + 1
      /\ 1 \in 1 .. l + 1 /\ l + 1 \in 1 .. l + 1
      /\ l # 0 => 2 \in 1 .. l + 1 /\ 1 \in 1 .. l
  BY <1>0, <1>1, CutsTyped
<1>3. Len(v) = l + 1 /\ v[l + 1] = h /\ v # <<>> /\ \A n \in 1 .. l : v[n] = w[n]
  BY AppendProperties
<1> DEFINE C == [n \in 1 .. l + 2 |-> IF n = l + 2 THEN Len(S) ELSE B[n]]
<1>4. C \in Cuts(v, S) /\ C[l + 2] = Len(S) /\ \A n \in 1 .. l + 1 : C[n] = B[n]
  BY <1>0, <1>2, <1>3 DEF Cuts
<1> HIDE DEF C, v
<1>5. st = Piece(S, B[l + 1], Len(S)) /\ B[l + 1] \in Nat /\ B[l + 1] <= Len(S)
  BY <1>1, <1>2 DEF Layout
<1>6. B[l + 1] < Len(S)
  <2>1. Len(st) = Len(S) - B[l + 1] /\ st \in Seq(T)
    BY <1>5, PieceToEnd
  <2>2. Len(st) # 0
    BY <2>1, EmptySeq
  <2> QED BY <1>0, <1>5, <2>1, <2>2
<1>7. Layout(v, <<>>, S, C)
  <2>1. ASSUME NEW n \in 1 .. Len(v)
        PROVE  C[n] < C[n + 1] /\ ~v[n].file /\ v[n].payload = Piece(S, C[n], C[n + 1])
    <3>1. CASE n \in 1 .. l
      <4>1. B[n] < B[n + 1] /\ ~w[n].file /\ w[n].payload = Piece(S, B[n], B[n + 1])
        BY <1>1, <3>1 DEF Layout
      <4> QED BY <1>2, <1>3, <1>4, <3>1, <4>1
    <3>2. CASE n = l + 1
      <4>1. C[n] = B[l + 1] /\ C[n + 1] = Len(S)
        BY <1>0, <1>2, <1>4, <3>2
      <4> QED BY <1>3, <1>5, <1>6, <3>2, <4>1
    <3> QED BY <1>0, <1>3, <3>1, <3>2
  <2>2. <<>> = Piece(S, C[Len(v) + 1], Len(S))
    <3>1. Len(v) + 1 = l + 2
      BY <1>0, <1>3
    <3>2. Piece(S, Len(S), Len(S)) = <<>>
      BY <1>0, SubSeqEmpty DEF Piece
    <3> QED BY <1>4, <3>1, <3>2
  <2> QED BY <2>1, <2>2 DEF Layout
<1>8. Stage(v, U, r, S, R, C)
  <2>1. CASE w = <<>>
    <3>1. R = Piece(S, 0, B[1]) /\ ~r.open /\ U = {} /\ v[1] = h /\ C[1] = B[1]
      BY <1>0, <1>1, <1>2, <1>3, <1>4, <2>1 DEF Stage
    <3>2. Buffered(h, {}, r)
      BY <3>1, FreshBuffered DEF ItemType
    <3>3. Buffered(v[1], U, r) /\ R = Piece(S, 0, C[1])
      BY <3>1, <3>2
    <3> QED BY <1>3, <3>3 DEF Stage
  <2>2. CASE w # <<>>
    <3>1. v[1] = w[1] /\ C[1] = B[1] /\ C[2] = B[2]
      BY <1>0, <1>2, <1>3, <1>4, <2>2
    <3>2. \/ R = Piece(S, 0, B[1]) /\ Buffered(w[1], U, r)
          \/ R = Piece(S, 0, B[2]) /\ Handed(w[1], U, r)
      BY <1>1, <2>2 DEF Stage
    <3>3. \/ R = Piece(S, 0, C[1]) /\ Buffered(v[1], U, r)
          \/ R = Piece(S, 0, C[2]) /\ Handed(v[1], U, r)
      BY <3>1, <3>2
    <3> QED BY <1>3, <3>3 DEF Stage
  <2> QED BY <2>1, <2>2
<1> QED BY <1>4, <1>7, <1>8 DEF Follows, v

\* It is merged into the last item, which is not the head.
LEMMA MergeFollows ==
  ASSUME NEW T, NEW S \in Seq(T), NEW w \in Seq(ItemType), Len(w) > 1, NEW h \in ItemType, NEW st, st # <<>>,
         h.payload = w[Len(w)].payload \o st, ~h.file,
         NEW U, NEW r, NEW R, Follows(w, st, U, r, S, R)
  PROVE  Follows([w EXCEPT ![Len(w)] = h], <<>>, U, r, S, R)
<1> DEFINE l == Len(w)
           v == [w EXCEPT ![l] = h]
<1>0. l \in Nat /\ Len(S) \in Nat /\ l # 0 /\ l \in 1 .. l
  BY LenProperties
<1>1. PICK B \in Cuts(w, S) : Layout(w, st, S, B) /\ Stage(w, U, r, S, R, B)
  BY DEF Follows
<1>2. /\ \A n \in 1 .. l + 1 : B[n] \in Nat /\ B[n] <= Len(S)
      /\ \A n \in 1 .. l : n \in 1 .. l + 1 /\ n + 1 \in 1 .. l + 1
      /\ 1 \in 1 .. l + 1 /\ l + 1 \in 1 .. l + 1
      /\ 2 \in 1 .. l + 1 /\ 1 \in 1 .. l
  BY <1>0, <1>1, CutsTyped
<1>3. Len(v) = l /\ v[l] = h /\ v # <<>> /\ \A n \in 1 .. l : n # l => v[n] = w[n]
  <2>1. /\ v \in Seq(ItemType) /\ Len(v) = l
        /\ \A j \in 1 .. l : v[j] = IF j = l THEN h ELSE w[j]
    BY <1>0, ExceptSeq
  <2> QED BY <1>0, <2>1
<1> DEFINE C == [B EXCEPT ![l + 1] = Len(S)]
<1>4. C \in Cuts(v, S) /\ C[l + 1] = Len(S) /\ \A n \in 1 .. l : C[n] = B[n]
  BY <1>0, <1>1, <1>2, <1>3 DEF Cuts
<1> HIDE DEF C, v
<1>5. /\ st = Piece(S, B[l + 1], Len(S)) /\ B[l + 1] \in Nat /\ B[l + 1] <= Len(S)
      /\ B[l] < B[l + 1] /\ w[l].payload = Piece(S, B[l], B[l + 1]) /\ B[l] \in Nat
  BY <1>0, <1>1, <1>2 DEF Layout
<1>6. h.payload = Piece(S, B[l], Len(S)) /\ B[l] < Len(S)
  <2>1. B[l] <= B[l + 1] /\ Len(S) <= Len(S) /\ B[l] < Len(S)
    BY <1>0, <1>5
  <2>2. Piece(S, B[l], B[l + 1]) \o Piece(S, B[l + 1], Len(S)) = Piece(S, B[l], Len(S))
    BY <1>0, <1>5, <2>1, PiecesJoin
  <2> QED BY <1>5, <2>1, <2>2
<1>7. Layout(v, <<>>, S, C)
  <2>1. ASSUME NEW n \in 1 .. Len(v)
        PROVE  C[n] < C[n + 1] /\ ~v[n].file /\ v[n].payload = Piece(S, C[n], C[n + 1])
    <3>1. CASE n # l
      <4>1. n \in 1 .. l /\ n + 1 \in 1 .. l
        BY <1>0, <1>3, <3>1
      <4>2. B[n] < B[n + 1] /\ ~w[n].file /\ w[n].payload = Piece(S, B[n], B[n + 1])
        BY <1>1, <4>1 DEF Layout
      <4> QED BY <1>3, <1>4, <3>1, <4>1, <4>2
    <3>2. CASE n = l
      BY <1>0, <1>3, <1>4, <1>6, <3>2
    <3> QED BY <3>1, <3>2
  <2>2. <<>> = Piece(S, C[Len(v) + 1], Len(S))
    <3>1. Piece(S, Len(S), Len(S)) = <<>>
      BY <1>0, SubSeqEmpty DEF Piece
    <3> QED BY <1>3, <1>4, <3>1
  <2> QED BY <2>1, <2>2 DEF Layout
<1>8. Stage(v, U, r, S, R, C)
  <2>1. v[1] = w[1] /\ C[1] = B[1] /\ C[2] = B[2] /\ w # <<>>
    BY <1>0, <1>3, <1>4
  <2> QED BY <1>1, <1>3, <2>1 DEF Stage
<1> QED BY <1>4, <1>7, <1>8 DEF Follows, v

\* The counters of the head, what is unread and the receive list change
\* together.
LEMMA HeadFollows ==
  ASSUME NEW w \in Seq(ItemType), w # <<>>, NEW v \in Seq(ItemType), Len(v) = Len(w),
         \A n \in 1 .. Len(w) : n # 1 => v[n] = w[n],
         v[1].payload = w[1].payload, v[1].file = w[1].file,
         NEW U, NEW X, NEW r, NEW x, NEW S, NEW R, NEW st,
         Buffered(w[1], U, r) => Buffered(v[1], X, x),
         Handed(w[1], U, r) => Handed(v[1], X, x),
         Follows(w, st, U, r, S, R)
  PROVE  Follows(v, st, X, x, S, R)
<1>1. PICK B \in Cuts(w, S) : Layout(w, st, S, B) /\ Stage(w, U, r, S, R, B)
  BY DEF Follows
<1>2. B \in Cuts(v, S)
  BY <1>1 DEF Cuts
<1>3. v # <<>>
  BY EmptySeq
<1>4. ASSUME NEW n \in 1 .. Len(v)
      PROVE  B[n] < B[n + 1] /\ ~v[n].file /\ v[n].payload = Piece(S, B[n], B[n + 1])
  <2>1. B[n] < B[n + 1] /\ ~w[n].file /\ w[n].payload = Piece(S, B[n], B[n + 1])
    BY <1>1 DEF Layout
  <2> QED BY <2>1
<1>5. Layout(v, st, S, B)
  BY <1>1, <1>4 DEF Layout
<1>6. Stage(v, X, x, S, R, B)
  BY <1>1, <1>3 DEF Stage
<1> QED BY <1>2, <1>5, <1>6 DEF Follows

\* The head is handed over.
LEMMA HandFollows ==
  ASSUME NEW T, NEW S \in Seq(T), NEW w \in Seq(ItemType), w # <<>>,
         NEW U, NEW X, NEW r, NEW x, NEW R, NEW st,
         ~Handed(w[1], U, r), Handed(w[1], X, x),
         Follows(w, st, U, r, S, R)
  PROVE  Follows(w, st, X, x, S, R \o w[1].payload)
<1>0. Len(w) \in Nat /\ Len(S) \in Nat /\ Len(w) # 0
  BY LenProperties
<1>1. PICK B \in Cuts(w, S) : Layout(w, st, S, B) /\ Stage(w, U, r, S, R, B)
  BY DEF Follows
<1>2. B[1] \in Nat /\ B[2] \in Nat /\ B[2] <= Len(S) /\ 1 \in 1 .. Len(w)
  BY <1>0, <1>1, CutsTyped
<1>3. B[1] < B[2] /\ w[1].payload = Piece(S, B[1], B[2])
  BY <1>1, <1>2 DEF Layout
<1>4. R = Piece(S, 0, B[1])
  BY <1>1 DEF Stage
<1>5. R \o w[1].payload = Piece(S, 0, B[2])
  <2>1. 0 \in Nat /\ 0 <= B[1] /\ B[1] <= B[2]
    BY <1>2, <1>3
  <2>2. Piece(S, 0, B[1]) \o Piece(S, B[1], B[2]) = Piece(S, 0, B[2])
    BY <1>2, <2>1, PiecesJoin
  <2> QED BY <1>3, <1>4, <2>2
<1>6. Stage(w, X, x, S, R \o w[1].payload, B)
  BY <1>5 DEF Stage
<1> QED BY <1>1, <1>6 DEF Follows

\* The head that was handed over is removed.
LEMMA RemoveFollows ==
  ASSUME NEW T, NEW S \in Seq(T), NEW w \in Seq(ItemType), w # <<>>,
         \A n \in 1 .. Len(w) : n # 1 => w[n].acked = 0 /\ w[n].pending = 0,
         NEW U, NEW r, NEW R, NEW st,
         ~Buffered(w[1], U, r), Follows(w, st, U, r, S, R)
  PROVE  Follows(Tail(w), st, {}, r, S, R)
<1> DEFINE v == Tail(w)
           l == Len(w)
<1>0. l \in Nat /\ Len(S) \in Nat /\ l # 0
  BY LenProperties
<1>1. PICK B \in Cuts(w, S) : Layout(w, st, S, B) /\ Stage(w, U, r, S, R, B)
  BY DEF Follows
<1>2. /\ \A n \in 1 .. l + 1 : B[n] \in 0 .. Len(S)
      /\ 1 \in 1 .. l
  BY <1>0, <1>1, CutsTyped
<1>3. v \in Seq(ItemType) /\ Len(v) = l - 1 /\ \A n \in 1 .. l - 1 : v[n] = w[n + 1] /\ n + 1 \in 1 .. l /\ n + 1 # 1
  BY <1>0, HeadTailProperties
<1> DEFINE C == [n \in 1 .. l |-> B[n + 1]]
<1>4. C \in Cuts(v, S) /\ \A n \in 1 .. l : C[n] = B[n + 1]
  BY <1>0, <1>2, <1>3 DEF Cuts
<1> HIDE DEF C, v
<1>5. R = Piece(S, 0, B[2]) /\ Handed(w[1], U, r)
  BY <1>1 DEF Stage
<1>6. Layout(v, st, S, C)
  <2>1. ASSUME NEW n \in 1 .. Len(v)
        PROVE  C[n] < C[n + 1] /\ ~v[n].file /\ v[n].payload = Piece(S, C[n], C[n + 1])
    <3>1. n \in 1 .. l - 1 /\ n \in 1 .. l /\ n + 1 \in 1 .. l
      BY <1>0, <1>3
    <3>2. B[n + 1] < B[n + 1 + 1] /\ ~w[n + 1].file /\ w[n + 1].payload = Piece(S, B[n + 1], B[n + 1 + 1])
      BY <1>1, <3>1 DEF Layout
    <3> QED BY <1>3, <1>4, <3>1, <3>2
  <2>2. st = Piece(S, C[Len(v) + 1], Len(S))
    <3>1. Len(v) + 1 = l /\ l \in 1 .. l
      BY <1>0, <1>3
    <3> QED BY <1>1, <1>4, <3>1 DEF Layout
  <2> QED BY <2>1, <2>2 DEF Layout
<1>7. Stage(v, {}, r, S, R, C)
  <2>1. C[1] = B[2] /\ ~r.open
    BY <1>2, <1>4, <1>5 DEF Handed
  <2>2. v # <<>> => Buffered(v[1], {}, r)
    <3> SUFFICES ASSUME v # <<>> PROVE Buffered(v[1], {}, r)
      OBVIOUS
    <3>1. 1 \in 1 .. l - 1 /\ v[1] \in ItemType
      BY <1>0, <1>3, ListHead
    <3>2. v[1].acked = 0 /\ v[1].pending = 0 /\ v[1].total \in Nat \ {0}
      BY <1>3, <3>1 DEF ItemType
    <3> QED BY <2>1, <3>2, FreshBuffered
  <2> QED BY <1>5, <2>1, <2>2 DEF Stage
<1> QED BY <1>4, <1>6, <1>7 DEF Follows, v

-----------------------------------------------------------------------------
(* Steps of the sender.                                                      *)

\* The parts of a sound channel that carry the messages of stream 0.
LEMMA SenderParts ==
  ASSUME NEW a, Sound(a)
  PROVE  /\ a \in ChannelType /\ a \in ChannelRecord
         /\ a.stream \in Seq(Msg) /\ a.waiting[0] \in Seq(ItemType) /\ a.waiting[1] \in Seq(ItemType)
         /\ a.sub \in [Subchannels -> SubchannelType]
         /\ Len(a.waiting[0]) \in Nat
         /\ a.waiting[0] = <<>> => Carrying(a, 0) = {}
         /\ a.waiting[0] # <<>> => /\ Len(a.waiting[0]) # 0 /\ a.waiting[0][1] \in ItemType
                                   /\ a.waiting[0][1].acked + a.waiting[0][1].pending <= a.waiting[0][1].total
                                   /\ InFlight(a, 0) \subseteq
                                        0 .. a.waiting[0][1].acked + a.waiting[0][1].pending - 1
         /\ \A n \in 1 .. Len(a.waiting[0]) : n # 1 =>
              a.waiting[0][n].acked = 0 /\ a.waiting[0][n].pending = 0
<1>1. a \in ChannelType /\ a \in ChannelRecord
  BY DEF Sound, ChannelType
<1>2. /\ a.stream \in Seq(Msg) /\ a.waiting[0] \in Seq(ItemType) /\ a.waiting[1] \in Seq(ItemType)
      /\ a.sub \in [Subchannels -> SubchannelType]
  BY <1>1, Fields, Streams
<1>3. Accounting(a, 0)
  BY Streams DEF Sound
<1>4. Len(a.waiting[0]) \in Nat /\ DOMAIN a.waiting[0] = 1 .. Len(a.waiting[0])
        /\ (a.waiting[0] # <<>> => Len(a.waiting[0]) # 0)
  BY <1>2, LenProperties, EmptySeq
<1>5. \A n \in 1 .. Len(a.waiting[0]) : n # 1 =>
              a.waiting[0][n].acked = 0 /\ a.waiting[0][n].pending = 0
  BY <1>3, <1>4 DEF Accounting
<1>6. a.waiting[0] # <<>> => a.waiting[0][1] \in ItemType
  BY <1>2, ListHead
<1> QED BY <1>1, <1>2, <1>3, <1>4, <1>5, <1>6 DEF Accounting

\* The receiver changes nothing that it has read.
LEMMA ReceiverRests ==
  ASSUME NEW p, NEW a, NEW b, NEW e, NEW N, NEW M, NEW S, NEW R, Delivery(p, a, b, N, S, R),
         e.recv = b.recv, e.inRel = b.inRel, Accepts(p, e, M) \subseteq Accepts(p, b, N)
  PROVE  Delivery(p, a, e, M, S, R)
<1>1. Unread(a, e) = Unread(a, b)
  BY DEF Unread, SameBit
<1>2. Carried(p, a, e, M)
  BY DEF Delivery, Carried
<1> QED BY <1>1, <1>2 DEF Delivery

\* What is unread depends on the subchannels and the bits only.
LEMMA SameUnread ==
  ASSUME NEW a, NEW b, NEW d, d.sub = a.sub, d.outRel = a.outRel
  PROVE  Unread(d, b) = Unread(a, b) /\ Carrying(d, 0) = Carrying(a, 0)
BY DEF Unread, SameBit, Carrying

\* The sender changes nothing that it has queued.
LEMMA SenderRests ==
  ASSUME NEW p, NEW a, NEW b, NEW d, NEW N, NEW M, NEW S, NEW R, Delivery(p, a, b, N, S, R),
         d.waiting = a.waiting, d.stream = a.stream, d.sub = a.sub, d.outRel = a.outRel,
         Accepts(p, b, M) \subseteq Accepts(p, b, N)
  PROVE  Delivery(p, d, b, M, S, R)
<1>1. Unread(d, b) = Unread(a, b)
  BY SameUnread
<1>2. Carried(p, d, b, M)
  BY DEF Delivery, Carried, Chunk
<1>3. Quiet(d)
  BY DEF Delivery, Quiet
<1> QED BY <1>1, <1>2, <1>3 DEF Delivery

\* A chunk that would be read is that of a subchannel that waits for its
\* acknowledgement and whose bit the receiver has not taken; it is of the
\* reliable stream.
LEMMA CarriedBy ==
  ASSUME NEW p, NEW q, NEW a, NEW b, NEW N \in SUBSET DatagramType, NEW S, NEW R,
         Sound(a), Sound(b), Protocol(p, q, a, b, N), Delivery(p, a, b, N, S, R),
         NEW k \in Accepts(p, b, N), k.subch # -1
  PROVE  /\ k.subch \in Subchannels /\ a.sub[k.subch].state = "WAITING"
         /\ a.sub[k.subch].seq = k.seq /\ ~SameBit(a, b, k.subch)
         /\ a.sub[k.subch].num[1] = 0
         /\ a.sub[k.subch].num[0] # 0 => k.subch \in Carrying(a, 0) /\ a.waiting[0] # <<>>
<1> DEFINE i == k.subch
<1>1. i \in Subchannels /\ k.seq \in Nat /\ k.seq > b.inSeq
  BY DEF Accepts, DatagramType
<1>2. Link(p, q, a, b, N, i)
  BY <1>1 DEF Protocol, Links
<1>3. a.sub[i].state \in {"FREE", "TOSEND", "WAITING", "DIRTY"} /\ b.inSeq \in Nat /\ a.sub[i].seq \in Int
  BY <1>1, SoundNumbers DEF Numbers
<1>4. a.sub[i].state = "WAITING"
  BY <1>1, <1>2, <1>3 DEF Delivery, Quiet, Link, Idle, Ready
<1>5. Underway(p, q, a, b, N, i)
  BY <1>2, <1>4 DEF Link
<1>6. a.sub[i].seq = k.seq /\ ~SameBit(a, b, i)
  BY <1>1, <1>3, <1>5 DEF Underway
<1>7. a.sub \in [Subchannels -> SubchannelType]
  BY SenderParts
<1>8. a.sub[i].num[0] \in Nat /\ a.sub[i].num[1] \in Nat
  BY <1>1, <1>7, ChunkFinite, Streams
<1>9. a.sub[i].num[1] = 0
  <2>1. Carrying(a, 1) = {}
    BY Streams DEF Sound, Accounting, Delivery, Quiet
  <2> QED BY <1>1, <1>4, <1>8, <2>1 DEF Carrying
<1>10. a.sub[i].num[0] # 0 => i \in Carrying(a, 0)
  BY <1>1, <1>4, <1>8 DEF Carrying
<1>11. a.waiting[0] = <<>> => Carrying(a, 0) = {}
  BY SenderParts
<1> QED BY <1>1, <1>4, <1>6, <1>9, <1>10, <1>11

\* The chunks stay those of the subchannels that would be read.
LEMMA SameChunks ==
  ASSUME NEW p, NEW q, NEW a, NEW b, NEW d, NEW N \in SUBSET DatagramType, NEW S, NEW R,
         Sound(a), Sound(b), Protocol(p, q, a, b, N), Delivery(p, a, b, N, S, R),
         \A k \in Accepts(p, b, N) : k.subch # -1 =>
           /\ d.sub[k.subch].num = a.sub[k.subch].num /\ d.sub[k.subch].start = a.sub[k.subch].start
           /\ a.sub[k.subch].num[0] # 0 =>
                /\ d.waiting[0][1].total = a.waiting[0][1].total
                /\ d.waiting[0][1].file = a.waiting[0][1].file
                /\ d.waiting[0][1].payload = a.waiting[0][1].payload
  PROVE  Carried(p, d, b, N)
<1> SUFFICES ASSUME NEW k \in Accepts(p, b, N), k.subch # -1, NEW s \in Stream
             PROVE  k.chunk[s] = Chunk(d, d.sub[k.subch], s)
  BY DEF Carried
<1>1. k.chunk[s] = Chunk(a, a.sub[k.subch], s)
  BY DEF Delivery, Carried
<1>2. a.sub[k.subch].num[1] = 0
  BY CarriedBy
<1>3. CASE s = 0
  BY <1>1, <1>3 DEF Chunk
<1>4. CASE s = 1
  BY <1>1, <1>2, <1>4 DEF Chunk
<1> QED BY <1>3, <1>4, Streams

\* SendNetMsg.
LEMMA AcceptDelivers ==
  ASSUME NEW p, NEW a, NEW b, NEW N, NEW S \in Seq(Msg), NEW R, NEW m \in Msg,
         Sound(a), Delivery(p, a, b, N, S, R)
  PROVE  Delivery(p, WriteToBuffer(a, m), b, N, Append(S, m), R)
<1> DEFINE d == WriteToBuffer(a, m)
<1>1. a \in ChannelRecord /\ a.waiting[0] \in Seq(ItemType) /\ Len(a.waiting[0]) \in Nat
        /\ (a.waiting[0] # <<>> => Len(a.waiting[0]) # 0)
  BY SenderParts
<1>2. /\ d.stream = Append(a.stream, m) /\ d.waiting = a.waiting
      /\ d.sub = a.sub /\ d.outRel = a.outRel
  BY <1>1 DEF WriteToBuffer, ChannelRecord
<1> HIDE DEF d
<1>3. Unread(d, b) = Unread(a, b)
  BY <1>2, SameUnread
<1>4. Follows(a.waiting[0], a.stream, Unread(a, b), b.recv[0], S, R)
  BY DEF Delivery
<1>5. Follows(a.waiting[0], Append(a.stream, m), Unread(a, b), b.recv[0], Append(S, m), R)
  BY <1>1, <1>4, AcceptFollows
<1>6. Carried(p, d, b, N)
  BY <1>2 DEF Delivery, Carried, Chunk
<1>7. Quiet(d)
  BY <1>2 DEF Delivery, Quiet
<1> QED BY <1>2, <1>3, <1>5, <1>6, <1>7 DEF Delivery, d

\* A list whose reliable buffer became an item: its head is the same.
LEMMA NewListDelivers ==
  ASSUME NEW p, NEW q, NEW a, NEW b, NEW d, NEW N \in SUBSET DatagramType, NEW S, NEW R,
         Sound(a), Sound(b), Protocol(p, q, a, b, N), Delivery(p, a, b, N, S, R),
         d.sub = a.sub, d.outRel = a.outRel, d.waiting[1] = a.waiting[1],
         a.waiting[0] # <<>> => d.waiting[0][1] = a.waiting[0][1],
         Follows(d.waiting[0], d.stream, Unread(a, b), b.recv[0], S, R)
  PROVE  Delivery(p, d, b, N, S, R)
<1>1. \A k \in Accepts(p, b, N) : k.subch # -1 => (a.sub[k.subch].num[0] # 0 => a.waiting[0] # <<>>)
  BY CarriedBy
<1>2. Carried(p, d, b, N)
  BY <1>1, SameChunks
<1>3. Unread(d, b) = Unread(a, b)
  BY SameUnread
<1>4. Quiet(d)
  BY DEF Delivery, Quiet
<1> QED BY <1>2, <1>3, <1>4 DEF Delivery

\* CreateFragmentsFromBuffer.
LEMMA CreateDelivers ==
  ASSUME NEW p, NEW q, NEW a, NEW b, NEW N \in SUBSET DatagramType, NEW S \in Seq(Msg), NEW R,
         Sound(a), Sound(b), Protocol(p, q, a, b, N), Delivery(p, a, b, N, S, R)
  PROVE  Delivery(p, CreateFragmentsFromBuffer(a), b, N, S, R)
<1> DEFINE d == CreateFragmentsFromBuffer(a)
           list == a.waiting[0]
           st == a.stream
           n == a.streamSize
           last == list[Len(list)]
           append == Len(list) > 1 /\ last.total + n < MaxPayload
           merged == Item(last.payload \o st, last.total + n, FALSE)
           fresh == Item(st, n, FALSE)
           w0 == IF append THEN [list EXCEPT ![Len(list)] = merged] ELSE Append(list, fresh)
<1>1. CASE st = <<>>
  BY <1>1 DEF CreateFragmentsFromBuffer
<1>2. CASE st # <<>>
  <2>1. /\ a \in ChannelRecord /\ a \in ChannelType /\ list \in Seq(ItemType) /\ st \in Seq(Msg)
        /\ Len(list) \in Nat /\ (list # <<>> => 1 \in DOMAIN list /\ 1 \in 1 .. Len(list))
    BY SenderParts, ListHead
  <2>2. n \in Nat \ {0}
    BY <1>2, <2>1, Fields
  <2>3. d = [a EXCEPT !.stream = <<>>, !.streamSize = 0, !.waiting[0] = w0]
    BY <1>2, <2>1 DEF CreateFragmentsFromBuffer
  <2>4. /\ d.stream = <<>> /\ d.sub = a.sub /\ d.outRel = a.outRel
        /\ d.waiting[1] = a.waiting[1] /\ d.waiting[0] = w0
    <3> HIDE DEF w0
    <3>1. a.waiting \in [Stream -> Seq(ItemType)]
      BY <2>1, Fields
    <3> QED BY <2>1, <2>3, <3>1, Streams DEF ChannelRecord
  <2> HIDE DEF d
  <2>5. Follows(list, st, Unread(a, b), b.recv[0], S, R)
    BY DEF Delivery
  <2>6. Follows(w0, <<>>, Unread(a, b), b.recv[0], S, R) /\ (list # <<>> => w0[1] = list[1])
    <3>1. CASE append
      <4>0. Len(list) > 1
        BY <3>1
      <4>1. w0 = [list EXCEPT ![Len(list)] = merged] /\ Len(list) > 1 /\ Len(list) \in 1 .. Len(list)
        <5>1. w0 = [list EXCEPT ![Len(list)] = merged]
          BY <3>1
        <5> HIDE DEF w0, list
        <5> QED BY <2>1, <4>0, <5>1
      <4>2. last \in ItemType
        BY <2>1, <4>1
      <4>3. last.payload \in Seq(Msg) /\ last.total \in Nat \ {0}
        BY <4>2 DEF ItemType
      <4> HIDE DEF last
      <4>4. last.payload \o st \in Seq(Msg) /\ last.total + n \in Nat \ {0}
        <5>1. last.total + n \in Nat \ {0}
          BY <2>2, <4>3
        <5>2. last.payload \o st \in Seq(Msg)
          BY <2>1, <4>3
        <5> QED BY <5>1, <5>2
      <4>5. merged \in ItemType /\ merged.payload = last.payload \o st /\ ~merged.file
        BY <4>4, ItemTyped DEF Item
      <4> HIDE DEF merged, w0
      <4>6. merged.payload = list[Len(list)].payload \o st
        BY <4>5 DEF last
      <4> HIDE DEF list, st, n
      <4>7. Follows([list EXCEPT ![Len(list)] = merged], <<>>, Unread(a, b), b.recv[0], S, R)
        BY <1>2, <2>1, <2>5, <4>1, <4>5, <4>6, MergeFollows
      <4>8. w0[1] = list[1]
        <5>1. 1 \in DOMAIN list \ {Len(list)}
          BY <2>1, <4>1
        <5> QED BY <2>1, <4>1, <4>5, <5>1, ListUpdate
      <4> QED BY <4>1, <4>7, <4>8
    <3>2. CASE ~append
      <4>1. w0 = Append(list, fresh)
        BY <3>2
      <4>2. /\ fresh \in ItemType /\ fresh.payload = st /\ ~fresh.file
            /\ fresh.acked = 0 /\ fresh.pending = 0
        BY <2>1, <2>2, ItemTyped DEF Item
      <4>3. list = <<>> => Unread(a, b) = {}
        <5>1. list = <<>> => Carrying(a, 0) = {}
          BY SenderParts
        <5> QED BY <5>1 DEF Unread
      <4> HIDE DEF fresh, w0, list, st
      <4>4. Follows(Append(list, fresh), <<>>, Unread(a, b), b.recv[0], S, R)
        BY <1>2, <2>1, <2>5, <4>2, <4>3, CreateFollows
      <4>5. list # <<>> => w0[1] = list[1]
        BY <2>1, <4>1, <4>2, ListAppend
      <4> QED BY <4>1, <4>4, <4>5
    <3> QED BY <3>1, <3>2
  <2> HIDE DEF w0, list, st
  <2>7. Follows(d.waiting[0], d.stream, Unread(a, b), b.recv[0], S, R)
    BY <2>4, <2>6
  <2>8. Delivery(p, d, b, N, S, R)
    BY <2>4, <2>6, <2>7, NewListDelivers DEF list
  <2> QED BY <2>8 DEF d
<1> QED BY <1>1, <1>2

\* A head of which nothing is out is not carried by any subchannel.
LEMMA NothingCarried ==
  ASSUME NEW a, NEW b, Sound(a), a.waiting[0] # <<>>, a.waiting[0][1].pending = 0
  PROVE  Carrying(a, 0) = {} /\ Unread(a, b) = {}
<1>1. Cardinality(InFlight(a, 0)) = 0 /\ IsFiniteSet(InFlight(a, 0))
  BY InFlightFinite, Streams DEF Sound, Accounting
<1>2. InFlight(a, 0) = {}
  BY <1>1, FS_EmptySet
<1>3. a.sub \in [Subchannels -> SubchannelType]
  BY SenderParts
<1>4. ASSUME NEW i \in Carrying(a, 0) PROVE FALSE
  <2>1. i \in Subchannels /\ a.sub[i].num[0] # 0
    BY <1>3, <1>4, Streams DEF Carrying, SubchannelType, FragmentCount
  <2>2. ChunkOf(a.sub[i], 0) # {}
    BY <1>3, <2>1, ChunkFinite, Streams
  <2> QED BY <1>2, <1>4, <2>2 DEF InFlight
<1>5. Carrying(a, 0) = {}
  BY <1>4
<1> QED BY <1>5 DEF Unread

\* CompressFragments.
LEMMA CompressDelivers ==
  ASSUME NEW p, NEW q, NEW a, NEW b, NEW N \in SUBSET DatagramType, NEW S \in Seq(Msg), NEW R,
         Sound(a), Sound(b), Protocol(p, q, a, b, N), Delivery(p, a, b, N, S, R),
         NEW d \in CompressFragments(a)
  PROVE  Delivery(p, d, b, N, S, R)
<1> DEFINE list == a.waiting[0]
<1>1. PICK w0 \in CompressedHeads(list), w1 \in CompressedHeads(a.waiting[1]) :
        d = [a EXCEPT !.waiting = [s \in Stream |-> IF s = 0 THEN w0 ELSE w1]]
  BY DEF CompressFragments
<1>2. a \in ChannelRecord /\ list \in Seq(ItemType) /\ Len(list) \in Nat
  BY SenderParts
<1>3. /\ d.waiting[0] = w0 /\ d.waiting[1] = w1 /\ d.stream = a.stream
      /\ d.sub = a.sub /\ d.outRel = a.outRel
  <2> DEFINE v == [s \in Stream |-> IF s = 0 THEN w0 ELSE w1]
  <2>1. v[0] = w0 /\ v[1] = w1 /\ d = [a EXCEPT !.waiting = v]
    BY <1>1, Streams
  <2> HIDE DEF v
  <2> QED BY <1>2, <2>1 DEF ChannelRecord
<1>4. w1 = a.waiting[1]
  <2>1. a.waiting[1] = <<>>
    BY DEF Delivery, Quiet
  <2> QED BY <2>1 DEF CompressedHeads, Compressible
<1>5. Follows(list, a.stream, Unread(a, b), b.recv[0], S, R)
  BY DEF Delivery
<1>6. CASE w0 = list
  <2>1. Follows(d.waiting[0], d.stream, Unread(a, b), b.recv[0], S, R)
    BY <1>3, <1>5, <1>6
  <2>2. a.waiting[0] # <<>> => d.waiting[0][1] = a.waiting[0][1]
    BY <1>3, <1>6
  <2> QED BY <1>3, <1>4, <2>1, <2>2, NewListDelivers
<1>7. CASE w0 # list
  <2>1. PICK n \in 1 .. list[1].total - 1 : w0 = [list EXCEPT ![1].total = n, ![1].compressed = TRUE]
    BY <1>7 DEF CompressedHeads
  <2>2. list # <<>> /\ list[1].acked = 0 /\ list[1].pending = 0
    BY <1>7 DEF CompressedHeads, Compressible
  <2>3. list[1] \in ItemType /\ 1 \in 1 .. Len(list) /\ 1 \in DOMAIN list
    BY <1>2, <2>2, ListHead
  <2>4. n \in Nat \ {0}
    BY <2>3 DEF ItemType
  <2> DEFINE h == [list[1] EXCEPT !.total = n, !.compressed = TRUE]
  <2>5. /\ h \in ItemType /\ h.total = n /\ h.acked = 0 /\ h.pending = 0
        /\ h.payload = list[1].payload /\ h.file = list[1].file
    BY <2>2, <2>3, <2>4 DEF ItemType
  <2>6. w0 = [list EXCEPT ![1] = h]
    BY <1>2, <2>1, <2>3 DEF ItemType
  <2> HIDE DEF h, list
  <2>7. w0 \in Seq(ItemType) /\ Len(w0) = Len(list) /\ w0[1] = h /\ \A m \in 1 .. Len(list) : m # 1 => w0[m] = list[m]
    <3>1. /\ w0 \in Seq(ItemType) /\ Len(w0) = Len(list)
          /\ \A m \in 1 .. Len(list) : w0[m] = IF m = 1 THEN h ELSE list[m]
      BY <1>2, <2>3, <2>5, <2>6, ExceptSeq
    <3> QED BY <2>3, <3>1
  <2>8. Carrying(a, 0) = {} /\ Unread(a, b) = {}
    BY <2>2, NothingCarried DEF list
  <2>9. Buffered(list[1], {}, b.recv[0]) => Buffered(h, {}, b.recv[0])
    <3> SUFFICES ASSUME Buffered(list[1], {}, b.recv[0]) PROVE Buffered(h, {}, b.recv[0])
      OBVIOUS
    <3>1. Arrived(list[1], {}) = {}
      BY <2>2 DEF Arrived
    <3>2. ~b.recv[0].open
      BY <3>1 DEF Buffered
    <3> QED BY <2>4, <2>5, <3>2, FreshBuffered
  <2>10. ~Handed(list[1], {}, b.recv[0])
    BY <2>2, <2>3 DEF Handed, ItemType
  <2>11. Follows(list, a.stream, {}, b.recv[0], S, R)
    BY <1>5, <2>8
  <2>12. Follows(w0, a.stream, {}, b.recv[0], S, R)
    <3>1. /\ w0[1].payload = list[1].payload /\ w0[1].file = list[1].file
          /\ Buffered(list[1], {}, b.recv[0]) => Buffered(w0[1], {}, b.recv[0])
          /\ Handed(list[1], {}, b.recv[0]) => Handed(w0[1], {}, b.recv[0])
      BY <2>5, <2>7, <2>9, <2>10
    <3> DEFINE r == b.recv[0]
               U == {}
    <3>2. /\ Buffered(list[1], U, r) => Buffered(w0[1], U, r)
          /\ Handed(list[1], U, r) => Handed(w0[1], U, r)
          /\ Follows(list, a.stream, U, r, S, R)
      BY <2>11, <3>1
    <3> HIDE DEF r, U
    <3>3. Follows(w0, a.stream, U, r, S, R)
      BY <1>2, <2>2, <2>7, <3>1, <3>2, HeadFollows
    <3> QED BY <3>3 DEF r, U
  <2>13. Carried(p, d, b, N)
    <3>1. \A k \in Accepts(p, b, N) : k.subch # -1 => a.sub[k.subch].num[0] = 0
      BY <2>8, CarriedBy
    <3> QED BY <1>3, <3>1, SameChunks
  <2>14. Unread(d, b) = {} /\ Quiet(d)
    BY <1>3, <1>4, <2>8, SameUnread DEF Delivery, Quiet
  <2>15. Follows(d.waiting[0], d.stream, Unread(d, b), b.recv[0], S, R)
    BY <1>3, <2>12, <2>14
  <2> QED BY <2>13, <2>14, <2>15 DEF Delivery
<1> QED BY <1>6, <1>7

LEMMA RunRemoved ==
  ASSUME NEW x \in Nat, NEW n \in Nat
  PROVE  (0 .. x + n - 1) \ (x .. x + n - 1) = 0 .. x - 1
OBVIOUS

\* Fragments taken behind those that are out do not touch what was read.
LEMMA TakenBuffered ==
  ASSUME NEW h \in ItemType, NEW v \in ItemType, NEW n \in Nat, NEW U, NEW C, NEW r,
         v.acked = h.acked, v.pending = h.pending + n, v.total = h.total, v.payload = h.payload,
         C = h.acked + h.pending .. h.acked + h.pending + n - 1,
         Buffered(h, U, r)
  PROVE  Buffered(v, U \cup C, r)
<1>1. h.acked \in Nat /\ h.pending \in Nat
  BY DEF ItemType
<1>2. Arrived(v, U \cup C) = Arrived(h, U)
  <2> DEFINE x == h.acked + h.pending
             y == v.acked + v.pending
  <2>1. x \in Nat /\ y = x + n
    BY <1>1
  <2>2. /\ h.acked + h.pending - 1 = x - 1 /\ v.acked + v.pending - 1 = x + n - 1
        /\ C = x .. x + n - 1
    <3>1. h.acked + h.pending - 1 = x - 1
      BY <1>1
    <3>2. v.acked + v.pending - 1 = x + n - 1
      BY <1>1
    <3>3. C = x .. x + n - 1
      OBVIOUS
    <3> QED BY <3>1, <3>2, <3>3
  <2>3. Arrived(v, U \cup C) = (0 .. x + n - 1) \ (U \cup C)
    BY <2>2, Zenon DEF Arrived
  <2>4. Arrived(h, U) = (0 .. x - 1) \ U
    BY <2>2, Zenon DEF Arrived
  <2> HIDE DEF x, y
  <2>7. (0 .. x + n - 1) \ C = 0 .. x - 1
    BY <2>1, <2>2, RunRemoved
  <2>8. (0 .. x + n - 1) \ (U \cup C) = ((0 .. x + n - 1) \ C) \ U
    OBVIOUS
  <2> QED BY <2>3, <2>4, <2>7, <2>8
<1> QED BY <1>2 DEF Buffered

\* UpdateSubChannels takes nothing of the file stream.
LEMMA NoFileTaken ==
  ASSUME NEW a, Sound(a), a.waiting[1] = <<>>
  PROVE  Takes(a)[1] = 0 /\ Takes(a)[0] \in Nat /\ Takes(a)[0] <= Unsent(a, 0)
<1>1. /\ Takes(a) \in [Stream -> FragmentCount]
      /\ \A s \in Stream : Takes(a)[s] <= Unsent(a, s)
  BY TakesBounds
<1>2. Unsent(a, 1) = 0
  BY DEF Unsent
<1>3. Takes(a)[0] \in Nat /\ Takes(a)[1] \in Nat
  BY <1>1, FragmentAssumption, Streams DEF FragmentCount
<1> QED BY <1>1, <1>2, <1>3, Streams

\* What a subchannel that takes a run adds to the unread fragments.
LEMMA UnreadAfterTake ==
  ASSUME NEW p, NEW q, NEW a, NEW b, NEW d, NEW N, NEW i \in Subchannels, Sound(a),
         Protocol(p, q, a, b, N), TakesInto(a, d, i), d \in ChannelType
  PROVE  Unread(d, b) = Unread(a, b) \cup ChunkOf(d.sub[i], 0)
<1>1. /\ a.sub[i].state = "FREE" /\ d.sub[i].state = "TOSEND"
      /\ \A j \in Subchannels \ {i} : d.sub[j] = a.sub[j]
      /\ d.outRel = FlipBit(a.outRel, i)
  BY DEF TakesInto
<1>2. Idle(p, q, a, b, N, i)
  BY <1>1 DEF Protocol, Links, Link
<1>3. ~SameBit(d, b, i) /\ \A j \in Subchannels \ {i} : SameBit(d, b, j) <=> SameBit(a, b, j)
  BY <1>1, <1>2 DEF Idle, SameBit, FlipBit
<1>4. SubTaken(a, d, i)
  <2>1. d.sub \in [Subchannels -> SubchannelType]
    BY Fields
  <2> QED BY <1>1, <2>1, SenderParts DEF SubTaken
<1>5. /\ i \notin Carrying(a, 0)
      /\ d.sub[i].num[0] = 0 => Carrying(d, 0) = Carrying(a, 0)
      /\ d.sub[i].num[0] # 0 => Carrying(d, 0) = Carrying(a, 0) \cup {i}
  BY <1>4, InFlightAfterTake, Streams
<1>6. d.sub[i].num[0] = 0 => ChunkOf(d.sub[i], 0) = {}
  BY <1>4, ChunkFinite, Streams DEF SubTaken
<1>7. Carrying(a, 0) \subseteq Subchannels
  BY DEF Carrying
<1> DEFINE X == {j \in Carrying(a, 0) : ~SameBit(a, b, j)}
           Y == {j \in Carrying(d, 0) : ~SameBit(d, b, j)}
<1>8. \A j \in X : j \in Subchannels \ {i} /\ d.sub[j] = a.sub[j]
  BY <1>1, <1>5, <1>7
<1>9. CASE d.sub[i].num[0] = 0
  <2>1. Y = X
    BY <1>3, <1>5, <1>7, <1>9
  <2> HIDE DEF X, Y
  <2>2. UNION {ChunkOf(d.sub[j], 0) : j \in Y} = UNION {ChunkOf(a.sub[j], 0) : j \in X}
    BY <1>8, <2>1
  <2> QED BY <1>6, <1>9, <2>2 DEF Unread, X, Y
<1>10. CASE d.sub[i].num[0] # 0
  <2>1. Y = X \cup {i}
    BY <1>3, <1>5, <1>7, <1>10
  <2> HIDE DEF X, Y
  <2>2. UNION {ChunkOf(d.sub[j], 0) : j \in Y}
          = (UNION {ChunkOf(a.sub[j], 0) : j \in X}) \cup ChunkOf(d.sub[i], 0)
    BY <1>8, <2>1
  <2> QED BY <2>2 DEF Unread, X, Y
<1> QED BY <1>9, <1>10

\* UpdateSubChannels.
LEMMA UpdateDelivers ==
  ASSUME NEW p, NEW q, NEW a, NEW b, NEW N \in SUBSET DatagramType, NEW S \in Seq(Msg), NEW R,
         Sound(a), Sound(b), Protocol(p, q, a, b, N), Delivery(p, a, b, N, S, R)
  PROVE  Delivery(p, UpdateSubChannels(a), b, N, S, R)
<1> DEFINE d == UpdateSubChannels(a)
           list == a.waiting[0]
           n == Takes(a)[0]
<1>1. CASE d = a
  BY <1>1
<1>2. CASE d # a
  <2>1. d \in ChannelType /\ \A s \in Stream : d.waiting[s] =
              IF Takes(a)[s] = 0 THEN a.waiting[s]
              ELSE [a.waiting[s] EXCEPT ![1].pending = @ + Takes(a)[s]]
    BY <1>2, UpdateTyped
  <2>2. PICK i \in Subchannels : TakesInto(a, d, i)
    BY <1>2, UpdateTyped
  <2>3. d.stream = a.stream
    BY SenderParts DEF UpdateSubChannels, ChannelRecord
  <2> SUFFICES Delivery(p, d, b, N, S, R)
    OBVIOUS
  <2> HIDE DEF d
  <2>4. a.waiting[1] = <<>>
    BY DEF Delivery, Quiet
  <2>5. Takes(a)[1] = 0 /\ n \in Nat /\ n <= Unsent(a, 0)
    BY <2>4, NoFileTaken
  <2>6. /\ d.waiting[1] = <<>>
        /\ d.waiting[0] = IF n = 0 THEN list ELSE [list EXCEPT ![1].pending = @ + n]
    BY <2>1, <2>4, <2>5, Streams
  <2>7. /\ a.sub[i].state = "FREE" /\ \A j \in Subchannels \ {i} : d.sub[j] = a.sub[j]
        /\ d.sub[i].state = "TOSEND" /\ d.sub[i].start = Starts(a) /\ d.sub[i].num = Takes(a)
    BY <2>2 DEF TakesInto
  <2>8. Quiet(d)
    BY <2>6, <2>7 DEF Delivery, Quiet
  <2> DEFINE C == ChunkOf(d.sub[i], 0)
             U == Unread(a, b)
             r == b.recv[0]
  <2>9. Unread(d, b) = U \cup C
    BY <2>1, <2>2, UnreadAfterTake
  <2>10. \A k \in Accepts(p, b, N) : k.subch # -1 => k.subch \in Subchannels \ {i}
    BY <2>7, CarriedBy
  <2>11. list \in Seq(ItemType) /\ Len(list) \in Nat
    BY SenderParts
  <2>12. Follows(list, a.stream, U, r, S, R)
    BY DEF Delivery
  <2>13. CASE n = 0
    <3>1. C = {}
      <4>1. d.sub[i].num[0] = 0 /\ d.sub[i] \in SubchannelType
        BY <2>1, <2>7, <2>13, Fields
      <4> QED BY <4>1, ChunkFinite, Streams
    <3>2. Carried(p, d, b, N)
      BY <2>6, <2>7, <2>10, <2>13, SameChunks
    <3>3. Follows(d.waiting[0], d.stream, Unread(d, b), r, S, R)
      <4>1. Unread(d, b) = U
        BY <2>9, <3>1
      <4> HIDE DEF U
      <4> QED BY <2>3, <2>6, <2>12, <2>13, <4>1
    <3> QED BY <2>8, <3>2, <3>3 DEF Delivery
  <2>14. CASE n # 0
    <3>1. list # <<>> /\ list[1] \in ItemType /\ Starts(a)[0] = list[1].acked + list[1].pending
      BY <2>14, StartsTyped, Streams
    <3>2. 1 \in 1 .. Len(list) /\ 1 \in DOMAIN list
      BY <2>11, <3>1, ListHead
    <3> DEFINE h == [list[1] EXCEPT !.pending = @ + n]
    <3>3. /\ h \in ItemType /\ h.acked = list[1].acked /\ h.pending = list[1].pending + n
          /\ h.total = list[1].total /\ h.payload = list[1].payload /\ h.file = list[1].file
      <4> DEFINE g == list[1]
                 m == g.pending + n
      <4>1. m \in Nat
        <5>1. g.pending \in Nat
          BY <3>1 DEF ItemType
        <5> HIDE DEF g, n
        <5> QED BY <2>5, <5>1
      <4>2. g \in ItemType /\ h = [g EXCEPT !.pending = m]
        BY <3>1
      <4> HIDE DEF g, m, h
      <4>3. /\ h \in ItemType /\ h.acked = g.acked /\ h.pending = m
            /\ h.total = g.total /\ h.payload = g.payload /\ h.file = g.file
        BY <4>1, <4>2 DEF ItemType
      <4> QED BY <4>3 DEF g, m
    <3>4. d.waiting[0] = [list EXCEPT ![1] = h]
      BY <2>6, <2>14, <3>2
    <3> HIDE DEF h, list, U, r
    <3>5. /\ d.waiting[0] \in Seq(ItemType) /\ Len(d.waiting[0]) = Len(list) /\ d.waiting[0][1] = h
          /\ \A m \in 1 .. Len(list) : m # 1 => d.waiting[0][m] = list[m]
      <4> DEFINE v == [list EXCEPT ![1] = h]
      <4>1. /\ v \in Seq(ItemType) /\ Len(v) = Len(list)
            /\ \A m \in 1 .. Len(list) : v[m] = IF m = 1 THEN h ELSE list[m]
        BY <2>11, <3>2, <3>3, ExceptSeq
      <4> HIDE DEF v
      <4> QED BY <3>2, <3>4, <4>1 DEF v
    <3>6. C = list[1].acked + list[1].pending .. list[1].acked + list[1].pending + n - 1
      BY <2>7, <3>1 DEF ChunkOf
    <3> HIDE DEF C
    <3>7. Buffered(list[1], U, r) => Buffered(h, U \cup C, r)
      <4> HIDE DEF n
      <4> QED BY <2>5, <3>1, <3>3, <3>6, TakenBuffered
    <3>8. ~Handed(list[1], U, r)
      <4>1. Unsent(a, 0) = list[1].total - (list[1].acked + list[1].pending)
        BY <3>1 DEF Unsent, list
      <4>2. list[1].total \in Nat /\ list[1].acked \in Nat /\ list[1].pending \in Nat
        BY <3>1 DEF ItemType
      <4> HIDE DEF n
      <4> QED BY <2>5, <2>14, <4>1, <4>2 DEF Handed
    <3>9. Follows(d.waiting[0], a.stream, U \cup C, r, S, R)
      <4> DEFINE v == d.waiting[0]
                 X == U \cup C
      <4>1. /\ v \in Seq(ItemType) /\ Len(v) = Len(list) /\ \A m \in 1 .. Len(list) : m # 1 => v[m] = list[m]
            /\ v[1].payload = list[1].payload /\ v[1].file = list[1].file
            /\ Buffered(list[1], U, r) => Buffered(v[1], X, r)
            /\ Handed(list[1], U, r) => Handed(v[1], X, r)
        BY <3>3, <3>5, <3>7, <3>8
      <4> HIDE DEF v, X
      <4>2. Follows(v, a.stream, X, r, S, R)
        BY <2>11, <2>12, <3>1, <4>1, HeadFollows
      <4> QED BY <4>2 DEF v, X
    <3>10. Carried(p, d, b, N)
      <4>1. /\ d.waiting[0][1].total = a.waiting[0][1].total
            /\ d.waiting[0][1].file = a.waiting[0][1].file
            /\ d.waiting[0][1].payload = a.waiting[0][1].payload
        BY <3>3, <3>5 DEF list
      <4> QED BY <2>7, <2>10, <4>1, SameChunks
    <3>11. Follows(d.waiting[0], d.stream, Unread(d, b), b.recv[0], S, R)
      BY <2>3, <2>9, <3>9 DEF C, U, r
    <3> QED BY <2>8, <3>10, <3>11 DEF Delivery
  <2> QED BY <2>13, <2>14
<1> QED BY <1>1, <1>2

\* SendDatagram: the datagram has the chunks of the subchannel it names.
LEMMA SendDelivers ==
  ASSUME NEW p, NEW q, NEW a, NEW b, NEW N \in SUBSET DatagramType, NEW S \in Seq(Msg), NEW R,
         Sound(a), Sound(b), Protocol(p, q, a, b, N), Delivery(p, a, b, N, S, R)
  PROVE  Delivery(p, AfterSend(a), b, N \cup {Datagram(p, a)}, S, R)
<1> DEFINE d == AfterSend(a)
           i == MinOf(ToSend(a))
           k == Datagram(p, a)
<1>1. /\ Sound(d) /\ d.outRel = a.outRel
      /\ ToSend(a) = {} => d.sub = a.sub
      /\ ToSend(a) # {} => d.sub = [a.sub EXCEPT ![i].state = "WAITING", ![i].seq = a.outSeq]
  BY AfterSendSound
<1>2. d.stream = a.stream /\ d.waiting = a.waiting
  BY SenderParts DEF AfterSend, ChannelRecord
<1>3. ToSend(a) # {} => i \in Subchannels /\ a.sub[i].state = "TOSEND"
  <2>1. ToSend(a) \subseteq Subchannels
    BY DEF ToSend
  <2>2. ToSend(a) # {} => i \in ToSend(a)
    BY <2>1, FirstSubchannel
  <2> QED BY <2>2 DEF ToSend
<1>4. /\ ToSend(a) = {} => k.subch = -1
      /\ ToSend(a) # {} => k.subch = i /\ \A s \in Stream : k.chunk[s] = Chunk(a, a.sub[i], s)
  <2>1. ToSend(a) # {} => i # -1
    BY <1>3, SubchannelsNat
  <2> HIDE DEF i
  <2> QED BY <2>1 DEF Datagram, i
<1>5. a.sub \in [Subchannels -> SubchannelType]
  BY SenderParts
<1> HIDE DEF d, i, k
<1>6. \A j \in Subchannels : /\ d.sub[j].start = a.sub[j].start /\ d.sub[j].num = a.sub[j].num
                             /\ d.sub[j].state = a.sub[j].state
                                  \/ (a.sub[j].state = "TOSEND" /\ d.sub[j].state = "WAITING")
  BY <1>1, <1>3, <1>5 DEF SubchannelType
<1>7. Carrying(d, 0) = Carrying(a, 0) /\ \A j \in Subchannels : ChunkOf(d.sub[j], 0) = ChunkOf(a.sub[j], 0)
  BY <1>6 DEF Carrying, ChunkOf
<1>8. Unread(d, b) = Unread(a, b)
  <2>1. Carrying(a, 0) \subseteq Subchannels
    BY DEF Carrying
  <2>2. \A j : SameBit(d, b, j) <=> SameBit(a, b, j)
    BY <1>1 DEF SameBit
  <2> DEFINE X == {j \in Carrying(a, 0) : ~SameBit(a, b, j)}
             Y == {j \in Carrying(d, 0) : ~SameBit(d, b, j)}
  <2>3. Y = X /\ X \subseteq Subchannels
    BY <1>7, <2>1, <2>2
  <2> HIDE DEF X, Y
  <2>4. UNION {ChunkOf(d.sub[j], 0) : j \in Y} = UNION {ChunkOf(a.sub[j], 0) : j \in X}
    BY <1>7, <2>3
  <2> QED BY <2>4 DEF Unread, X, Y
<1>9. Quiet(d)
  BY <1>2, <1>6 DEF Delivery, Quiet
<1>10. \A j \in Subchannels, s \in Stream : Chunk(d, d.sub[j], s) = Chunk(a, a.sub[j], s)
  BY <1>2, <1>6 DEF Chunk
<1>11. Carried(p, d, b, N \cup {k})
  <2> SUFFICES ASSUME NEW l \in Accepts(p, b, N \cup {k}), l.subch # -1, NEW s \in Stream
               PROVE  l.chunk[s] = Chunk(d, d.sub[l.subch], s)
    BY DEF Carried
  <2>1. CASE l = k
    BY <1>3, <1>4, <1>10, <2>1
  <2>2. CASE l # k
    <3>1. l \in Accepts(p, b, N)
      BY <2>2 DEF Accepts
    <3>2. l.chunk[s] = Chunk(a, a.sub[l.subch], s) /\ l.subch \in Subchannels
      BY <3>1, CarriedBy DEF Delivery, Carried
    <3> QED BY <1>10, <3>2
  <2> QED BY <2>1, <2>2
<1>12. Delivery(p, d, b, N \cup {k}, S, R)
  BY <1>2, <1>8, <1>9, <1>11 DEF Delivery
<1> QED BY <1>12 DEF d, k

-----------------------------------------------------------------------------
(* The sender receives a header.                                             *)

\* The subchannels that the header of k answers: an acknowledged one has been
\* read, and one whose datagram would still be accepted is not answered.
LEMMA AnsweredByHeader ==
  ASSUME NEW p, NEW q, NEW a, NEW b, NEW N \in SUBSET DatagramType, NEW S, NEW R,
         Sound(a), Sound(b), Protocol(p, q, a, b, N), Delivery(p, a, b, N, S, R),
         NEW k \in Accepts(q, a, N)
  PROVE  /\ DirtyLost(a, k) = {} /\ DirtyDone(a, k) = {}
         /\ \A i \in AckedSubs(a, k) : i \in Subchannels /\ SameBit(a, b, i)
         /\ \A l \in Accepts(p, b, N) : l.subch # -1 =>
              AnsweredSub(a, k)[l.subch] = a.sub[l.subch]
<1>1. Numbers(a) /\ Numbers(b) /\ Stamps(N) /\ a.sub \in [Subchannels -> SubchannelType]
  BY SoundNumbers, TypedStamps, SenderParts
<1>2. Reached(a, k) = Subchannels
  BY <1>1, HeaderValid
<1>3. DirtyLost(a, k) = {} /\ DirtyDone(a, k) = {}
  BY <1>2 DEF Delivery, Quiet, DirtyLost, DirtyDone, MissedSubs
<1>4. ASSUME NEW i \in AckedSubs(a, k) PROVE i \in Subchannels /\ SameBit(a, b, i)
  <2>1. i \in Subchannels /\ Matches(a, k, i) /\ a.sub[i].state = "WAITING"
    BY <1>2 DEF AckedSubs
  <2>2. Underway(p, q, a, b, N, i)
    BY <2>1 DEF Protocol, Links, Link
  <2> QED BY <2>1, <2>2 DEF Underway
<1>5. ASSUME NEW l \in Accepts(p, b, N), l.subch # -1
      PROVE  AnsweredSub(a, k)[l.subch] = a.sub[l.subch]
  <2> DEFINE i == l.subch
  <2>1. i \in Subchannels /\ a.sub[i].seq = l.seq /\ ~SameBit(a, b, i)
    BY <1>5, CarriedBy
  <2>2. i \notin AckedSubs(a, k)
    BY <1>4, <2>1
  <2>3. i \notin MissedSubs(a, k)
    <3>1. l.seq > b.inSeq /\ l.seq \in Nat /\ b.inSeq \in Nat /\ k.ack \in Nat
      BY <1>1 DEF Accepts, Stamps, Numbers
    <3>2. k.ack <= b.inSeq
      BY DEF Protocol, Order, Accepts
    <3> QED BY <2>1, <3>1, <3>2 DEF MissedSubs
  <2> QED BY <1>1, <1>3, <2>1, <2>2, <2>3, NotAnswered
<1> QED BY <1>3, <1>4, <1>5

\* Acknowledged fragments were not unread.
LEMMA UnreadAfterAck ==
  ASSUME NEW a, NEW b, NEW c, NEW k, a.sub \in [Subchannels -> SubchannelType],
         DirtyLost(a, k) = {}, DirtyDone(a, k) = {},
         \A i \in AckedSubs(a, k) : i \in Subchannels /\ SameBit(a, b, i),
         c.sub = AnsweredSub(a, k), c.outRel = a.outRel
  PROVE  Unread(c, b) = Unread(a, b)
<1> DEFINE X == {j \in Carrying(a, 0) : ~SameBit(a, b, j)}
           Y == {j \in Carrying(c, 0) : ~SameBit(c, b, j)}
<1>1. \A j : SameBit(c, b, j) <=> SameBit(a, b, j)
  BY DEF SameBit
<1>2. ASSUME NEW j \in Subchannels, ~SameBit(a, b, j)
      PROVE  /\ j \in Carrying(c, 0) <=> j \in Carrying(a, 0)
             /\ c.sub[j].start = a.sub[j].start /\ c.sub[j].num = a.sub[j].num
  <2>1. j \notin AckedSubs(a, k)
    BY <1>2
  <2>2. \/ c.sub[j] = a.sub[j]
        \/ a.sub[j].state = "WAITING" /\ c.sub[j] = [a.sub[j] EXCEPT !.state = "TOSEND"]
    <3>1. /\ j \in MissedSubs(a, k) /\ a.sub[j].state = "WAITING" =>
              AnsweredSub(a, k)[j] = [a.sub[j] EXCEPT !.state = "TOSEND"]
          /\ /\ j \notin AckedSubs(a, k)
             /\ j \notin DirtyDone(a, k) \cup DirtyLost(a, k)
             /\ ~ (j \in MissedSubs(a, k) /\ a.sub[j].state = "WAITING")
             => AnsweredSub(a, k)[j] = a.sub[j]
      BY AnsweredCases
    <3> QED BY <2>1, <3>1
  <2>3. /\ c.sub[j].start = a.sub[j].start /\ c.sub[j].num = a.sub[j].num
        /\ c.sub[j].state \in {"TOSEND", "WAITING"} <=> a.sub[j].state \in {"TOSEND", "WAITING"}
    BY <2>2 DEF SubchannelType
  <2> QED BY <2>3 DEF Carrying
<1>3. Y = X /\ X \subseteq Subchannels /\ \A j \in X : ChunkOf(c.sub[j], 0) = ChunkOf(a.sub[j], 0)
  BY <1>1, <1>2 DEF Carrying, ChunkOf
<1> HIDE DEF X, Y
<1>4. UNION {ChunkOf(c.sub[j], 0) : j \in Y} = UNION {ChunkOf(a.sub[j], 0) : j \in X}
  BY <1>3
<1> QED BY <1>4 DEF Unread, X, Y

\* The head's counters move, its contents stay.
LEMMA AckedHead ==
  ASSUME NEW a, Sound(a), NEW k, a.waiting[0] # <<>>
  PROVE  /\ AckedList(a, k, 0)[1].payload = a.waiting[0][1].payload
         /\ AckedList(a, k, 0)[1].file = a.waiting[0][1].file
         /\ AckedList(a, k, 0)[1].acked + AckedList(a, k, 0)[1].pending
              = a.waiting[0][1].acked + a.waiting[0][1].pending
<1> DEFINE list == a.waiting[0]
           h == list[1]
           v == AckedList(a, k, 0)
           c == AckedFragments(a, k, 0)
<1>1. list \in Seq(ItemType) /\ 1 \in DOMAIN list /\ h \in ItemType
  BY SenderParts, ListHead
<1>2. v[1].payload = h.payload /\ v[1].file = h.file
  <2> HIDE DEF c
  <2>1. v = [list EXCEPT ![1].acked = @ + c, ![1].pending = @ - c]
    BY DEF AckedList, c
  <2>2. v[1] = [h EXCEPT !.acked = @ + c, !.pending = @ - c]
    BY <1>1, <2>1
  <2> HIDE DEF v, h
  <2> QED BY <1>1, <2>2 DEF ItemType
<1>3. c \in Nat /\ v[1].acked = h.acked + c /\ v[1].pending = h.pending - c
  BY AckedListTyped, Streams
<1>4. h.acked \in Nat /\ h.pending \in Nat
  BY <1>1 DEF ItemType
<1> HIDE DEF v, h, c, list
<1>5. v[1].acked + v[1].pending = (h.acked + c) + (h.pending - c)
  BY <1>3, Zenon
<1>6. (h.acked + c) + (h.pending - c) = h.acked + h.pending
  BY <1>3, <1>4
<1>7. v[1].acked + v[1].pending = h.acked + h.pending
  BY <1>5, <1>6, Zenon
<1> QED BY <1>2, <1>7 DEF v, h, list

\* The subchannel loop.
LEMMA AckDelivers ==
  ASSUME NEW p, NEW q, NEW a, NEW b, NEW N \in SUBSET DatagramType, NEW S \in Seq(Msg), NEW R,
         Sound(a), Sound(b), Protocol(p, q, a, b, N), Delivery(p, a, b, N, S, R),
         NEW k \in Accepts(q, a, N)
  PROVE  Delivery(p, AckSubChannels(a, k), b, N, S, R)
<1> DEFINE c == AckSubChannels(a, k)
           list == a.waiting[0]
           v == AckedList(a, k, 0)
           U == Unread(a, b)
           r == b.recv[0]
<1>1. /\ DirtyLost(a, k) = {} /\ DirtyDone(a, k) = {}
      /\ \A i \in AckedSubs(a, k) : i \in Subchannels /\ SameBit(a, b, i)
      /\ \A l \in Accepts(p, b, N) : l.subch # -1 => AnsweredSub(a, k)[l.subch] = a.sub[l.subch]
  BY AnsweredByHeader
<1>2. c.sub = AnsweredSub(a, k) /\ c.outRel = a.outRel
  <2>1. c.sub = AnsweredSub(a, k) /\ c.outRel = (a.outRel \ DirtyLost(a, k)) \cup (DirtyLost(a, k) \ a.outRel)
    BY AckSound
  <2> HIDE DEF c
  <2> QED BY <1>1, <2>1
<1>3. c.stream = a.stream /\ c.waiting = [s \in Stream |-> AckedList(a, k, s)]
  BY SenderParts DEF AckSubChannels, ChannelRecord
<1> HIDE DEF c
<1>4. c.waiting[0] = v /\ c.waiting[1] = <<>>
  <2>1. a.waiting[1] = <<>>
    BY DEF Delivery, Quiet
  <2> QED BY <1>3, <2>1, Streams DEF AckedList
<1>5. a.sub \in [Subchannels -> SubchannelType] /\ list \in Seq(ItemType) /\ Len(list) \in Nat
  BY SenderParts
<1>6. Unread(c, b) = U
  BY <1>1, <1>2, <1>5, UnreadAfterAck
<1>7. Quiet(c)
  <2>1. ASSUME NEW i \in Subchannels PROVE c.sub[i].state # "DIRTY"
    <3>1. a.sub[i].state # "DIRTY"
      BY DEF Delivery, Quiet
    <3>2. \/ c.sub[i] = FreeSub \/ c.sub[i] = a.sub[i]
          \/ c.sub[i] = [a.sub[i] EXCEPT !.state = "TOSEND"]
      BY <1>2, <1>5, AnsweredCases
    <3> QED BY <1>5, <3>1, <3>2 DEF SubchannelType, FreeSub
  <2> QED BY <1>4, <2>1 DEF Quiet
<1>8. Follows(list, a.stream, U, r, S, R)
  BY DEF Delivery
<1>9. CASE list = <<>>
  <2>1. v = list
    BY <1>9 DEF AckedList
  <2>2. Carried(p, c, b, N)
    <3>1. \A l \in Accepts(p, b, N) : l.subch # -1 => (a.sub[l.subch].num[0] # 0 => list # <<>>)
      BY CarriedBy
    <3> QED BY <1>1, <1>2, <1>9, <3>1, SameChunks
  <2>3. Follows(c.waiting[0], c.stream, Unread(c, b), b.recv[0], S, R)
    <3> HIDE DEF U, v, list
    <3> QED BY <1>3, <1>4, <1>6, <1>8, <2>1
  <2> QED BY <1>7, <2>2, <2>3 DEF Delivery, c
<1>10. CASE list # <<>>
  <2>1. /\ v \in Seq(ItemType) /\ DOMAIN v = DOMAIN list /\ v[1].total = list[1].total
        /\ \A n \in DOMAIN list \ {1} : v[n] = list[n]
    BY <1>10, AckedListTyped, Streams
  <2>2. /\ v[1].payload = list[1].payload /\ v[1].file = list[1].file
        /\ v[1].acked + v[1].pending = list[1].acked + list[1].pending
    BY <1>10, AckedHead
  <2> HIDE DEF v, list, U, r
  <2>3. Len(v) = Len(list) /\ \A n \in 1 .. Len(list) : n # 1 => v[n] = list[n]
    BY <1>5, <2>1
  <2>4. Arrived(v[1], U) = Arrived(list[1], U)
    <3>1. v[1].acked \in Nat /\ v[1].pending \in Nat /\ list[1].acked \in Nat /\ list[1].pending \in Nat
      <4>1. v[1] \in ItemType /\ list[1] \in ItemType
        <5>1. v # <<>>
          BY <1>10, AckedListTyped, Streams DEF list, v
        <5> QED BY <1>5, <1>10, <2>1, <5>1, ListHead
      <4> QED BY <4>1 DEF ItemType
    <3> DEFINE x == v[1].acked + v[1].pending
               y == list[1].acked + list[1].pending
    <3>2. /\ v[1].acked + v[1].pending - 1 = x - 1
          /\ list[1].acked + list[1].pending - 1 = y - 1
      <4>1. \A m, n \in Nat : m + n - 1 = (m + n) - 1
        OBVIOUS
      <4> QED BY <3>1, <4>1, Zenon
    <3>3. Arrived(v[1], U) = (0 .. x - 1) \ U /\ Arrived(list[1], U) = (0 .. y - 1) \ U
      BY <3>2, Zenon DEF Arrived
    <3>4. x = y
      BY <2>2
    <3> HIDE DEF x, y
    <3> QED BY <3>3, <3>4
  <2>5. /\ Buffered(list[1], U, r) => Buffered(v[1], U, r)
        /\ Handed(list[1], U, r) => Handed(v[1], U, r)
    BY <2>1, <2>2, <2>4 DEF Buffered, Handed
  <2>6. Follows(v, a.stream, U, r, S, R)
    BY <1>5, <1>8, <1>10, <2>1, <2>2, <2>3, <2>5, HeadFollows
  <2>7. Carried(p, c, b, N)
    <3>1. /\ c.waiting[0][1].total = a.waiting[0][1].total
          /\ c.waiting[0][1].file = a.waiting[0][1].file
          /\ c.waiting[0][1].payload = a.waiting[0][1].payload
      BY <1>4, <2>1, <2>2 DEF list
    <3> QED BY <1>1, <1>2, <3>1, SameChunks
  <2>8. Follows(c.waiting[0], c.stream, Unread(c, b), b.recv[0], S, R)
    BY <1>3, <1>4, <1>6, <2>6 DEF r
  <2> QED BY <1>7, <2>7, <2>8 DEF Delivery, c
<1> QED BY <1>9, <1>10

\* CheckWaitingList: a head that is acknowledged completely was handed over.
LEMMA RemoveDelivers ==
  ASSUME NEW p, NEW c, NEW d, NEW b, NEW N, NEW S \in Seq(Msg), NEW R, NEW ack, Sound(c),
         Delivery(p, c, b, N, S, R),
         d.sub = c.sub, d.outRel = c.outRel, d.stream = c.stream,
         d.waiting[0] = CheckWaitingList(c.waiting[0], ack), d.waiting[1] = <<>>,
         \A l \in Accepts(p, b, N) : l.subch # -1 =>
           /\ l.subch \in Subchannels /\ c.sub[l.subch].state = "WAITING" /\ c.sub[l.subch].num[1] = 0
  PROVE  Delivery(p, d, b, N, S, R)
<1> DEFINE list == c.waiting[0]
           r == b.recv[0]
<1>1. list \in Seq(ItemType) /\ c.sub \in [Subchannels -> SubchannelType] /\ c.waiting[1] = <<>>
  BY SenderParts DEF Delivery, Quiet
<1>2. Unread(d, b) = Unread(c, b)
  BY SameUnread
<1>3. Quiet(d)
  BY DEF Delivery, Quiet
<1>4. Follows(list, c.stream, Unread(c, b), r, S, R)
  BY DEF Delivery
<1>5. CASE d.waiting[0] = list
  <2>1. \A s \in Stream : d.waiting[s] = c.waiting[s]
    BY <1>1, <1>5, Streams
  <2>2. Carried(p, d, b, N)
    BY <2>1 DEF Delivery, Carried, Chunk
  <2>3. Follows(d.waiting[0], d.stream, Unread(d, b), b.recv[0], S, R)
    BY <1>2, <1>4, <1>5
  <2> QED BY <1>3, <2>2, <2>3 DEF Delivery
<1>6. CASE d.waiting[0] # list
  <2>1. list # <<>> /\ list[1].acked = list[1].total /\ d.waiting[0] = Tail(list)
    BY <1>6 DEF CheckWaitingList
  <2>2. list[1] \in ItemType /\ list[1].acked + list[1].pending <= list[1].total
    BY <2>1, SenderParts
  <2>3. list[1].acked \in Nat /\ list[1].pending \in Nat /\ list[1].total \in Nat
    BY <2>2 DEF ItemType
  <2>4. list[1].pending = 0
    BY <2>1, <2>2, <2>3
  <2>5. Carrying(c, 0) = {} /\ Unread(c, b) = {}
    BY <2>1, <2>4, NothingCarried
  <2>6. ~Buffered(list[1], {}, r)
    <3>1. list[1].acked + list[1].pending - 1 = list[1].total - 1
      BY <2>1, <2>3, <2>4
    <3>2. Arrived(list[1], {}) = 0 .. list[1].total - 1
      BY <3>1 DEF Arrived
    <3> QED BY <3>2 DEF Buffered
  <2>7. \A n \in 1 .. Len(list) : n # 1 => list[n].acked = 0 /\ list[n].pending = 0
    BY SenderParts
  <2>8. Follows(Tail(list), c.stream, {}, r, S, R)
    <3> DEFINE U == {}
    <3>1. Follows(list, c.stream, U, r, S, R) /\ ~Buffered(list[1], U, r)
      BY <1>4, <2>5, <2>6
    <3> HIDE DEF U, list, r
    <3>2. Follows(Tail(list), c.stream, {}, r, S, R)
      BY <1>1, <2>1, <2>7, <3>1, RemoveFollows
    <3> QED BY <3>2
  <2>9. Carried(p, d, b, N)
    <3> SUFFICES ASSUME NEW l \in Accepts(p, b, N), l.subch # -1, NEW s \in Stream
                 PROVE  l.chunk[s] = Chunk(d, d.sub[l.subch], s)
      BY DEF Carried
    <3>1. c.sub[l.subch].num[0] \in Nat
      BY <1>1, ChunkFinite, Streams
    <3>2. c.sub[l.subch].num[0] = 0
      BY <2>5, <3>1 DEF Carrying
    <3>3. c.sub[l.subch].num[s] = 0
      BY <3>2, Streams
    <3>4. l.chunk[s] = Chunk(c, c.sub[l.subch], s)
      BY DEF Delivery, Carried
    <3> QED BY <3>3, <3>4 DEF Chunk
  <2>10. Follows(d.waiting[0], d.stream, Unread(d, b), b.recv[0], S, R)
    BY <1>2, <2>1, <2>5, <2>8
  <2> QED BY <1>3, <2>9, <2>10 DEF Delivery
<1> QED BY <1>5, <1>6

\* ProcessPacketHeader.
LEMMA HeaderDelivers ==
  ASSUME NEW p, NEW q, NEW a, NEW b, NEW N \in SUBSET DatagramType, NEW S \in Seq(Msg), NEW R,
         Sound(a), Sound(b), Protocol(p, q, a, b, N), Delivery(p, a, b, N, S, R),
         NEW k \in Accepts(q, a, N)
  PROVE  /\ Delivery(p, ProcessPacketHeader(a, k), b, N, S, R)
         /\ ProcessPacketHeader(a, k).recv = a.recv
<1> DEFINE c == AckSubChannels(a, k)
           e == [c EXCEPT !.drop = k.seq - (a.inSeq + k.choked + 1)]
           f == ProcessPacketHeader(a, k)
<1>1. /\ Sound(c) /\ c.sub = AnsweredSub(a, k)
  BY AckSound
<1>2. c.recv = a.recv
  BY SenderParts DEF AckSubChannels, ChannelRecord
<1>3. Delivery(p, c, b, N, S, R)
  BY AckDelivers
<1>4. Invalid(a, k) = {}
  BY SoundNumbers, TypedStamps, HeaderValid
<1>5. f = [e EXCEPT !.inSeq = k.seq, !.outSeqAck = k.ack,
                    !.waiting = [s \in Stream |-> CheckWaitingList(@[s], k.ack)]]
  BY <1>4 DEF ProcessPacketHeader
<1> HIDE DEF c, f
<1>6. c \in ChannelRecord
  BY <1>1, SenderParts
<1>7. /\ f.sub = c.sub /\ f.outRel = c.outRel /\ f.stream = c.stream /\ f.recv = c.recv
      /\ f.waiting = [s \in Stream |-> CheckWaitingList(c.waiting[s], k.ack)]
  BY <1>5, <1>6 DEF ChannelRecord
<1>8. f.waiting[0] = CheckWaitingList(c.waiting[0], k.ack) /\ f.waiting[1] = <<>>
  <2>1. c.waiting[1] = <<>>
    BY <1>3 DEF Delivery, Quiet
  <2> QED BY <1>7, <2>1, Streams DEF CheckWaitingList
<1>9. ASSUME NEW l \in Accepts(p, b, N), l.subch # -1
      PROVE  l.subch \in Subchannels /\ c.sub[l.subch].state = "WAITING" /\ c.sub[l.subch].num[1] = 0
  <2>1. c.sub[l.subch] = a.sub[l.subch]
    BY <1>1, <1>9, AnsweredByHeader
  <2> QED BY <1>9, <2>1, CarriedBy
<1>10. Delivery(p, f, b, N, S, R)
  BY <1>1, <1>3, <1>7, <1>8, <1>9, RemoveDelivers
<1> QED BY <1>2, <1>7, <1>10 DEF f

-----------------------------------------------------------------------------
(* The receiver reads a chunk.                                               *)

\* A chunk of head item g, the fragments C, all of them unread.
ChunkOfHead(g, U, c, C) ==
  /\ c.num \in Nat \ {0} /\ c.start \in Nat /\ C = c.start .. c.start + c.num - 1
  /\ c.total = g.total /\ c.file = g.file /\ c.payload = g.payload
  /\ C \subseteq U /\ U \subseteq 0 .. g.acked + g.pending - 1
  /\ g.acked + g.pending <= g.total

\* Which fragments are read then, and how many.
More(g, U, c, C) ==
  /\ Arrived(g, U \ C) = Arrived(g, U) \cup C
  /\ Arrived(g, U) \subseteq 0 .. g.total - 1 /\ C \subseteq 0 .. g.total - 1
  /\ IsFiniteSet(Arrived(g, U)) /\ Cardinality(Arrived(g, U)) \in Nat
  /\ IsFiniteSet(C) /\ Cardinality(C) = c.num
  /\ Cardinality(Arrived(g, U) \cup C) = Cardinality(Arrived(g, U)) + c.num
  /\ c.start \in C /\ c.start + c.num <= g.total

LEMMA ArrivedMore ==
  ASSUME NEW g \in ItemType, NEW U, NEW c, NEW C, ChunkOfHead(g, U, c, C)
  PROVE  More(g, U, c, C)
<1> DEFINE A == Arrived(g, U)
           P == 0 .. g.acked + g.pending - 1
<1>1. g.acked \in Nat /\ g.pending \in Nat /\ g.total \in Nat /\ g.acked + g.pending <= g.total
  BY DEF ItemType, ChunkOfHead
<1>2. /\ C \subseteq U /\ U \subseteq P /\ A = P \ U
      /\ c.num \in Nat \ {0} /\ c.start \in Nat /\ C = c.start .. c.start + c.num - 1
  BY DEF ChunkOfHead, Arrived
<1>3. Arrived(g, U \ C) = P \ (U \ C)
  BY DEF Arrived
<1>4. P \subseteq 0 .. g.total - 1 /\ IsFiniteSet(P)
  <2> DEFINE x == g.acked
             y == g.pending
             t == g.total
  <2>1. x \in Nat /\ y \in Nat /\ t \in Nat /\ x + y <= t /\ P = 0 .. x + y - 1
    BY <1>1
  <2> HIDE DEF x, y, t, P
  <2>2. P \subseteq 0 .. t - 1
    BY <2>1
  <2>3. x + y - 1 \in Int /\ 0 \in Int
    BY <2>1
  <2>4. IsFiniteSet(0 .. x + y - 1)
    BY <2>3, FS_Interval
  <2> QED BY <2>1, <2>2, <2>4 DEF t
<1> HIDE DEF P, A
<1>5. A \cap C = {} /\ P \ (U \ C) = A \cup C /\ A \subseteq P /\ C \subseteq P
  BY <1>2
<1>6. IsFiniteSet(C) /\ Cardinality(C) = c.num
  <2> DEFINE x == c.start
             n == c.num
  <2>1. x \in Int /\ n \in Nat /\ C = x .. x + n - 1
    BY <1>2
  <2> HIDE DEF x, n
  <2>2. IsFiniteSet(x .. x + n - 1) /\ Cardinality(x .. x + n - 1) = n
    BY <2>1, RunSize
  <2> QED BY <2>1, <2>2 DEF n
<1>7. IsFiniteSet(A) /\ Cardinality(A) \in Nat
  BY <1>4, <1>5, FS_Subset, FS_CardinalityType
<1>8. Cardinality(A \cup C) = Cardinality(A) + c.num
  <2>1. Cardinality(A \cup C) = Cardinality(A) + Cardinality(C) - Cardinality(A \cap C)
    BY <1>6, <1>7, FS_Union
  <2>2. Cardinality(A \cap C) = 0
    BY <1>5, FS_EmptySet
  <2> QED BY <1>2, <1>6, <1>7, <2>1, <2>2
<1>9. c.start \in C /\ c.start + c.num - 1 \in C
  BY <1>2
<1>10. c.start + c.num <= g.total
  <2>1. c.start + c.num - 1 \in 0 .. g.total - 1
    BY <1>4, <1>5, <1>9
  <2> QED BY <1>1, <1>2, <2>1
<1> QED BY <1>3, <1>4, <1>5, <1>6, <1>7, <1>8, <1>9, <1>10 DEF A, More

\* A chunk that cannot be read leaves the receive list as it is.
LEMMA ChunkRefused ==
  ASSUME NEW g \in ItemType, NEW U, NEW c, NEW C, ChunkOfHead(g, U, c, C), NEW r, ~Readable(r, c)
  PROVE  ReadSubChannelData(r, c) = r
<1>1. c.start + c.num <= g.total /\ c.total = g.total /\ c.num # 0
  <2>1. c.start + c.num <= g.total
    BY ArrivedMore DEF More
  <2> QED BY <2>1 DEF ChunkOfHead
<1>2. c.start # 0
  BY <1>1 DEF Readable, OpenList
<1> QED BY <1>1, <1>2 DEF ReadSubChannelData, OpenList

\* One that can be read is in the receive list afterwards.
Holds(g, V, l) ==
  /\ l.open /\ l.total = g.total /\ ~l.file /\ 0 \in Arrived(g, V)
  /\ l.acked = Cardinality(Arrived(g, V))
  /\ \A n \in Arrived(g, V) : l.buf[n + 1] = <<g.payload, n + 1>>

LEMMA ChunkRead ==
  ASSUME NEW g \in ItemType, NEW U, NEW c, NEW C, ChunkOfHead(g, U, c, C), ~g.file,
         NEW r \in ListType, Buffered(g, U, r), Readable(r, c)
  PROVE  Holds(g, U \ C, ReadSubChannelData(r, c))
<1> DEFINE A == Arrived(g, U)
           B == Arrived(g, U \ C)
           o == OpenList(r, c)
           l == ReadSubChannelData(r, c)
           buf == [n \in 1 .. o.total |->
                     IF n - 1 \in c.start .. c.start + c.num - 1 THEN <<c.payload, n>> ELSE o.buf[n]]
<1>1. /\ B = A \cup C /\ A \subseteq 0 .. g.total - 1 /\ C \subseteq 0 .. g.total - 1
      /\ Cardinality(A) \in Nat /\ Cardinality(A \cup C) = Cardinality(A) + c.num
      /\ c.start \in C /\ g.total \in Nat
  <2>1. g.total \in Nat
    BY DEF ItemType
  <2>2. More(g, U, c, C)
    BY ArrivedMore
  <2> HIDE DEF o, l, buf
  <2> QED BY <2>1, <2>2 DEF More
<1>2. /\ c.num \in Nat \ {0} /\ c.start \in Nat /\ C = c.start .. c.start + c.num - 1
      /\ c.total = g.total /\ c.payload = g.payload /\ C \subseteq U /\ ~c.file
  BY DEF ChunkOfHead
<1>3. A \cap U = {}
  BY DEF Arrived
<1>4. /\ o.open /\ o.total = g.total /\ ~o.file /\ o.acked = Cardinality(A)
      /\ \A n \in A : o.buf[n + 1] = <<g.payload, n + 1>>
      /\ 0 \in B
      /\ o \in [open : BOOLEAN, total : Nat, acked : Nat, file : BOOLEAN, buf : Seq(BufferElement)]
           \/ o = [open |-> TRUE, total |-> c.total, acked |-> 0, file |-> c.file,
                       buf |-> [n \in 1 .. c.total |-> <<>>]]
  <2>1. CASE c.start = 0
    <3>1. 0 \in C /\ 0 \notin A
      BY <1>1, <1>2, <1>3, <2>1
    <3>2. ~r.open /\ A = {}
      BY <3>1 DEF Buffered
    <3>3. Cardinality(A) = 0
      BY <3>2, FS_EmptySet
    <3>4. o = [open |-> TRUE, total |-> c.total, acked |-> 0, file |-> c.file,
                       buf |-> [n \in 1 .. c.total |-> <<>>]]
      BY <2>1 DEF OpenList
    <3> HIDE DEF o, A, B
    <3> QED BY <1>1, <1>2, <3>1, <3>2, <3>3, <3>4
  <2>2. CASE c.start # 0
    <3>1. o = r
      BY <2>2 DEF OpenList
    <3>2. r.open
      BY <3>1 DEF Readable
    <3>3. /\ 0 \in A /\ r.total = g.total /\ ~r.file /\ r.acked = Cardinality(A)
          /\ \A n \in A : r.buf[n + 1] = <<g.payload, n + 1>>
      BY <3>2 DEF Buffered
    <3> HIDE DEF o, A, B
    <3> QED BY <1>1, <3>1, <3>2, <3>3 DEF ListType, BufferElement
  <2> QED BY <2>1, <2>2
<1>5. l = [o EXCEPT !.acked = @ + c.num, !.buf = buf]
  <2>1. c.num # 0
    BY <1>2
  <2> QED BY <2>1 DEF ReadSubChannelData
<1> HIDE DEF o, l, buf, A, B
<1>6. /\ l.open = o.open /\ l.total = o.total /\ l.file = o.file /\ l.acked = o.acked + c.num /\ l.buf = buf
  BY <1>4, <1>5
<1>7. ASSUME NEW n \in B PROVE buf[n + 1] = <<g.payload, n + 1>>
  <2>1. n \in 0 .. g.total - 1 /\ n + 1 \in 1 .. o.total /\ n + 1 - 1 = n
    BY <1>1, <1>4
  <2>2. buf[n + 1] = IF n \in C THEN <<c.payload, n + 1>> ELSE o.buf[n + 1]
    BY <1>2, <2>1 DEF buf
  <2>3. CASE n \in C
    BY <1>2, <2>2, <2>3
  <2>4. CASE n \notin C
    BY <1>1, <1>4, <2>2, <2>4
  <2> QED BY <2>3, <2>4
<1> QED BY <1>1, <1>4, <1>6, <1>7 DEF Holds, l, B

-----------------------------------------------------------------------------
(* CheckReceivingList.                                                       *)

\* A buffer that has not everything is left alone.
LEMMA Incomplete ==
  ASSUME NEW g \in ItemType, NEW V, NEW l, Holds(g, V, l),
         Arrived(g, V) \subseteq 0 .. g.total - 1, Arrived(g, V) # 0 .. g.total - 1
  PROVE  ~Complete(l) /\ ~TooMany(l)
<1> DEFINE A == Arrived(g, V)
           T == 0 .. g.total - 1
<1>1. g.total \in Nat
  BY DEF ItemType
<1>2. IsFiniteSet(T) /\ Cardinality(T) = g.total
  BY <1>1, RunSize
<1>3. A \subseteq T /\ A # T
  OBVIOUS
<1> HIDE DEF A, T
<1>4. Cardinality(A) \in Nat /\ Cardinality(A) < Cardinality(T)
  <2>1. IsFiniteSet(A) /\ Cardinality(A) \in Nat /\ Cardinality(A) <= Cardinality(T)
    BY <1>2, <1>3, FS_Subset, FS_CardinalityType
  <2>2. Cardinality(A) # Cardinality(T)
    BY <1>2, <1>3, FS_Subset
  <2> QED BY <1>1, <1>2, <2>1, <2>2
<1>5. l.acked = Cardinality(A) /\ l.total = g.total
  BY DEF Holds, A
<1> QED BY <1>1, <1>2, <1>4, <1>5 DEF Complete, TooMany

\* One that has everything holds the messages of the item.
LEMMA WholeItem ==
  ASSUME NEW g \in ItemType, NEW V, NEW l, Holds(g, V, l), Arrived(g, V) = 0 .. g.total - 1,
         Clearing = {}, Failing = {}, NEW got
  PROVE  Complete(l) /\ Handled(l, got) = g.payload
<1>1. g.total \in Nat \ {0} /\ g.payload \in Seq(Msg)
  BY DEF ItemType
<1>2. Cardinality(0 .. g.total - 1) = g.total
  <2> DEFINE t == g.total
  <2>1. t \in Nat /\ 0 \in Int /\ 0 + t - 1 = t - 1
    BY <1>1
  <2> HIDE DEF t
  <2>2. Cardinality(0 .. 0 + t - 1) = t
    BY <2>1, RunSize
  <2>3. Cardinality(0 .. t - 1) = t
    BY <2>1, <2>2
  <2> QED BY <2>3 DEF t
<1>3. l.open /\ l.total = g.total /\ ~l.file /\ l.acked = g.total
  BY <1>2 DEF Holds
<1>4. ASSUME NEW n \in 1 .. l.total PROVE l.buf[n] = <<g.payload, n>>
  <2>1. n - 1 \in 0 .. g.total - 1 /\ n - 1 + 1 = n
    BY <1>1, <1>3
  <2> QED BY <2>1 DEF Holds
<1>5. l.buf[1][1] = g.payload
  <2>1. 1 \in 1 .. l.total
    BY <1>1, <1>3
  <2> QED BY <1>4, <2>1
<1>6. Contents(l) = g.payload
  <2>1. \A n \in 1 .. l.total : l.buf[n] # <<>> /\ l.buf[n] = <<l.buf[1][1], n>>
    BY <1>4, <1>5
  <2> QED BY <1>5, <2>1 DEF Contents
<1>7. Processed(g.payload) = g.payload
  BY DEF Processed, Stops
<1> QED BY <1>3, <1>6, <1>7 DEF Complete, Handled

\* When the receiver takes the bit of subchannel i, its chunk is unread no more.
LEMMA UnreadAfterRead ==
  ASSUME NEW a, Sound(a), NEW b, NEW e, NEW i \in Subchannels, ~SameBit(a, b, i),
         e.inRel = FlipBit(b.inRel, i)
  PROVE  /\ i \notin Carrying(a, 0) => Unread(a, e) = Unread(a, b)
         /\ i \in Carrying(a, 0) => /\ Unread(a, e) = Unread(a, b) \ ChunkOf(a.sub[i], 0)
                                    /\ ChunkOf(a.sub[i], 0) \subseteq Unread(a, b)
         /\ Unread(a, b) \subseteq InFlight(a, 0)
<1> DEFINE Open(x) == {j \in Carrying(a, 0) : ~SameBit(a, x, j)}
           K(j) == ChunkOf(a.sub[j], 0)
<1>1. SameBit(a, e, i) /\ \A j : j # i => (SameBit(a, e, j) <=> SameBit(a, b, j))
  BY DEF SameBit, FlipBit
<1>2. Open(e) = Open(b) \ {i} /\ (i \in Carrying(a, 0) <=> i \in Open(b))
  BY <1>1
<1>3. Unread(a, b) = UNION {K(j) : j \in Open(b)} /\ Unread(a, e) = UNION {K(j) : j \in Open(e)}
  BY DEF Unread
<1>4. \A j \in Open(b) \ {i} : i \in Carrying(a, 0) => K(j) \cap K(i) = {}
  BY Streams DEF Sound, Accounting
<1>5. InFlight(a, 0) = UNION {K(j) : j \in Carrying(a, 0)}
  BY DEF InFlight
<1>6. Open(b) \subseteq Carrying(a, 0)
  OBVIOUS
<1> HIDE DEF Open, K
<1>7. Unread(a, b) \subseteq InFlight(a, 0)
  BY <1>3, <1>5, <1>6
<1>8. ASSUME i \in Carrying(a, 0)
      PROVE  Unread(a, e) = Unread(a, b) \ K(i) /\ K(i) \subseteq Unread(a, b)
  BY <1>2, <1>3, <1>4, <1>8
<1>9. ASSUME i \notin Carrying(a, 0) PROVE Unread(a, e) = Unread(a, b)
  BY <1>2, <1>3, <1>9
<1> QED BY <1>7, <1>8, <1>9 DEF K

\* Nothing is left to be handled in the receive list of a channel at rest.
LEMMA NothingComplete ==
  ASSUME NEW w, w # <<>> => w[1] \in ItemType /\ w[1].acked + w[1].pending <= w[1].total,
         NEW st, NEW U, NEW r, NEW S, NEW R, Follows(w, st, U, r, S, R)
  PROVE  ~Complete(r) /\ ~TooMany(r)
<1>1. \/ ~r.open
      \/ w # <<>> /\ r.open /\ Buffered(w[1], U, r)
  BY DEF Follows, Stage, Handed
<1>2. CASE ~r.open
  BY <1>2 DEF Complete, TooMany
<1>3. CASE w # <<>> /\ r.open /\ Buffered(w[1], U, r)
  <2> DEFINE g == w[1]
  <2>1. g \in ItemType /\ g.acked + g.pending <= g.total
    BY <1>3
  <2>2. g.acked \in Nat /\ g.pending \in Nat /\ g.total \in Nat
    BY <2>1 DEF ItemType
  <2>3. Holds(g, U, r) /\ Arrived(g, U) # 0 .. g.total - 1
    BY <1>3 DEF Buffered, Holds
  <2>4. Arrived(g, U) \subseteq 0 .. g.total - 1
    <3>1. Arrived(g, U) \subseteq 0 .. g.acked + g.pending - 1
      BY DEF Arrived
    <3>2. 0 .. g.acked + g.pending - 1 \subseteq 0 .. g.total - 1
      BY <2>1, <2>2
    <3> QED BY <3>1, <3>2
  <2> HIDE DEF g
  <2> QED BY <2>1, <2>3, <2>4, Incomplete
<1> QED BY <1>1, <1>2, <1>3

\* A head of which everything arrived has nothing in flight or unsent.
LEMMA AllArrived ==
  ASSUME NEW g \in ItemType, NEW V, V \subseteq 0 .. g.acked + g.pending - 1,
         g.acked + g.pending <= g.total, Arrived(g, V) = 0 .. g.total - 1
  PROVE  V = {} /\ g.acked + g.pending = g.total
<1> DEFINE n == g.acked + g.pending
           t == g.total
<1>1. n \in Nat /\ t \in Nat \ {0} /\ n <= t
  BY DEF ItemType
<1>2. 0 .. t - 1 = (0 .. n - 1) \ V /\ V \subseteq 0 .. n - 1
  <2>1. g.acked + g.pending - 1 = n - 1
    BY DEF ItemType
  <2> QED BY <2>1 DEF Arrived
<1> HIDE DEF n, t
<1>3. t - 1 \in 0 .. n - 1
  <2>1. t - 1 \in 0 .. t - 1
    BY <1>1
  <2> QED BY <1>2, <2>1
<1>4. n = t
  BY <1>1, <1>3
<1>5. V = {}
  BY <1>2, <1>4
<1> QED BY <1>4, <1>5 DEF n, t

\* The head after one more of its chunks: it is still incomplete, or complete
\* and handled.
LEMMA ChunkFollows ==
  ASSUME NEW w \in Seq(ItemType), w # <<>>, NEW S \in Seq(Msg), NEW U, NEW c, NEW C, NEW st,
         NEW r \in ListType, NEW R, ChunkOfHead(w[1], U, c, C), Readable(r, c),
         Clearing = {}, Failing = {}, Follows(w, st, U, r, S, R)
  PROVE  LET l == ReadSubChannelData(r, c)
         IN  \/ ~Complete(l) /\ ~TooMany(l) /\ Follows(w, st, U \ C, l, S, R)
             \/ /\ Complete(l) /\ (\A got : Handled(l, got) = w[1].payload)
                /\ \A x : ~x.open => Follows(w, st, U \ C, x, S, R \o w[1].payload)
<1> DEFINE g == w[1]
           V == U \ C
           l == ReadSubChannelData(r, c)
<1>1. g \in ItemType
  BY ListHead
<1>2. More(g, U, c, C)
  BY <1>1, ArrivedMore
<1>3. /\ C \subseteq U /\ U \subseteq 0 .. g.acked + g.pending - 1 /\ g.acked + g.pending <= g.total
  BY DEF ChunkOfHead
<1>4. U # {}
  BY <1>2, <1>3 DEF More
<1>5. ~Handed(g, U, r)
  BY <1>4 DEF Handed
<1>6. Buffered(g, U, r) /\ ~g.file
  <2>1. PICK B \in Cuts(w, S) : Layout(w, st, S, B) /\ Stage(w, U, r, S, R, B)
    BY DEF Follows
  <2>2. 1 \in 1 .. Len(w)
    BY LenProperties, EmptySeq
  <2> QED BY <1>5, <2>1, <2>2 DEF Layout, Stage
<1>7. Holds(g, V, l)
  BY <1>1, <1>6, ChunkRead
<1>8. V \subseteq 0 .. g.acked + g.pending - 1
  BY <1>3
<1>9. Arrived(g, V) \subseteq 0 .. g.total - 1
  BY <1>2 DEF More
<1>10. \A x : Follows(w, st, U, r, S, R) /\ ~Handed(w[1], U, r) /\ Handed(w[1], V, x)
                => Follows(w, st, V, x, S, R \o w[1].payload)
  BY HandFollows
<1>11. (Buffered(w[1], U, r) => Buffered(w[1], V, l)) /\ (Handed(w[1], U, r) => Handed(w[1], V, l))
         => Follows(w, st, V, l, S, R)
  BY HeadFollows
<1> SUFFICES \/ ~Complete(l) /\ ~TooMany(l) /\ Follows(w, st, V, l, S, R)
             \/ /\ Complete(l) /\ (\A got : Handled(l, got) = g.payload)
                /\ \A x : ~x.open => Follows(w, st, V, x, S, R \o g.payload)
  OBVIOUS
<1> HIDE DEF V, l
<1>12. CASE Arrived(g, V) # 0 .. g.total - 1
  <2>1. ~Complete(l) /\ ~TooMany(l)
    BY <1>1, <1>7, <1>9, <1>12, Incomplete
  <2>2. Buffered(g, V, l)
    BY <1>7, <1>12 DEF Buffered, Holds
  <2>3. Follows(w, st, V, l, S, R)
    BY <1>5, <1>11, <2>2
  <2> QED BY <2>1, <2>3
<1>13. CASE Arrived(g, V) = 0 .. g.total - 1
  <2>1. Complete(l) /\ \A got : Handled(l, got) = g.payload
    BY <1>1, <1>7, <1>13, WholeItem
  <2>2. V = {} /\ g.acked + g.pending = g.total
    BY <1>1, <1>3, <1>8, <1>13, AllArrived
  <2>3. ASSUME NEW x, ~x.open PROVE Follows(w, st, V, x, S, R \o g.payload)
    <3>1. Handed(g, V, x)
      BY <2>2, <2>3 DEF Handed
    <3> QED BY <1>5, <1>10, <3>1
  <2> QED BY <2>1, <2>3
<1> QED BY <1>12, <1>13

\* CheckReceivingList when no handler clears the channel or fails.
LEMMA CheckIncomplete ==
  ASSUME NEW p, NEW ch, NEW s, NEW got, ~Complete(ch.recv[s]), ~TooMany(ch.recv[s])
  PROVE  CheckReceivingList(p, ch, s, got) = <<ch, <<>>, TRUE>>
BY DEF CheckReceivingList

Closed(ch, s) == [ch EXCEPT !.recv[s].open = FALSE, !.recv[s].buf = <<>>]

LEMMA CheckComplete ==
  ASSUME Clearing = {}, Failing = {}, NEW p, NEW ch, NEW s, NEW got, Complete(ch.recv[s])
  PROVE  CheckReceivingList(p, ch, s, got) = <<Closed(ch, s), Handled(ch.recv[s], got), TRUE>>
BY DEF CheckReceivingList, Closed

LEMMA ClosedList ==
  ASSUME NEW f \in ChannelRecord
  PROVE  /\ ~Closed(f, 0).recv[0].open /\ Closed(f, 0).recv[1] = f.recv[1]
         /\ Closed(f, 0).inRel = f.inRel /\ Closed(f, 0).waiting = f.waiting
         /\ Closed(f, 0).stream = f.stream /\ Closed(f, 0).sub = f.sub
         /\ Closed(f, 0).outRel = f.outRel /\ Closed(f, 0).inSeq = f.inSeq
<1> DEFINE x == Closed(f, 0)
<1>1. f.recv \in [Stream -> ListType] /\ f.recv[0] \in ListType
  BY Streams DEF ChannelRecord
<1>2. f.recv[0] \in [open : BOOLEAN, total : Nat, acked : Nat, file : BOOLEAN,
                     buf : Seq({<<>>} \cup (Seq(Msg) \X Nat))]
  BY <1>1 DEF ListType
<1> DEFINE l == [f.recv[0] EXCEPT !.open = FALSE, !.buf = <<>>]
<1>3. ~l.open
  BY <1>2
<1>4. x = [f EXCEPT !.recv = [@ EXCEPT ![0] = l]]
  BY <1>1, Streams DEF Closed, ChannelRecord
<1> HIDE DEF l, x
<1>5. /\ x.recv = [f.recv EXCEPT ![0] = l] /\ x.inRel = f.inRel /\ x.waiting = f.waiting
      /\ x.stream = f.stream /\ x.sub = f.sub /\ x.outRel = f.outRel /\ x.inSeq = f.inSeq
  BY <1>4 DEF ChannelRecord
<1>6. x.recv[0] = l /\ x.recv[1] = f.recv[1]
  BY <1>1, <1>5, Streams
<1> QED BY <1>3, <1>5, <1>6 DEF x

\* What the receiver does not change when it reads.
SameSender(f, h) ==
  /\ f.waiting = h.waiting /\ f.stream = h.stream /\ f.sub = h.sub
  /\ f.outRel = h.outRel /\ f.inSeq = h.inSeq

\* The receive lists that chunks of subchannel i may leave.
LEMMA ChunkAccepted ==
  ASSUME NEW p, NEW q, NEW a, NEW b, NEW N \in SUBSET DatagramType, NEW S \in Seq(Msg), NEW R,
         Sound(a), Sound(b), Protocol(p, q, a, b, N), Delivery(p, a, b, N, S, R),
         NEW k \in Accepts(p, b, N), k.subch # -1, a.sub[k.subch].num[0] # 0
  PROVE  /\ a.waiting[0] # <<>>
         /\ ChunkOfHead(a.waiting[0][1], Unread(a, b), k.chunk[0], ChunkOf(a.sub[k.subch], 0))
<1> DEFINE i == k.subch
           g == a.waiting[0][1]
           c == k.chunk[0]
           U == Unread(a, b)
           e == [inRel |-> FlipBit(b.inRel, i)]
<1>1. i \in Subchannels /\ i \in Carrying(a, 0) /\ a.waiting[0] # <<>> /\ ~SameBit(a, b, i)
  BY CarriedBy
<1>2. c = Chunk(a, a.sub[i], 0)
  BY Streams DEF Delivery, Carried
<1>3. c = [start |-> a.sub[i].start[0], num |-> a.sub[i].num[0], total |-> g.total,
           file |-> g.file, payload |-> g.payload]
  BY <1>2 DEF Chunk
<1>4. c \in ChunkType /\ c # NoChunk
  <2>1. k \in DatagramType
    BY DEF Accepts
  <2>2. c \in ChunkType
    BY <2>1, Streams DEF DatagramType
  <2>3. c.num # 0
    BY <1>3
  <2> QED BY <2>2, <2>3 DEF NoChunk
<1>5. c.num \in Nat \ {0} /\ c.start \in Nat
  BY <1>4 DEF ChunkType, FragmentCount
<1>6. ChunkOf(a.sub[i], 0) = c.start .. c.start + c.num - 1
  BY <1>3 DEF ChunkOf
<1>7. ChunkOf(a.sub[i], 0) \subseteq U /\ U \subseteq InFlight(a, 0)
  <2>1. e.inRel = FlipBit(b.inRel, i)
    OBVIOUS
  <2> HIDE DEF e, i
  <2> QED BY <1>1, <2>1, UnreadAfterRead
<1>8. g.acked + g.pending <= g.total /\ InFlight(a, 0) \subseteq 0 .. g.acked + g.pending - 1
  BY <1>1, SenderParts
<1>9. U \subseteq 0 .. g.acked + g.pending - 1
  BY <1>7, <1>8
<1>10. c.total = g.total /\ c.file = g.file /\ c.payload = g.payload
  BY <1>3
<1> HIDE DEF g, c, U
<1>11. ChunkOfHead(g, U, c, ChunkOf(a.sub[i], 0))
  BY <1>5, <1>6, <1>7, <1>8, <1>9, <1>10 DEF ChunkOfHead
<1> QED BY <1>1, <1>11 DEF g, c, U

\* A datagram of which a chunk is refused changes nothing.
LEMMA RefusedDelivers ==
  ASSUME NEW p, NEW q, NEW a, NEW b, NEW N \in SUBSET DatagramType, NEW S \in Seq(Msg), NEW R,
         Sound(a), Sound(b), Protocol(p, q, a, b, N), Delivery(p, a, b, N, S, R),
         NEW k \in Accepts(p, b, N), k.subch # -1,
         NEW h, Sound(h), h.recv = b.recv, h.inRel = b.inRel, h.inSeq = k.seq, ~AllRead(h, k),
         NEW M, M \subseteq N
  PROVE  SameSender(ReadAll(h, k), h) /\ Delivery(p, a, ReadAll(h, k), M, S, R)
<1> DEFINE f == ReadAll(h, k)
           r == b.recv[0]
           c == k.chunk[0]
<1>1. k.chunk[1].num = 0
  <2>1. a.sub[k.subch].num[1] = 0
    BY CarriedBy
  <2>2. k.chunk[1] = Chunk(a, a.sub[k.subch], 1)
    BY Streams DEF Delivery, Carried
  <2> QED BY <2>1, <2>2 DEF Chunk, NoChunk
<1>2. ~ReadOk(r, c)
  BY <1>1, Streams DEF AllRead, ReadOk
<1>3. a.sub[k.subch].num[0] # 0
  <2>1. k.chunk[0] = Chunk(a, a.sub[k.subch], 0)
    BY Streams DEF Delivery, Carried
  <2> QED BY <1>2, <2>1 DEF Chunk, NoChunk, ReadOk
<1>4. ChunkOfHead(a.waiting[0][1], Unread(a, b), c, ChunkOf(a.sub[k.subch], 0)) /\ a.waiting[0] # <<>>
  BY <1>3, ChunkAccepted
<1>5. a.waiting[0][1] \in ItemType
  BY <1>4, SenderParts
<1>6. ~Readable(r, c)
  BY <1>2 DEF ReadOk
<1>7. ReadSubChannelData(r, c) = r
  <2> HIDE DEF r, c
  <2> QED BY <1>4, <1>5, <1>6, ChunkRefused
<1>8. h \in ChannelRecord /\ b \in ChannelRecord
  BY SenderParts
<1>9. f = [h EXCEPT !.recv = [s \in Stream |-> h.recv[s]]]
  BY <1>2, <1>7, Streams DEF ReadAll
<1>10. h.recv = [s \in Stream |-> h.recv[s]]
  BY <1>8 DEF ChannelRecord
<1>11. f = h
  BY <1>8, <1>9, <1>10 DEF ChannelRecord
<1>12. Accepts(p, h, M) \subseteq Accepts(p, b, N)
  <2>1. b.inSeq \in Nat /\ k.seq \in Nat /\ k.seq > b.inSeq /\ \A l \in N : l.seq \in Nat
    BY SoundNumbers, TypedStamps DEF Accepts, Numbers, Stamps
  <2> QED BY <2>1 DEF Accepts
<1>13. Delivery(p, a, h, M, S, R)
  BY <1>12, ReceiverRests
<1> QED BY <1>11, <1>13 DEF SameSender

\* What CheckReceivingList of stream 0 finds after the read, and what there is
\* after that of stream 1.
Checked(h, k, z, got) ==
  CheckReceivingList(z, [ReadAll(h, k) EXCEPT !.inRel = FlipBit(@, k.subch)], 0, got)
Reads(p, a, h, c0, c1, M, S, R) ==
  /\ c0[3] /\ c0[2] \in Seq(Msg) /\ c1[2] = <<>> /\ SameSender(c1[1], h)
  /\ Delivery(p, a, c1[1], M, S, R \o c0[2])

\* A datagram that is read: its chunk is stored, and the head is handled when
\* it is complete.
LEMMA ReadDelivers ==
  ASSUME NEW p, NEW q, NEW a, NEW b, NEW N \in SUBSET DatagramType, NEW S \in Seq(Msg),
         NEW T, NEW R \in Seq(T), Clearing = {}, Failing = {},
         Sound(a), Sound(b), Protocol(p, q, a, b, N), Delivery(p, a, b, N, S, R),
         NEW k \in Accepts(p, b, N), k.subch # -1,
         NEW h, Sound(h), h.recv = b.recv, h.inRel = b.inRel, h.inSeq = k.seq, AllRead(h, k),
         NEW M, M \subseteq N, NEW z, NEW got0, NEW got1
  PROVE  Reads(p, a, h, Checked(h, k, z, got0),
                CheckReceivingList(z, Checked(h, k, z, got0)[1], 1, got1), M, S, R)
<1> DEFINE i == k.subch
           r == b.recv[0]
           c == k.chunk[0]
           U == Unread(a, b)
           w == a.waiting[0]
           C == ChunkOf(a.sub[i], 0)
           l == ReadSubChannelData(r, c)
           flip == [ReadAll(h, k) EXCEPT !.inRel = FlipBit(@, k.subch)]
           c0 == Checked(h, k, z, got0)
           c1 == CheckReceivingList(z, c0[1], 1, got1)
<1>1. /\ i \in Subchannels /\ ~SameBit(a, b, i) /\ a.sub[i].num[1] = 0
      /\ a.sub[i].num[0] # 0 => i \in Carrying(a, 0)
  BY CarriedBy
<1>2. k.chunk[1].num = 0 /\ (c.num = 0 <=> a.sub[i].num[0] = 0)
  <2>1. k.chunk[1] = Chunk(a, a.sub[i], 1) /\ c = Chunk(a, a.sub[i], 0)
    BY Streams DEF Delivery, Carried
  <2> QED BY <1>1, <2>1 DEF Chunk, NoChunk
<1>3. ReadOk(r, c)
  BY Streams DEF AllRead
<1>4. h \in ChannelRecord /\ b \in ChannelRecord /\ h.inRel \in SUBSET Subchannels /\ r \in ListType
  <2>1. h \in ChannelRecord /\ b \in ChannelRecord
    BY SenderParts
  <2>2. b.recv \in [Stream -> ListType]
    BY <2>1 DEF ChannelRecord
  <2> QED BY <2>1, <2>2, Streams DEF ChannelRecord
<1>5. /\ flip.recv = [s \in Stream |-> IF s = 0 THEN l ELSE b.recv[s]]
      /\ flip.inRel = FlipBit(b.inRel, i) /\ SameSender(flip, h)
  <2>1. ReadAll(h, k) = [h EXCEPT !.recv = [s \in Stream |-> ReadSubChannelData(h.recv[s], k.chunk[s])]]
    BY <1>3 DEF ReadAll
  <2>2. [s \in Stream |-> ReadSubChannelData(h.recv[s], k.chunk[s])]
          = [s \in Stream |-> IF s = 0 THEN l ELSE b.recv[s]]
    BY <1>2, Streams DEF ReadSubChannelData
  <2> HIDE DEF l
  <2>3. ReadAll(h, k) = [h EXCEPT !.recv = [s \in Stream |-> IF s = 0 THEN l ELSE b.recv[s]]]
    BY <2>1, <2>2
  <2>4. flip = [h EXCEPT !.recv = [s \in Stream |-> IF s = 0 THEN l ELSE b.recv[s]],
                         !.inRel = FlipBit(b.inRel, i)]
    BY <1>4, <2>3 DEF ChannelRecord
  <2> QED BY <1>4, <2>4 DEF ChannelRecord, SameSender
<1>6. flip.recv[0] = l /\ flip.recv[1] = b.recv[1] /\ flip.recv \in [Stream -> {l, b.recv[1]}]
  BY <1>5, Streams
<1>17. flip \in ChannelRecord
  <2> DEFINE read == ReadAll(h, k)
  <2>1. Sound(read)
    BY ReadAllSound DEF Accepts
  <2> HIDE DEF read
  <2>2. Sound([read EXCEPT !.inRel = FlipBit(@, i)])
    BY <1>1, <2>1, FlipSound
  <2>3. Sound(flip)
    BY <2>2 DEF read
  <2> HIDE DEF flip
  <2> QED BY <2>3, SenderParts
<1>7. /\ i \notin Carrying(a, 0) => Unread(a, flip) = U
      /\ i \in Carrying(a, 0) => Unread(a, flip) = U \ C
  <2>1. flip.inRel = FlipBit(b.inRel, i)
    BY <1>5
  <2> HIDE DEF flip, i
  <2> QED BY <1>1, <2>1, UnreadAfterRead
<1>8. Follows(w, a.stream, U, r, S, R) /\ ~b.recv[1].open
  BY DEF Delivery
<1>9. a.sub[i].num[0] \in Nat /\ w \in Seq(ItemType)
  BY <1>1, SenderParts, ChunkFinite, Streams
<1> HIDE DEF i, U, C, l, flip, c0, c1, w, r, c
<1>18. c0 = CheckReceivingList(z, flip, 0, got0)
  BY DEF c0, flip, Checked
<1>10. \/ /\ ~Complete(l) /\ ~TooMany(l) /\ Follows(w, a.stream, Unread(a, flip), l, S, R)
       \/ /\ Complete(l)
          /\ \E m \in Seq(Msg) :
                    /\ \A got : Handled(l, got) = m
                    /\ \A x : ~x.open => Follows(w, a.stream, Unread(a, flip), x, S, R \o m)
  <2>1. CASE a.sub[i].num[0] = 0
    <3>1. l = r /\ Unread(a, flip) = U
      <4>1. i \notin Carrying(a, 0)
        BY <2>1 DEF Carrying
      <4> QED BY <1>2, <1>7, <2>1, <4>1 DEF ReadSubChannelData, l
    <3>2. w # <<>> => w[1] \in ItemType /\ w[1].acked + w[1].pending <= w[1].total
      BY SenderParts DEF w
    <3>3. ~Complete(r) /\ ~TooMany(r)
      BY <1>8, <3>2, NothingComplete
    <3> QED BY <1>8, <3>1, <3>3
  <2>2. CASE a.sub[i].num[0] # 0
    <3>1. w # <<>> /\ ChunkOfHead(w[1], U, c, C)
      BY <2>2, ChunkAccepted DEF w, U, c, C, i
    <3>2. Readable(r, c)
      BY <1>2, <1>3, <2>2 DEF ReadOk
    <3>3. Unread(a, flip) = U \ C
      BY <1>1, <1>7, <2>2
    <3>4. \/ ~Complete(l) /\ ~TooMany(l) /\ Follows(w, a.stream, U \ C, l, S, R)
          \/ /\ Complete(l) /\ (\A got : Handled(l, got) = w[1].payload)
             /\ \A x : ~x.open => Follows(w, a.stream, U \ C, x, S, R \o w[1].payload)
      BY <1>4, <1>8, <1>9, <3>1, <3>2, ChunkFollows DEF l
    <3>5. w[1].payload \in Seq(Msg)
      BY <1>9, <3>1, ListHead DEF ItemType
    <3> QED BY <3>3, <3>4, <3>5
  <2> QED BY <2>1, <2>2
<1>11. PICK x, m : /\ c0 = <<x, m, TRUE>> /\ m \in Seq(Msg) /\ SameSender(x, h) /\ x.inRel = flip.inRel
                   /\ x.recv[1] = b.recv[1]
                   /\ Follows(w, a.stream, Unread(a, flip), x.recv[0], S, R \o m)
  <2>1. CASE ~Complete(l)
    <3>1. ~TooMany(l) /\ Follows(w, a.stream, Unread(a, flip), l, S, R)
      BY <1>10, <2>1
    <3>2. c0 = <<flip, <<>>, TRUE>>
      BY <1>6, <1>18, <2>1, <3>1, CheckIncomplete
    <3>3. R \o <<>> = R
      BY ConcatEmptySeq
    <3>4. Follows(w, a.stream, Unread(a, flip), flip.recv[0], S, R \o <<>>)
      BY <1>6, <3>1, <3>3
    <3>5. SameSender(flip, h) /\ flip.recv[1] = b.recv[1] /\ <<>> \in Seq(Msg)
      BY <1>5, <1>6
    <3> QED BY <3>2, <3>4, <3>5
  <2>2. CASE Complete(l)
    <3>1. PICK m \in Seq(Msg) : /\ \A got : Handled(l, got) = m
                   /\ \A x : ~x.open => Follows(w, a.stream, Unread(a, flip), x, S, R \o m)
      BY <1>10, <2>2
    <3> DEFINE x == Closed(flip, 0)
    <3>2. c0 = <<x, m, TRUE>>
      <4>1. Complete(flip.recv[0]) /\ Handled(flip.recv[0], got0) = m
        BY <1>6, <2>2, <3>1
      <4>2. c0 = <<x, Handled(flip.recv[0], got0), TRUE>>
        <5> HIDE DEF c0
        <5>1. CheckReceivingList(z, flip, 0, got0) = <<x, Handled(flip.recv[0], got0), TRUE>>
          BY <4>1, CheckComplete
        <5> QED BY <1>18, <5>1
      <4> QED BY <4>1, <4>2
    <3>3. SameSender(x, h) /\ x.inRel = flip.inRel /\ x.recv[1] = b.recv[1] /\ ~x.recv[0].open
      BY <1>5, <1>6, <1>17, ClosedList DEF SameSender
    <3> HIDE DEF x
    <3>4. Follows(w, a.stream, Unread(a, flip), x.recv[0], S, R \o m)
      BY <3>1, <3>3
    <3> QED BY <3>2, <3>3, <3>4
  <2> QED BY <2>1, <2>2
<1>12. c0[1] = x /\ c0[2] = m /\ c0[3]
  BY <1>11
<1>13. c1 = <<x, <<>>, TRUE>>
  <2>1. ~Complete(x.recv[1]) /\ ~TooMany(x.recv[1])
    BY <1>8, <1>11 DEF Complete, TooMany
  <2>2. CheckReceivingList(z, x, 1, got1) = <<x, <<>>, TRUE>>
    BY <2>1, CheckIncomplete
  <2> QED BY <1>12, <2>2 DEF c1
<1>14. Unread(a, x) = Unread(a, flip)
  BY <1>11 DEF Unread, SameBit
<1>15. Accepts(p, x, M) \subseteq Accepts(p, b, N)
  <2>1. b.inSeq \in Nat /\ k.seq \in Nat /\ k.seq > b.inSeq /\ \A y \in N : y.seq \in Nat
    BY SoundNumbers, TypedStamps DEF Accepts, Numbers, Stamps
  <2>2. x.inSeq = k.seq
    BY <1>11 DEF SameSender
  <2> QED BY <2>1, <2>2 DEF Accepts
<1>16. Delivery(p, a, x, M, S, R \o m)
  BY <1>8, <1>11, <1>14, <1>15 DEF Delivery, Carried, w
<1> QED BY <1>11, <1>12, <1>13, <1>16 DEF Reads, c0, c1

-----------------------------------------------------------------------------
(* The actions.                                                              *)

\* The two directions of the channel, seen from p.
BothWays(p, q, a, b, N, S, R) ==
  Delivery(p, a, b, N, S[p][0], R[p][0]) /\ Delivery(q, b, a, N, S[q][0], R[q][0])

\* What holds of the two peers before a step of p.
Peers(p, q) ==
  /\ TypeInv /\ p # q
  /\ Protocol(p, q, chan[p], chan[q], net) /\ Protocol(q, p, chan[q], chan[p], net)
  /\ BothWays(p, q, chan[p], chan[q], net, sent, received)

LEMMA PeersTyped ==
  ASSUME NEW p \in Peer, NEW q \in Peer, Peers(p, q)
  PROVE  /\ p # q /\ Sound(chan[p]) /\ Sound(chan[q]) /\ net \in SUBSET DatagramType
         /\ chan \in [Peer -> ChannelType] /\ chan[p] \in ChannelRecord /\ chan[q] \in ChannelRecord
         /\ sent[p][0] \in Seq(Msg) /\ sent[q][0] \in Seq(Msg)
         /\ received[q][0] \in Seq(Msg \cup {Garbage})
         /\ Protocol(p, q, chan[p], chan[q], net) /\ Protocol(q, p, chan[q], chan[p], net)
         /\ Delivery(p, chan[p], chan[q], net, sent[p][0], received[p][0])
         /\ Delivery(q, chan[q], chan[p], net, sent[q][0], received[q][0])
<1>1. TypeInv
  BY DEF Peers
<1>2. /\ chan \in [Peer -> ChannelType] /\ Sound(chan[p]) /\ Sound(chan[q]) /\ net \subseteq DatagramType
      /\ sent \in [Peer -> [Stream -> Seq(Msg)]]
      /\ received \in [Peer -> [Stream -> Seq(Msg \cup {Garbage})]]
  BY <1>1, TypeInvSound
<1>3. chan[p] \in ChannelRecord /\ chan[q] \in ChannelRecord
  BY <1>2, SenderParts
<1> QED BY <1>2, <1>3, Streams DEF Peers, BothWays

LEMMA SendNetMsgDelivers ==
  ASSUME NEW p \in Peer, NEW q \in Peer, Peers(p, q), NEW m \in Msg, SendNetMsg(p, m)
  PROVE  BothWays(p, q, chan'[p], chan'[q], net', sent', received')
<1> DEFINE a == chan[p]
           b == chan[q]
           d == WriteToBuffer(a, m)
<1>1. /\ p # q /\ Sound(a) /\ a \in ChannelRecord /\ sent[p][0] \in Seq(Msg)
      /\ chan \in [Peer -> ChannelType]
      /\ Delivery(p, a, b, net, sent[p][0], received[p][0])
      /\ Delivery(q, b, a, net, sent[q][0], received[q][0])
  BY PeersTyped
<1>2. /\ chan' = [chan EXCEPT ![p] = d] /\ net' = net /\ received' = received
      /\ sent' = [sent EXCEPT ![p][0] = Append(@, m)]
  BY DEF SendNetMsg
<1>3. sent \in [Peer -> [Stream -> Seq(Msg)]]
  BY TypeInvSound DEF Peers
<1>4. d.recv = a.recv /\ d.inRel = a.inRel /\ d.inSeq = a.inSeq
  BY <1>1 DEF WriteToBuffer, ChannelRecord
<1>5. Delivery(p, d, b, net, Append(sent[p][0], m), received[p][0])
  <2> HIDE DEF a, b
  <2> QED BY <1>1, AcceptDelivers
<1> HIDE DEF d
<1>6. Accepts(q, d, net) \subseteq Accepts(q, a, net)
  BY <1>4 DEF Accepts
<1>7. Delivery(q, b, d, net, sent[q][0], received[q][0])
  <2> HIDE DEF a, b
  <2> QED BY <1>1, <1>4, <1>6, ReceiverRests
<1>8. chan'[p] = d /\ chan'[q] = b
  BY <1>1, <1>2
<1>9. sent'[p][0] = Append(sent[p][0], m) /\ sent'[q][0] = sent[q][0]
  BY <1>1, <1>2, <1>3, Streams
<1> QED BY <1>2, <1>5, <1>7, <1>8, <1>9 DEF BothWays

LEMMA SetChokedDelivers ==
  ASSUME NEW p \in Peer, NEW q \in Peer, Peers(p, q), SetChoked(p)
  PROVE  BothWays(p, q, chan'[p], chan'[q], net', sent', received')
<1> DEFINE a == chan[p]
           b == chan[q]
           d == [a EXCEPT !.outSeq = @ + 1, !.choked = @ + 1]
<1>1. /\ p # q /\ a \in ChannelRecord /\ chan \in [Peer -> ChannelType]
      /\ Delivery(p, a, b, net, sent[p][0], received[p][0])
      /\ Delivery(q, b, a, net, sent[q][0], received[q][0])
  BY PeersTyped
<1>2. chan' = [chan EXCEPT ![p] = d] /\ net' = net /\ received' = received /\ sent' = sent
  BY <1>1 DEF SetChoked
<1>3. /\ d.recv = a.recv /\ d.inRel = a.inRel /\ d.inSeq = a.inSeq
      /\ d.waiting = a.waiting /\ d.stream = a.stream /\ d.sub = a.sub /\ d.outRel = a.outRel
  BY <1>1 DEF ChannelRecord
<1> HIDE DEF d
<1>4. Accepts(q, d, net) \subseteq Accepts(q, a, net)
  BY <1>3 DEF Accepts
<1>5. chan'[p] = d /\ chan'[q] = b
  BY <1>1, <1>2
<1> HIDE DEF a, b
<1>6. Delivery(p, d, b, net, sent[p][0], received[p][0])
  BY <1>1, <1>3, SenderRests
<1>7. Delivery(q, b, d, net, sent[q][0], received[q][0])
  BY <1>1, <1>3, <1>4, ReceiverRests
<1> QED BY <1>2, <1>5, <1>6, <1>7 DEF BothWays

\* Sending leaves alone what the sender receives.
LEMMA SendKeepsReceiver ==
  ASSUME NEW a, Sound(a), NEW ch \in CompressFragments(CreateFragmentsFromBuffer(a))
  PROVE  LET d == AfterSend(UpdateSubChannels(ch))
         IN  d.recv = a.recv /\ d.inRel = a.inRel /\ d.inSeq = a.inSeq
<1> DEFINE made  == CreateFragmentsFromBuffer(a)
           ready == UpdateSubChannels(ch)
           d     == AfterSend(ready)
<1>1. Sound(made)
  BY CreateSound
<1>2. made.recv = a.recv /\ made.inRel = a.inRel /\ made.inSeq = a.inSeq
  <2>1. a \in ChannelRecord
    BY SenderParts
  <2> QED BY <2>1 DEF CreateFragmentsFromBuffer, ChannelRecord
<1> HIDE DEF made
<1>3. Sound(ch) /\ ch.recv = made.recv /\ ch.inRel = made.inRel /\ ch.inSeq = made.inSeq
  <2>1. ch \in CompressFragments(made)
    BY DEF made
  <2>2. Sound(ch) /\ made \in ChannelRecord
    BY <1>1, <2>1, CompressSound, SenderParts
  <2> QED BY <2>1, <2>2 DEF CompressFragments, ChannelRecord
<1>4. Sound(ready) /\ ready.recv = ch.recv /\ ready.inRel = ch.inRel /\ ready.inSeq = ch.inSeq
  <2>1. Sound(ready)
    BY <1>3, UpdateSound
  <2>2. ch \in ChannelRecord
    BY <1>3, SenderParts
  <2> QED BY <2>1, <2>2 DEF UpdateSubChannels, ChannelRecord
<1> HIDE DEF ready
<1>5. d.recv = ready.recv /\ d.inRel = ready.inRel /\ d.inSeq = ready.inSeq
  <2>1. ready \in ChannelRecord
    BY <1>4, SenderParts
  <2> QED BY <2>1 DEF AfterSend, ChannelRecord
<1> HIDE DEF d
<1> QED BY <1>2, <1>3, <1>4, <1>5 DEF d, ready

LEMMA SendDatagramDelivers ==
  ASSUME NEW p \in Peer, NEW q \in Peer, Peers(p, q), SendDatagram(p)
  PROVE  BothWays(p, q, chan'[p], chan'[q], net', sent', received')
<1> DEFINE a == chan[p]
           b == chan[q]
<1>1. PICK ch \in CompressFragments(CreateFragmentsFromBuffer(a)) :
        /\ chan' = [chan EXCEPT ![p] = AfterSend(UpdateSubChannels(ch))]
        /\ net'  = net \cup {Datagram(p, UpdateSubChannels(ch))}
  BY DEF SendDatagram
<1> DEFINE made  == CreateFragmentsFromBuffer(a)
           ready == UpdateSubChannels(ch)
           d     == AfterSend(ready)
           M     == net \cup {Datagram(p, ready)}
           S     == sent[p][0]
           R     == received[p][0]
<1>2. /\ p # q /\ Sound(a) /\ Sound(b) /\ net \in SUBSET DatagramType /\ S \in Seq(Msg)
      /\ chan \in [Peer -> ChannelType] /\ Protocol(p, q, a, b, net)
      /\ Delivery(p, a, b, net, S, R)
      /\ Delivery(q, b, a, net, sent[q][0], received[q][0])
  BY PeersTyped
<1>3. sent' = sent /\ received' = received
  BY DEF SendDatagram
<1>4. chan'[p] = d /\ chan'[q] = b /\ net' = M
  BY <1>1, <1>2
<1>5. d.recv = a.recv /\ d.inRel = a.inRel /\ d.inSeq = a.inSeq
  <2> HIDE DEF a
  <2> QED BY <1>2, SendKeepsReceiver
<1>6. ch \in CompressFragments(made)
  OBVIOUS
<1> HIDE DEF a, b, S, R
<1>7. Sound(made) /\ Protocol(p, q, made, b, net) /\ Delivery(p, made, b, net, S, R)
  BY <1>2, CreateSound, SameProtocol, CreateDelivers
<1> HIDE DEF made
<1>8. Sound(ch) /\ Protocol(p, q, ch, b, net)
  BY <1>6, <1>7, CompressSound, SameProtocol
<1>9. Delivery(p, ch, b, net, S, R)
  BY <1>2, <1>6, <1>7, CompressDelivers
<1>10. Sound(ready)
  BY <1>8, UpdateSound
<1>11. Protocol(p, q, ready, b, net)
  <2>1. CASE ready = ch
    BY <1>8, <2>1
  <2>2. CASE ready # ch
    <3>1. PICK i \in Subchannels : TakesInto(ch, ready, i)
      BY <1>8, <2>2, UpdateTyped
    <3> QED BY <1>8, <3>1, TakeProtocol
  <2> QED BY <2>1, <2>2
<1>12. Delivery(p, ready, b, net, S, R)
  BY <1>2, <1>8, <1>9, UpdateDelivers
<1> HIDE DEF ready
<1>13. Delivery(p, d, b, M, S, R)
  BY <1>2, <1>10, <1>11, <1>12, SendDelivers
<1>14. Accepts(q, d, M) \subseteq Accepts(q, a, net)
  BY <1>2, <1>5 DEF Accepts, Datagram
<1> HIDE DEF d, M
<1>15. Delivery(q, b, d, M, sent[q][0], received[q][0])
  BY <1>2, <1>5, <1>14, ReceiverRests
<1> QED BY <1>3, <1>4, <1>13, <1>15 DEF BothWays, S, R

\* What a packet of q that p does not drop does: m was handled.
Received(p, q, h, d, m) ==
  /\ chan' = [chan EXCEPT ![p] = d] /\ SameSender(d, h) /\ m \in Seq(Msg)
  /\ sent' = sent /\ received' = [received EXCEPT ![q][0] = @ \o m]
  /\ Delivery(q, chan[q], d, net', sent[q][0], received[q][0] \o m)

LEMMA PacketReceived ==
  ASSUME Clearing = {}, Failing = {}, NEW p \in Peer, NEW q \in Peer, Peers(p, q),
         NEW k \in Accepts(q, chan[p], net), ProcessPacket(p, k),
         NEW h, h = ProcessPacketHeader(chan[p], k),
         Sound(h), h.recv = chan[p].recv, h.inRel = chan[p].inRel, h.inSeq = k.seq
  PROVE  \E d, m : Received(p, q, h, d, m)
<1> DEFINE a == chan[p]
           b == chan[q]
           S == sent[q][0]
           R == received[q][0]
           c0 == Checked(h, k, p, R)
           c1 == CheckReceivingList(p, c0[1], 1, received[q][1])
           reliable == Invalid(a, k) = {} /\ k.subch # -1
<1>1. /\ p # q /\ Sound(a) /\ Sound(b) /\ net \in SUBSET DatagramType /\ S \in Seq(Msg)
      /\ chan \in [Peer -> ChannelType] /\ R \in Seq(Msg \cup {Garbage})
      /\ Protocol(q, p, b, a, net) /\ Delivery(q, b, a, net, S, R)
  BY PeersTyped
<1>2. k.from = q /\ net' \subseteq net
  BY DEF Accepts, ProcessPacket
<1>3. received \in [Peer -> [Stream -> Seq(Msg \cup {Garbage})]]
  BY TypeInvSound DEF Peers
<1>4. received = [received EXCEPT ![q][0] = R \o <<>>] /\ R \o <<>> = R /\ <<>> \in Seq(Msg)
  <2>1. R \o <<>> = R
    BY <1>1, ConcatEmptySeq
  <2> QED BY <1>3, <2>1, Streams
<1>5. \/ ~reliable /\ chan' = [chan EXCEPT ![p] = h] /\ sent' = sent /\ received' = received
      \/ /\ reliable /\ ~AllRead(h, k)
         /\ chan' = [chan EXCEPT ![p] = ReadAll(h, k)] /\ sent' = sent /\ received' = received
      \/ reliable /\ AllRead(h, k) /\ ~c0[3]
      \/ /\ reliable /\ AllRead(h, k) /\ c0[3]
         /\ chan' = [chan EXCEPT ![p] = c1[1]] /\ sent' = sent
         /\ received' = [received EXCEPT ![q][0] = @ \o c0[2], ![q][1] = @ \o c1[2]]
  BY <1>2 DEF ProcessPacket, Checked
<1>6. CASE ~reliable /\ chan' = [chan EXCEPT ![p] = h] /\ sent' = sent /\ received' = received
  <2>1. Accepts(q, h, net') \subseteq Accepts(q, a, net)
    <3>1. a.inSeq \in Nat /\ k.seq \in Nat /\ k.seq > a.inSeq /\ \A y \in net : y.seq \in Nat
      BY <1>1, SoundNumbers, TypedStamps DEF Accepts, Numbers, Stamps
    <3> QED BY <1>2, <3>1 DEF Accepts
  <2>2. Delivery(q, b, h, net', S, R)
    <3> HIDE DEF b, S, R
    <3> QED BY <1>1, <2>1, ReceiverRests
  <2>3. SameSender(h, h)
    BY DEF SameSender
  <2>4. Received(p, q, h, h, <<>>)
    BY <1>4, <1>6, <2>2, <2>3 DEF Received
  <2> QED BY <2>4
<1>7. CASE /\ reliable /\ ~AllRead(h, k)
           /\ chan' = [chan EXCEPT ![p] = ReadAll(h, k)] /\ sent' = sent /\ received' = received
  <2>1. k.subch # -1 /\ ~AllRead(h, k)
    BY <1>7
  <2>2. SameSender(ReadAll(h, k), h) /\ Delivery(q, b, ReadAll(h, k), net', S, R)
    <3> DEFINE M == net'
               N == net
    <3>1. M \subseteq N
      BY <1>2
    <3>2. /\ Sound(a) /\ Sound(b) /\ N \in SUBSET DatagramType /\ S \in Seq(Msg)
          /\ Protocol(q, p, b, a, N) /\ Delivery(q, b, a, N, S, R)
          /\ k \in Accepts(q, a, N) /\ h.recv = a.recv /\ h.inRel = a.inRel
      BY <1>1
    <3> HIDE DEF M, N, a, b, S, R
    <3>3. SameSender(ReadAll(h, k), h) /\ Delivery(q, b, ReadAll(h, k), M, S, R)
      BY <2>1, <3>1, <3>2, RefusedDelivers
    <3> QED BY <3>3 DEF M
  <2>3. Received(p, q, h, ReadAll(h, k), <<>>)
    BY <1>4, <1>7, <2>2 DEF Received
  <2> QED BY <2>3
<1>8. CASE reliable /\ AllRead(h, k)
  <2>1. k.subch # -1 /\ AllRead(h, k)
    BY <1>8
  <2>2. /\ c0[3] /\ c0[2] \in Seq(Msg) /\ c1[2] = <<>> /\ SameSender(c1[1], h)
        /\ Delivery(q, b, c1[1], net', S, R \o c0[2])
    <3> DEFINE M == net'
               N == net
               T == Msg \cup {Garbage}
               G == received[q][1]
    <3>1. M \subseteq N
      BY <1>2
    <3>2. /\ Sound(a) /\ Sound(b) /\ N \in SUBSET DatagramType /\ S \in Seq(Msg) /\ R \in Seq(T)
          /\ Protocol(q, p, b, a, N) /\ Delivery(q, b, a, N, S, R)
          /\ k \in Accepts(q, a, N) /\ h.recv = a.recv /\ h.inRel = a.inRel
      BY <1>1
    <3> HIDE DEF M, N, T, G, a, b, S, R, c0, c1
    <3>3. Reads(q, b, h, Checked(h, k, p, R), CheckReceivingList(p, Checked(h, k, p, R)[1], 1, G), M, S, R)
      BY <2>1, <3>1, <3>2, ReadDelivers
    <3> QED BY <3>3 DEF Reads, c0, c1, M, G
  <2>3. /\ chan' = [chan EXCEPT ![p] = c1[1]] /\ sent' = sent
        /\ received' = [received EXCEPT ![q][0] = @ \o c0[2], ![q][1] = @ \o c1[2]]
    <3> HIDE DEF c0, c1, reliable
    <3> QED BY <1>5, <1>8, <2>2, Zenon
  <2> DEFINE d == c1[1]
             m == c0[2]
  <2> HIDE DEF d, m
  <2>4. received[q][1] \o <<>> = received[q][1]
    <3>1. received[q][1] \in Seq(Msg \cup {Garbage})
      BY <1>3, Streams
    <3> QED BY <3>1, ConcatEmptySeq
  <2>5. received' = [received EXCEPT ![q][0] = @ \o m]
    <3>1. received' = [received EXCEPT ![q][0] = @ \o m, ![q][1] = @ \o <<>>]
      BY <2>2, <2>3 DEF m
    <3> DEFINE f == received[q]
    <3>2. f \in [Stream -> Seq(Msg \cup {Garbage})]
      BY <1>3
    <3>3. received' = [received EXCEPT ![q] = [f EXCEPT ![0] = @ \o m, ![1] = @ \o <<>>]]
      BY <1>3, <3>1
    <3>4. [f EXCEPT ![0] = @ \o m, ![1] = @ \o <<>>] = [f EXCEPT ![0] = @ \o m]
      <4>1. f[1] \o <<>> = f[1]
        BY <2>4
      <4> DEFINE g == [f EXCEPT ![0] = @ \o m]
                 e == [f EXCEPT ![0] = @ \o m, ![1] = @ \o <<>>]
      <4> HIDE DEF f
      <4>2. DOMAIN e = Stream /\ DOMAIN g = Stream
        BY <3>2
      <4>3. e[0] = g[0]
        BY <3>2, Streams
      <4>4. e[1] = g[1]
        BY <3>2, <4>1, Streams
      <4>5. e = [s \in Stream |-> e[s]] /\ g = [s \in Stream |-> g[s]]
        BY <3>2
      <4> HIDE DEF e, g
      <4>6. \A s \in Stream : e[s] = g[s]
        BY <4>3, <4>4, Streams
      <4> QED BY <4>5, <4>6 DEF e, g
    <3>5. received' = [received EXCEPT ![q] = [f EXCEPT ![0] = @ \o m]]
      <4> HIDE DEF f
      <4> QED BY <3>3, <3>4
    <3> QED BY <1>3, <3>5
  <2>6. Received(p, q, h, d, m)
    BY <2>2, <2>3, <2>5 DEF Received, d, m
  <2> QED BY <2>6
<1> QED BY <1>5, <1>6, <1>7, <1>8

LEMMA ProcessPacketDelivers ==
  ASSUME Clearing = {}, Failing = {}, NEW p \in Peer, NEW q \in Peer, Peers(p, q),
         NEW k \in net, ProcessPacket(p, k)
  PROVE  /\ BothWays(p, q, chan'[p], chan'[q], net', sent', received')
         /\ sent' = sent /\ \E m \in Seq(Msg) : received' = [received EXCEPT ![q][0] = @ \o m]
<1> DEFINE a == chan[p]
           b == chan[q]
           h == ProcessPacketHeader(a, k)
           S == sent[p][0]
           R == received[p][0]
<1>1. /\ p # q /\ Sound(a) /\ Sound(b) /\ net \in SUBSET DatagramType /\ S \in Seq(Msg)
      /\ chan \in [Peer -> ChannelType] /\ Protocol(p, q, a, b, net) /\ Delivery(p, a, b, net, S, R)
  BY PeersTyped
<1>2. k \in Accepts(q, a, net) /\ k \in DatagramType
  <2>1. k \in Live(p)
    BY DEF ProcessPacket, Live
  <2> QED BY <1>1, <2>1, LiveIsAccepts DEF Peers
<1>3. Invalid(a, k) = {}
  <2>1. Numbers(a) /\ Stamps(net)
    BY <1>1, SoundNumbers, TypedStamps
  <2> HIDE DEF a, b
  <2> QED BY <1>1, <1>2, <2>1, HeaderValid
<1>4. Sound(h) /\ h.inRel = a.inRel /\ h.inSeq = k.seq
  BY <1>1, <1>2, <1>3, HeaderSound
<1>5. Delivery(p, h, b, net, S, R) /\ h.recv = a.recv
  <2> HIDE DEF a, b, S, R
  <2> QED BY <1>1, <1>2, HeaderDelivers
<1> HIDE DEF h
<1>6. PICK d, m : Received(p, q, h, d, m)
  <2>1. h = ProcessPacketHeader(chan[p], k)
    BY DEF h
  <2> QED BY <1>2, <1>4, <1>5, <2>1, PacketReceived
<1>7. /\ SameSender(d, h) /\ chan'[p] = d /\ chan'[q] = b /\ sent' = sent
      /\ Delivery(q, b, d, net', sent[q][0], received[q][0] \o m)
  BY <1>1, <1>6 DEF Received
<1>8. /\ received'[p][0] = R /\ received'[q][0] = received[q][0] \o m
  <2>1. received \in [Peer -> [Stream -> Seq(Msg \cup {Garbage})]]
    BY TypeInvSound DEF Peers
  <2>2. received' = [received EXCEPT ![q][0] = @ \o m]
    BY <1>6 DEF Received
  <2> QED BY <1>1, <2>1, <2>2, Streams
<1>9. Accepts(p, b, net') \subseteq Accepts(p, b, net)
  BY DEF Accepts, ProcessPacket
<1>10. Delivery(p, d, b, net', S, R)
  <2> DEFINE M == net'
  <2> HIDE DEF a, b, S, R, M
  <2>1. Delivery(p, d, b, M, S, R)
    BY <1>5, <1>7, <1>9, SenderRests DEF SameSender, M
  <2> QED BY <2>1 DEF M
<1>11. m \in Seq(Msg) /\ received' = [received EXCEPT ![q][0] = @ \o m]
  BY <1>6 DEF Received
<1> QED BY <1>7, <1>8, <1>10, <1>11 DEF BothWays

-----------------------------------------------------------------------------
(* The invariant.                                                            *)

Delivers ==
  \A p, q \in Peer : p # q =>
    Delivery(p, chan[p], chan[q], net, sent[p][0], received[p][0])

\* Nothing is queued on the file stream, and no message twice on the other.
StreamsUsed ==
  \A p \in Peer : /\ sent[p][1] = <<>> /\ received[p][1] = <<>>
                  /\ \A i, j \in 1 .. Len(sent[p][0]) : i # j => sent[p][0][i] # sent[p][0][j]

DeliveryInv == ProtocolInv /\ Delivers /\ StreamsUsed

LEMMA InitDelivery == Init => DeliveryInv
<1> SUFFICES ASSUME Init PROVE DeliveryInv
  OBVIOUS
<1>1. ProtocolInv
  BY InitProtocol
<1>2. /\ chan = [p \in Peer |-> NewChannel] /\ net = {}
      /\ \A p \in Peer, s \in Stream : sent[p][s] = <<>> /\ received[p][s] = <<>>
  BY DEF Init
<1>3. StreamsUsed
  BY <1>2, Streams DEF StreamsUsed
<1>4. ASSUME NEW p \in Peer, NEW q \in Peer, p # q
      PROVE  Delivery(p, chan[p], chan[q], net, sent[p][0], received[p][0])
  <2> DEFINE c == NewChannel
  <2>1. /\ \A i \in Subchannels : c.sub[i].state = "FREE"
        /\ c.waiting[0] = <<>> /\ c.waiting[1] = <<>> /\ c.stream = <<>>
        /\ ~c.recv[0].open /\ ~c.recv[1].open
    BY Streams DEF NewChannel, FreeSub, EmptyList
  <2>2. chan[p] = c /\ chan[q] = c /\ sent[p][0] = <<>> /\ received[p][0] = <<>> /\ net = {}
    BY <1>2, Streams
  <2> HIDE DEF c
  <2>3. Piece(<<>>, 0, 0) = <<>> /\ Len(<<>>) = 0
    BY SubSeqEmpty DEF Piece
  <2>4. ASSUME NEW U, NEW r, ~r.open PROVE Follows(<<>>, <<>>, U, r, <<>>, <<>>)
    <3> DEFINE B == [n \in 1 .. 1 |-> 0]
    <3>1. B \in Cuts(<<>>, <<>>) /\ B[1] = 0
      BY DEF Cuts
    <3> HIDE DEF B
    <3>2. Layout(<<>>, <<>>, <<>>, B) /\ Stage(<<>>, U, r, <<>>, <<>>, B)
      BY <2>3, <2>4, <3>1 DEF Layout, Stage
    <3> QED BY <3>1, <3>2 DEF Follows
  <2>5. Follows(c.waiting[0], c.stream, Unread(c, c), c.recv[0], <<>>, <<>>)
    BY <2>1, <2>4
  <2>6. Delivery(p, c, c, {}, <<>>, <<>>)
    BY <2>1, <2>5 DEF Delivery, Quiet, Carried, Accepts
  <2> QED BY <2>2, <2>6
<1>5. Delivers
  BY <1>4 DEF Delivers
<1> QED BY <1>1, <1>3, <1>5 DEF DeliveryInv

\* What a step does to what was accepted and handled.
History(p, q) ==
  \/ sent' = sent /\ received' = received
  \/ /\ received' = received
     /\ \E m \in NetMsg : /\ sent' = [sent EXCEPT ![p][0] = Append(@, m)]
                          /\ \A i \in 1 .. Len(sent[p][0]) : sent[p][0][i] # m
  \/ sent' = sent /\ \E m \in Seq(Msg) : received' = [received EXCEPT ![q][0] = @ \o m]

LEMMA PeerStep ==
  ASSUME Undisturbed, NEW p \in Peer, NEW q \in Peer, Peers(p, q),
         \/ \E m \in Msg : SendNetMsg(p, m)
         \/ \E m \in Msg : SendFile(p, m)
         \/ SetChoked(p)
         \/ SendDatagram(p)
         \/ ClearChannel(p)
         \/ \E k \in net : ProcessPacket(p, k)
  PROVE  BothWays(p, q, chan'[p], chan'[q], net', sent', received') /\ History(p, q)
<1>1. ASSUME NEW m \in Msg, SendNetMsg(p, m)
      PROVE  BothWays(p, q, chan'[p], chan'[q], net', sent', received') /\ History(p, q)
  <2>1. BothWays(p, q, chan'[p], chan'[q], net', sent', received')
    BY <1>1, SendNetMsgDelivers
  <2>2. /\ received' = received /\ sent' = [sent EXCEPT ![p][0] = Append(@, m)] /\ m \in NetMsg
        /\ ~Contains(sent[p][0], m)
    BY <1>1 DEF SendNetMsg
  <2>3. \A i \in 1 .. Len(sent[p][0]) : sent[p][0][i] # m
    BY <2>2 DEF Contains
  <2> QED BY <2>1, <2>2, <2>3 DEF History
<1>2. ASSUME NEW m \in Msg, SendFile(p, m) PROVE FALSE
  BY <1>2 DEF SendFile, Undisturbed
<1>3. ASSUME SetChoked(p)
      PROVE  BothWays(p, q, chan'[p], chan'[q], net', sent', received') /\ History(p, q)
  <2>1. sent' = sent /\ received' = received
    BY <1>3 DEF SetChoked
  <2> QED BY <1>3, <2>1, SetChokedDelivers DEF History
<1>4. ASSUME SendDatagram(p)
      PROVE  BothWays(p, q, chan'[p], chan'[q], net', sent', received') /\ History(p, q)
  <2>1. sent' = sent /\ received' = received
    BY <1>4 DEF SendDatagram
  <2> QED BY <1>4, <2>1, SendDatagramDelivers DEF History
<1>5. ASSUME ClearChannel(p) PROVE FALSE
  <2>1. clears[p] < MaxClears[p] /\ MaxClears[p] = 0
    BY <1>5 DEF ClearChannel, Undisturbed
  <2>2. clears[p] \in Nat
    BY TypeInvSound DEF Peers
  <2> QED BY <2>1, <2>2
<1>6. ASSUME NEW k \in net, ProcessPacket(p, k)
      PROVE  BothWays(p, q, chan'[p], chan'[q], net', sent', received') /\ History(p, q)
  <2>1. Clearing = {} /\ Failing = {}
    BY DEF Undisturbed
  <2>2. /\ BothWays(p, q, chan'[p], chan'[q], net', sent', received')
        /\ sent' = sent /\ \E m \in Seq(Msg) : received' = [received EXCEPT ![q][0] = @ \o m]
    BY <1>6, <2>1, ProcessPacketDelivers
  <2> QED BY <2>2 DEF History
<1> QED BY <1>1, <1>2, <1>3, <1>4, <1>5, <1>6

LEMMA InvPeers ==
  ASSUME ProtocolInv, Delivers, NEW p \in Peer, NEW q \in Peer, p # q
  PROVE  Peers(p, q)
<1>1. TypeInv /\ Corresponds
  BY InvCorresponds DEF ProtocolInv
<1> QED BY <1>1 DEF Peers, BothWays, Delivers, ProtocolInv, Corresponds

LEMMA StepDelivery == Undisturbed /\ DeliveryInv /\ [Next]_vars => DeliveryInv'
<1> SUFFICES ASSUME Undisturbed, DeliveryInv, [Next]_vars PROVE DeliveryInv'
  OBVIOUS
<1>1. ProtocolInv'
  BY StepProtocol DEF DeliveryInv
<1>2. CASE UNCHANGED vars
  BY <1>1, <1>2 DEF DeliveryInv, Delivers, StreamsUsed, vars
<1>3. CASE Next
  <2>1. PICK p \in Peer :
          \/ \E m \in Msg : SendNetMsg(p, m)
          \/ \E m \in Msg : SendFile(p, m)
          \/ SetChoked(p)
          \/ SendDatagram(p)
          \/ ClearChannel(p)
          \/ \E k \in net : ProcessPacket(p, k)
    BY <1>3 DEF Next
  <2>2. PICK q \in Peer : p # q
    BY TwoPeers
  <2>3. Peers(p, q)
    BY <2>2, InvPeers DEF DeliveryInv
  <2>4. BothWays(p, q, chan'[p], chan'[q], net', sent', received') /\ History(p, q)
    BY <2>1, <2>3, PeerStep
  <2>5. Delivers'
    <3>1. \A r, t \in Peer : r # t => (r = p /\ t = q) \/ (r = q /\ t = p)
      BY <2>2, TwoPeers
    <3> QED BY <2>4, <3>1 DEF Delivers, BothWays
  <2>6. /\ sent \in [Peer -> [Stream -> Seq(Msg)]]
        /\ received \in [Peer -> [Stream -> Seq(Msg \cup {Garbage})]]
    BY <2>3, TypeInvSound DEF Peers
  <2>7. StreamsUsed'
    <3>1. CASE sent' = sent /\ received' = received
      BY <3>1 DEF StreamsUsed, DeliveryInv
    <3>2. ASSUME NEW m \in NetMsg, received' = received,
                 sent' = [sent EXCEPT ![p][0] = Append(@, m)],
                 \A i \in 1 .. Len(sent[p][0]) : sent[p][0][i] # m
          PROVE  StreamsUsed'
      <4> DEFINE S == sent[p][0]
                 V == Append(S, m)
      <4>1. S \in Seq(Msg) /\ m \in Msg
        BY <2>6, Streams DEF Msg
      <4>2. Len(V) = Len(S) + 1 /\ Len(S) \in Nat /\ V[Len(S) + 1] = m /\ \A i \in 1 .. Len(S) : V[i] = S[i]
        BY <4>1, AppendProperties, LenProperties
      <4>3. \A i, j \in 1 .. Len(S) : i # j => S[i] # S[j]
        BY DEF StreamsUsed, DeliveryInv
      <4> HIDE DEF V
      <4>4. \A i, j \in 1 .. Len(V) : i # j => V[i] # V[j]
        BY <3>2, <4>2, <4>3
      <4>5. /\ sent'[p][0] = V /\ \A r \in Peer : sent'[r][1] = sent[r][1]
            /\ \A r \in Peer : r # p => sent'[r] = sent[r]
        BY <2>6, <3>2, Streams DEF V
      <4> HIDE DEF S
      <4> QED BY <3>2, <4>4, <4>5 DEF StreamsUsed, DeliveryInv
    <3>3. ASSUME NEW m \in Seq(Msg), sent' = sent, received' = [received EXCEPT ![q][0] = @ \o m]
          PROVE  StreamsUsed'
      <4>1. \A r \in Peer : received'[r][1] = received[r][1]
        BY <2>6, <3>3, Streams
      <4> QED BY <3>3, <4>1 DEF StreamsUsed, DeliveryInv
    <3> QED BY <2>4, <3>1, <3>2, <3>3 DEF History
  <2> QED BY <1>1, <2>5, <2>7 DEF DeliveryInv
<1> QED BY <1>2, <1>3

-----------------------------------------------------------------------------
(* What the invariant says of the streams.                                   *)

\* What holds of the reliable stream from p to q.
LEMMA StreamFacts ==
  ASSUME DeliveryInv, NEW p \in Peer, NEW q \in Peer, p # q
  PROVE  /\ sent[p][0] \in Seq(Msg) /\ Len(sent[p][0]) \in Nat
         /\ sent[p][1] = <<>> /\ received[p][1] = <<>>
         /\ Sound(chan[p]) /\ Quiet(chan[p])
         /\ chan[p].waiting[0] \in Seq(ItemType)
         /\ Len(chan[p].waiting[0]) \in Nat
         /\ chan[p].waiting[0] # <<>> => Len(chan[p].waiting[0]) # 0
         /\ Follows(chan[p].waiting[0], chan[p].stream, Unread(chan[p], chan[q]),
                    chan[q].recv[0], sent[p][0], received[p][0])
<1>1. Peers(p, q)
  BY InvPeers DEF DeliveryInv
<1>2. /\ sent[p][0] \in Seq(Msg) /\ Sound(chan[p])
      /\ Delivery(p, chan[p], chan[q], net, sent[p][0], received[p][0])
  BY <1>1, PeersTyped
<1>3. Len(sent[p][0]) \in Nat
  BY <1>2, LenProperties
<1>4. sent[p][1] = <<>> /\ received[p][1] = <<>>
  BY DEF DeliveryInv, StreamsUsed
<1>5. /\ chan[p].waiting[0] \in Seq(ItemType) /\ Len(chan[p].waiting[0]) \in Nat
      /\ (chan[p].waiting[0] # <<>> => Len(chan[p].waiting[0]) # 0)
  BY <1>2, SenderParts
<1> QED BY <1>2, <1>3, <1>4, <1>5 DEF Delivery

\* What was handled is a prefix of what was accepted.
LEMMA Prefix ==
  ASSUME DeliveryInv, NEW p \in Peer
  PROVE  \E x \in 0 .. Len(sent[p][0]) : received[p][0] = Piece(sent[p][0], 0, x)
<1>1. PICK q \in Peer : p # q
  BY TwoPeers
<1> DEFINE w == chan[p].waiting[0]
           S == sent[p][0]
           R == received[p][0]
           U == Unread(chan[p], chan[q])
           r == chan[q].recv[0]
           st == chan[p].stream
<1>2. /\ S \in Seq(Msg) /\ Len(S) \in Nat /\ Len(w) \in Nat /\ (w # <<>> => Len(w) # 0)
      /\ Follows(w, st, U, r, S, R)
  BY <1>1, StreamFacts
<1> HIDE DEF w, S, R, U, r, st
<1>3. PICK B \in Cuts(w, S) : Stage(w, U, r, S, R, B)
  BY <1>2 DEF Follows
<1>4. /\ B[1] \in Nat /\ B[1] <= Len(S)
      /\ w # <<>> => B[2] \in Nat /\ B[2] <= Len(S)
  BY <1>2, <1>3, CutsTyped
<1>5. \E x \in 0 .. Len(S) : R = Piece(S, 0, x)
  BY <1>2, <1>3, <1>4 DEF Stage
<1> QED BY <1>5 DEF S, R

LEMMA PrefixElements ==
  ASSUME DeliveryInv, NEW p \in Peer
  PROVE  /\ received[p][0] \in Seq(Msg) /\ sent[p][0] \in Seq(Msg)
         /\ \A i \in 1 .. Len(received[p][0]) :
              i \in 1 .. Len(sent[p][0]) /\ received[p][0][i] = sent[p][0][i]
<1> DEFINE S == sent[p][0]
           R == received[p][0]
<1>1. PICK x \in 0 .. Len(S) : R = Piece(S, 0, x)
  BY Prefix
<1>2. S \in Seq(Msg) /\ Len(S) \in Nat
  BY TwoPeers, StreamFacts
<1> HIDE DEF S, R
<1>3. R \in Seq(Msg) /\ Len(R) = x - 0 /\ \A i \in 1 .. x - 0 : R[i] = S[0 + i]
  <2>1. 0 \in Nat /\ x \in Nat /\ 0 <= x /\ x <= Len(S)
    BY <1>2
  <2>2. /\ Piece(S, 0, x) \in Seq(Msg) /\ Len(Piece(S, 0, x)) = x - 0
        /\ \A i \in 1 .. x - 0 : Piece(S, 0, x)[i] = S[0 + i]
    BY <1>2, <2>1, PieceElements
  <2> QED BY <1>1, <2>2
<1>4. \A i \in 1 .. Len(R) : i \in 1 .. Len(S) /\ R[i] = S[i]
  BY <1>1, <1>2, <1>3
<1> QED BY <1>2, <1>3, <1>4 DEF S, R

\* Every message accepted was handled, or is in a waiting item or the buffer.
LEMMA InvNothingLost == DeliveryInv => NothingLost
<1> SUFFICES ASSUME DeliveryInv, NEW p \in Peer, NEW s \in Stream, NEW e \in ToSet(sent[p][s])
             PROVE  e \in ToSet(received[p][s]) \cup Queued(p, s)
  BY DEF NothingLost
<1>1. PICK q \in Peer : p # q
  BY TwoPeers
<1> DEFINE w == chan[p].waiting[0]
           S == sent[p][0]
           R == received[p][0]
           U == Unread(chan[p], chan[q])
           r == chan[q].recv[0]
           st == chan[p].stream
<1>2. /\ S \in Seq(Msg) /\ Len(S) \in Nat /\ Len(w) \in Nat /\ (w # <<>> => Len(w) # 0)
      /\ w \in Seq(ItemType) /\ sent[p][1] = <<>> /\ Follows(w, st, U, r, S, R)
  BY <1>1, StreamFacts
<1>3. s = 0
  <2>1. ToSet(<<>>) = {}
    BY DEF ToSet
  <2> QED BY <1>2, <2>1, Streams
<1>4. e \in ToSet(S)
  BY <1>3
<1>5. Queued(p, s) = (UNION {ToSet(w[n].payload) : n \in DOMAIN w}) \cup ToSet(st)
  BY <1>3 DEF Queued
<1>6. received[p][s] = R
  BY <1>3
<1> HIDE DEF w, S, R, U, r, st
<1>7. DOMAIN w = 1 .. Len(w)
  BY <1>2, LenProperties
<1>8. PICK i \in 1 .. Len(S) : e = S[i]
  BY <1>2, <1>4, LenProperties DEF ToSet
<1>9. PICK B \in Cuts(w, S) : Layout(w, st, S, B) /\ Stage(w, U, r, S, R, B)
  BY <1>2 DEF Follows
<1>10. /\ \A n \in 1 .. Len(w) + 1 : B[n] \in Nat /\ B[n] <= Len(S)
       /\ \A n \in 1 .. Len(w) : n \in 1 .. Len(w) + 1 /\ n + 1 \in 1 .. Len(w) + 1
       /\ 1 \in 1 .. Len(w) + 1 /\ Len(w) + 1 \in 1 .. Len(w) + 1
       /\ Len(w) # 0 => 2 \in 1 .. Len(w) + 1 /\ 1 \in 1 .. Len(w)
  BY <1>2, <1>9, CutsTyped
<1>11. CASE i <= B[1]
  <2>1. PICK x \in Nat : B[1] <= x /\ x <= Len(S) /\ R = Piece(S, 0, x)
    <3>1. CASE w = <<>> \/ R = Piece(S, 0, B[1])
      BY <1>9, <1>10, <3>1 DEF Stage
    <3>2. CASE w # <<>> /\ R = Piece(S, 0, B[2])
      <4>1. B[1] < B[2]
        BY <1>2, <1>9, <1>10, <3>2 DEF Layout
      <4> QED BY <1>2, <1>10, <3>2, <4>1
    <3> QED BY <1>9, <3>1, <3>2 DEF Stage
  <2>2. ToSet(Piece(S, 0, x)) = {S[j] : j \in 0 + 1 .. x}
    BY <1>2, <2>1, PieceSet
  <2>3. i \in 0 + 1 .. x
    BY <1>8, <1>10, <1>11, <2>1
  <2> QED BY <1>6, <1>8, <2>1, <2>2, <2>3
<1>12. CASE i > B[Len(w) + 1]
  <2> DEFINE y == B[Len(w) + 1]
             L == Len(S)
  <2>1. st = Piece(S, y, L) /\ y \in Nat /\ y <= L /\ L <= L /\ i > y
    BY <1>2, <1>9, <1>10, <1>12 DEF Layout
  <2> HIDE DEF y
  <2>2. ToSet(Piece(S, y, L)) = {S[j] : j \in y + 1 .. L}
    BY <1>2, <2>1, PieceSet
  <2>3. i \in y + 1 .. L
    BY <1>8, <2>1
  <2> QED BY <1>5, <1>8, <2>1, <2>2, <2>3
<1>13. CASE i > B[1] /\ i <= B[Len(w) + 1]
  <2> DEFINE J == {n \in Nat : n <= Len(w) /\ i <= B[n + 1]}
  <2>1. J # {} /\ J \subseteq Nat
    BY <1>2, <1>13
  <2> HIDE DEF J
  <2>2. PICK n \in J : \A k \in J : n <= k
    BY <2>1, LeastElement
  <2>3. n \in Nat /\ n <= Len(w) /\ i <= B[n + 1]
    BY <2>2 DEF J
  <2>4. n # 0
    BY <1>10, <1>13, <2>3
  <2>5. n \in 1 .. Len(w)
    BY <1>2, <2>3, <2>4
  <2>6. i > B[n]
    <3>1. n - 1 \in Nat /\ n - 1 + 1 = n /\ n - 1 <= Len(w) /\ n - 1 \notin J
      BY <1>2, <2>2, <2>3, <2>4
    <3>2. ~(i <= B[n])
      BY <3>1 DEF J
    <3> QED BY <1>8, <1>10, <2>5, <3>2
  <2> DEFINE x == B[n]
             y == B[n + 1]
  <2>7. x \in Nat /\ y \in Nat /\ x <= y /\ y <= Len(S) /\ w[n].payload = Piece(S, x, y) /\ i > x /\ i <= y
    BY <1>8, <1>9, <1>10, <2>3, <2>5, <2>6 DEF Layout
  <2> HIDE DEF x, y
  <2>8. ToSet(Piece(S, x, y)) = {S[j] : j \in x + 1 .. y}
    BY <1>2, <2>7, PieceSet
  <2>9. i \in x + 1 .. y
    BY <1>8, <2>7
  <2>10. e \in ToSet(w[n].payload)
    BY <1>8, <2>7, <2>8, <2>9
  <2> QED BY <1>5, <1>7, <2>5, <2>10
<1> QED BY <1>8, <1>10, <1>11, <1>12, <1>13

\* What is counted as acknowledged was read.
WasRead(g, r, R, n) ==
  \/ ToSet(g.payload) \subseteq ToSet(R)
  \/ r.open /\ r.total = g.total /\ n < r.total /\ r.buf[n + 1] = <<g.payload, n + 1>>

LEMMA InvAckedWasRead == DeliveryInv => AckedWasRead
<1>0. AckedWasRead <=>
        \A p, q \in Peer, s \in Stream :
          p # q /\ chan[p].waiting[s] # <<>> =>
            \A n \in (0 .. chan[p].waiting[s][1].acked + chan[p].waiting[s][1].pending - 1)
                      \ InFlight(chan[p], s) :
              WasRead(chan[p].waiting[s][1], chan[q].recv[s], received[p][s], n)
  BY DEF AckedWasRead, WasRead
<1> SUFFICES ASSUME DeliveryInv, NEW p \in Peer, NEW q \in Peer, NEW s \in Stream,
                    p # q, chan[p].waiting[s] # <<>>,
                    NEW n \in (0 .. chan[p].waiting[s][1].acked + chan[p].waiting[s][1].pending - 1)
                              \ InFlight(chan[p], s)
             PROVE  WasRead(chan[p].waiting[s][1], chan[q].recv[s], received[p][s], n)
  BY <1>0
<1> DEFINE w == chan[p].waiting[0]
           S == sent[p][0]
           R == received[p][0]
           U == Unread(chan[p], chan[q])
           r == chan[q].recv[0]
           st == chan[p].stream
           g == w[1]
<1>1. /\ S \in Seq(Msg) /\ Len(S) \in Nat /\ Len(w) \in Nat /\ (w # <<>> => Len(w) # 0)
      /\ w \in Seq(ItemType) /\ Quiet(chan[p]) /\ Sound(chan[p]) /\ Follows(w, st, U, r, S, R)
  BY StreamFacts
<1>2. s = 0 /\ w # <<>>
  BY <1>1, Streams DEF Quiet
<1>3. U \subseteq InFlight(chan[p], 0)
  BY DEF Unread, InFlight
<1>4. n \in (0 .. g.acked + g.pending - 1) \ InFlight(chan[p], 0)
  BY <1>2
<1>5. n \in Arrived(g, U)
  BY <1>3, <1>4 DEF Arrived
<1>6. g \in ItemType /\ g.acked + g.pending <= g.total
  BY <1>1, <1>2, SenderParts
<1>7. n \in Nat /\ n < g.total
  <2>1. g.acked \in Nat /\ g.pending \in Nat /\ g.total \in Nat
    BY <1>6 DEF ItemType
  <2>2. n \in 0 .. g.acked + g.pending - 1
    BY <1>4
  <2> HIDE DEF g
  <2> QED BY <1>6, <2>1, <2>2
<1> SUFFICES WasRead(g, r, R, n)
  BY <1>2
<1> HIDE DEF w, S, R, U, r, st, g
<1>8. PICK B \in Cuts(w, S) : Layout(w, st, S, B) /\ Stage(w, U, r, S, R, B)
  BY <1>1 DEF Follows
<1>9. CASE Buffered(g, U, r)
  BY <1>5, <1>7, <1>9 DEF Buffered, WasRead
<1>10. CASE R = Piece(S, 0, B[2])
  <2>1. B[1] \in Nat /\ B[2] \in Nat /\ B[2] <= Len(S) /\ 1 \in 1 .. Len(w)
    BY <1>1, <1>2, <1>8, CutsTyped
  <2>2. B[1] < B[2] /\ g.payload = Piece(S, B[1], B[2])
    BY <1>8, <2>1 DEF Layout, g
  <2>3. ToSet(Piece(S, B[1], B[2])) = {S[j] : j \in B[1] + 1 .. B[2]}
    BY <1>1, <2>1, <2>2, PieceSet
  <2>4. ToSet(Piece(S, 0, B[2])) = {S[j] : j \in 0 + 1 .. B[2]}
    BY <1>1, <2>1, PieceSet
  <2>5. B[1] + 1 .. B[2] \subseteq 0 + 1 .. B[2]
    BY <2>1
  <2> QED BY <1>10, <2>2, <2>3, <2>4, <2>5 DEF WasRead
<1> QED BY <1>2, <1>8, <1>9, <1>10 DEF Stage, g

\* What was handled, before and after a step.
HistoryTyped ==
  /\ received \in [Peer -> [Stream -> Seq(Msg \cup {Garbage})]]
  /\ \A p \in Peer : \E x \in 0 .. Len(sent[p][0]) : received[p][0] = Piece(sent[p][0], 0, x)

LEMMA InvHistory == DeliveryInv => HistoryTyped
BY Prefix, TypeInvSound DEF DeliveryInv, ProtocolInv, HistoryTyped

LEMMA HistoryNext == DeliveryInv' => HistoryTyped'
BY InvHistory, PTL

\* Every step hands over the next messages of a stream, accepts one, or leaves
\* both alone.
LEMMA StepStream ==
  ASSUME Undisturbed, DeliveryInv, DeliveryInv', [Next]_vars
  PROVE  Reliable!Next \/ UNCHANGED Reliable!vars
<1>1. CASE UNCHANGED vars
  BY <1>1 DEF vars, Reliable!vars
<1>2. CASE Next
  <2>1. PICK p \in Peer :
          \/ \E m \in Msg : SendNetMsg(p, m)
          \/ \E m \in Msg : SendFile(p, m)
          \/ SetChoked(p)
          \/ SendDatagram(p)
          \/ ClearChannel(p)
          \/ \E k \in net : ProcessPacket(p, k)
    BY <1>2 DEF Next
  <2>2. PICK q \in Peer : p # q
    BY TwoPeers
  <2>3. Peers(p, q)
    BY <2>2, InvPeers DEF DeliveryInv
  <2>4. History(p, q)
    BY <2>1, <2>3, PeerStep
  <2>5. /\ sent \in [Peer -> [Stream -> Seq(Msg)]]
        /\ received \in [Peer -> [Stream -> Seq(Msg \cup {Garbage})]]
    BY <2>3, TypeInvSound DEF Peers
  <2>6. CASE sent' = sent /\ received' = received
    BY <2>6 DEF Reliable!vars
  <2>7. ASSUME NEW m \in NetMsg, received' = received, sent' = [sent EXCEPT ![p][0] = Append(@, m)]
        PROVE  Reliable!Next
    <3>1. m \in Msg
      BY DEF Msg
    <3>2. Reliable!Accept(p, 0)
      BY <2>7, <3>1 DEF Reliable!Accept
    <3> QED BY <3>2, Streams DEF Reliable!Next
  <2>8. ASSUME NEW m \in Seq(Msg), sent' = sent, received' = [received EXCEPT ![q][0] = @ \o m]
        PROVE  Reliable!Next
    <3> DEFINE S == sent[q][0]
               R == received[q][0]
               V == received'[q][0]
    <3>1. PICK y \in 0 .. Len(S) : V = Piece(S, 0, y)
      <4>1. \E y \in 0 .. Len(sent'[q][0]) : V = Piece(sent'[q][0], 0, y)
        BY HistoryNext DEF HistoryTyped
      <4> QED BY <2>8, <4>1
    <3>2. /\ S \in Seq(Msg) /\ Len(S) \in Nat /\ R \in Seq(Msg) /\ Len(R) \in Nat
          /\ sent[q][1] = <<>> /\ received[q][1] = <<>>
      BY <2>2, StreamFacts, PrefixElements, LenProperties
    <3>3. V = R \o m /\ received'[q][1] = <<>>
      BY <2>5, <2>8, <3>2, Streams
    <3>4. Len(V) = y
      <4>1. 0 \in Nat /\ y \in Nat /\ 0 <= y /\ y <= Len(S)
        BY <3>2
      <4>2. /\ Piece(S, 0, y) \in Seq(Msg) /\ Len(Piece(S, 0, y)) = y - 0
            /\ \A i \in 1 .. y - 0 : Piece(S, 0, y)[i] = S[0 + i]
        BY <3>2, <4>1, PieceElements
      <4> QED BY <3>1, <4>1, <4>2
    <3>5. Len(R) <= y
      <4> HIDE DEF S, R, V
      <4>1. Len(R \o m) = Len(R) + Len(m) /\ Len(m) \in Nat
        BY <3>2, ConcatProperties, LenProperties
      <4> QED BY <3>2, <3>3, <3>4, <4>1
    <3> DEFINE n == [s \in Stream |-> IF s = 0 THEN y ELSE 0]
    <3>6. n \in [Stream -> UNION {0 .. Len(sent[q][s]) : s \in Stream}]
      <4>1. y \in UNION {0 .. Len(sent[q][s]) : s \in Stream}
        BY Streams
      <4>2. 0 \in UNION {0 .. Len(sent[q][s]) : s \in Stream}
        BY <3>2, Streams
      <4> QED BY <4>1, <4>2
    <3>7. \A s \in Stream : n[s] \in Len(received[q][s]) .. Len(sent[q][s])
      <4>1. n[0] = y /\ n[1] = 0
        BY Streams
      <4> HIDE DEF n
      <4> QED BY <3>2, <3>5, <4>1, Streams
    <3>8. received' = [received EXCEPT ![q] = [s \in Stream |-> SubSeq(sent[q][s], 1, n[s])]]
      <4> DEFINE f == [s \in Stream |-> SubSeq(sent[q][s], 1, n[s])]
      <4>1. f[0] = V
        <5>1. f[0] = SubSeq(S, 1, y)
          BY Streams
        <5>2. Piece(S, 0, y) = SubSeq(S, 1, y)
          BY DEF Piece
        <5> QED BY <3>1, <5>1, <5>2
      <4>2. f[1] = <<>>
        <5>1. f[1] = SubSeq(<<>>, 1, 0)
          BY <3>2, Streams
        <5>2. SubSeq(<<>>, 1, 0) = <<>>
          BY SubSeqEmpty
        <5> QED BY <5>1, <5>2
      <4>3. received' = [received EXCEPT ![q] = received'[q]] /\ received'[q] \in [Stream -> Seq(Msg \cup {Garbage})]
        <5>1. received' \in [Peer -> [Stream -> Seq(Msg \cup {Garbage})]]
          BY HistoryNext DEF HistoryTyped
        <5> QED BY <2>5, <2>8, <5>1
      <4>4. f = [s \in Stream |-> f[s]] /\ received'[q] = [s \in Stream |-> received'[q][s]]
        BY <4>3
      <4>5. \A s \in Stream : f[s] = received'[q][s]
        <5> HIDE DEF f
        <5> QED BY <3>3, <4>1, <4>2, Streams
      <4>6. f = received'[q]
        <5> HIDE DEF f
        <5> QED BY <4>4, <4>5
      <4> QED BY <4>3, <4>6
    <3> HIDE DEF n
    <3>9. Reliable!Deliver(q)
      BY <2>8, <3>6, <3>7, <3>8 DEF Reliable!Deliver
    <3> QED BY <3>9 DEF Reliable!Next
  <2> QED BY <2>4, <2>6, <2>7, <2>8 DEF History
<1> QED BY <1>1, <1>2

-----------------------------------------------------------------------------
(* The theorems.                                                             *)

\* The channel is the queue of ReliableStream.
THEOREM StreamImplemented ==
  ASSUME Undisturbed
  PROVE  Spec => ImplementsReliableStream
<1>1. Init => Reliable!Init
  BY DEF Init, Reliable!Init, Reliable!Empty
<1>2. DeliveryInv /\ [Next]_vars => DeliveryInv'
  BY StepDelivery
<1>3. DeliveryInv /\ DeliveryInv' /\ [Next]_vars => [Reliable!Next]_(Reliable!vars)
  BY StepStream
<1> QED BY InitDelivery, <1>1, <1>2, <1>3, PTL DEF Spec, ImplementsReliableStream, Reliable!Spec

\* RemoveHeadInWaitingList never runs before the handlers had the item.
THEOREM NothingIsLost ==
  ASSUME Undisturbed
  PROVE  Spec => []NothingLost
<1>1. DeliveryInv /\ [Next]_vars => DeliveryInv'
  BY StepDelivery
<1> QED BY InitDelivery, <1>1, InvNothingLost, PTL DEF Spec

\* A fragment that is counted as acknowledged was read at its place.
THEOREM AckedIsRead ==
  ASSUME Undisturbed
  PROVE  Spec => []AckedWasRead
<1>1. DeliveryInv /\ [Next]_vars => DeliveryInv'
  BY StepDelivery
<1> QED BY InitDelivery, <1>1, InvAckedWasRead, PTL DEF Spec

\* A message is handled at most once, and nothing that is no message.
THEOREM OnceAndWhole ==
  ASSUME Undisturbed
  PROVE  Spec => [](HandledOnce /\ NeverSpliced)
<1>1. DeliveryInv /\ [Next]_vars => DeliveryInv'
  BY StepDelivery
<1>2. DeliveryInv => HandledOnce /\ NeverSpliced
  <2> SUFFICES ASSUME DeliveryInv, NEW p \in Peer, NEW s \in Stream
               PROVE  /\ \A i, j \in DOMAIN received[p][s] :
                           i # j => received[p][s][i] # received[p][s][j]
                      /\ Garbage \notin ToSet(received[p][s])
    BY DEF HandledOnce, NeverSpliced
  <2>1. CASE s = 1
    <3>1. received[p][s] = <<>>
      BY <2>1 DEF DeliveryInv, StreamsUsed
    <3> QED BY <3>1 DEF ToSet
  <2>2. CASE s = 0
    <3> DEFINE R == received[p][0]
               S == sent[p][0]
    <3>1. /\ R \in Seq(Msg)
          /\ \A i \in 1 .. Len(R) : i \in 1 .. Len(S) /\ R[i] = S[i]
      BY PrefixElements
    <3>2. \A i, j \in 1 .. Len(S) : i # j => S[i] # S[j]
      BY DEF DeliveryInv, StreamsUsed
    <3>3. DOMAIN R = 1 .. Len(R)
      BY <3>1, LenProperties
    <3>4. \A i \in 1 .. Len(R) : R[i] \in Msg
      BY <3>1, ElementOfSeq
    <3>5. Garbage \notin Msg
      BY MessageAssumption
    <3> SUFFICES /\ \A i, j \in DOMAIN R : i # j => R[i] # R[j]
                 /\ Garbage \notin ToSet(R)
      BY <2>2
    <3> HIDE DEF R, S
    <3> QED BY <3>1, <3>2, <3>3, <3>4, <3>5 DEF ToSet
  <2> QED BY <2>1, <2>2, Streams
<1> QED BY InitDelivery, <1>1, <1>2, PTL DEF Spec
=============================================================================
