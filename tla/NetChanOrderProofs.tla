-------------------------- MODULE NetChanOrderProofs --------------------------
(***************************************************************************)
(* The order in which the handlers are given a stream's messages, for any    *)
(* two peers, messages, sizes, bounds, losses, copies and reorderings.       *)
(*                                                                          *)
(* The messages that a peer has accepted, S, are cut into the items that     *)
(* were ever sent.  An item is not named in the code: the receiver knows its  *)
(* kind and the number of its fragments only, and tells a chunk sent again    *)
(* from the next one by a bit per subchannel.  The invariant therefore finds, *)
(* for each direction and stream, cuts B of S whose last ones are the items   *)
(* of the waiting list, the item D[i] whose chunk each subchannel holds, the  *)
(* item L that the receiver read last, and how far, F, its handlers have got. *)
(* It relates them so: no fragment is in two subchannels, what is under way   *)
(* and still accepted is what its subchannel holds, and is not of an item     *)
(* before L; the fragments of L that were read are those that no subchannel   *)
(* with another bit holds; and the messages handled have places in S up to F  *)
(* in their order, but for what a handler that failed gives again.            *)
(***************************************************************************)
EXTENDS NetChanDeliveryProofs

\* What the theorems suppose: a file or asynchronous transfer fits one
\* fragment.  Then a packet is read as a whole or not at all, because only the
\* chunk of the messages can be one that cannot be read.
WholeFiles == \A m \in AsyncMsg \cup FileMsg : Size[m] = 1

-----------------------------------------------------------------------------
(* Where an item came from.                                                *)

\* The item of the messages lo + 1 .. hi of what was accepted, in total fragments.
Span == [lo : Nat, hi : Nat, total : Nat \ {0}]

\* Span d is the same item as e or was accepted before it.
NotAfter(d, e) == d = e \/ d.hi <= e.lo

\* The messages that are not in an item yet.
Buffer(a, s) == IF s = 0 THEN a.stream ELSE <<>>

\* Item n of the list is the messages after B[n] up to B[n + 1] of what was
\* accepted, and the buffer is the rest.
Lined(w, st, S, B) ==
  /\ \A n \in 1 .. Len(w) : /\ B[n] < B[n + 1] /\ w[n].payload = Piece(S, B[n], B[n + 1])
                            /\ w[n].file <=> S[B[n] + 1] \in FileMsg
  /\ st = Piece(S, B[Len(w) + 1], Len(S))

HeadSpan(w, B) == [lo |-> B[1], hi |-> B[2], total |-> w[1].total]

\* The subchannels that hold a chunk of stream s, and those that are out.
Holding(a, s) == {i \in Subchannels : a.sub[i].state # "FREE" /\ a.sub[i].num[s] # 0}
Out(a, s) == {i \in Holding(a, s) : a.sub[i].state # "TOSEND"}

\* Fragments of item L that the receiver has not read: those not taken by a
\* subchannel, those in one whose bit the receiver does not have.
Untaken(w, B, L) ==
  IF w # <<>> /\ L = HeadSpan(w, B) THEN w[1].acked + w[1].pending .. w[1].total - 1 ELSE {}
Behind(a, b, s, D, L) == {j \in Holding(a, s) : D[j] = L /\ ~SameBit(a, b, j)}
Missing(a, b, s, B, D, L) ==
  Untaken(a.waiting[s], B, L) \cup UNION {ChunkOf(a.sub[i], s) : i \in Behind(a, b, s, D, L)}
Taken(a, b, s, B, D, L) == (0 .. L.total - 1) \ Missing(a, b, s, B, D, L)

\* D: the item whose chunk a subchannel holds.
Held(sub, s, w, S, B, d) ==
  /\ d \in Span /\ d.lo < d.hi /\ d.hi <= Len(S)
  /\ ChunkOf(sub, s) \subseteq 0 .. d.total - 1
  /\ s = 1 => d.total = 1
  /\ IF sub.state = "DIRTY" THEN d.hi <= B[1] ELSE w # <<>> /\ d = HeadSpan(w, B)
\* No fragment is in two subchannels, and those sent later hold later items.
Apart(a, s, D) ==
  /\ \A i, j \in Holding(a, s) :
       i # j /\ D[i] = D[j] => ChunkOf(a.sub[i], s) \cap ChunkOf(a.sub[j], s) = {}
  /\ \A i, j \in Out(a, s) : i # j => a.sub[i].seq # a.sub[j].seq
  /\ \A i, j \in Out(a, s) : a.sub[i].seq < a.sub[j].seq => NotAfter(D[i], D[j])
\* All of this for the subchannels of one stream.
Spans(a, s, S, B, D) ==
  /\ D \in [Subchannels -> Span]
  /\ \A i \in Holding(a, s) : Held(a.sub[i], s, a.waiting[s], S, B, D[i])
  /\ Apart(a, s, D)

\* What a subchannel that holds a chunk of item d puts into a packet.
Part(sub, s, S, d) ==
  IF sub.num[s] = 0 THEN NoChunk
  ELSE [start |-> sub.start[s], num |-> sub.num[s], total |-> d.total,
        file |-> S[d.lo + 1] \in FileMsg, payload |-> Piece(S, d.lo, d.hi)]

\* L: the item of the last chunk that was read.
Ahead(a, s, S, D, L, K) ==
  \A k \in K : k.subch # -1 =>
    /\ k.chunk[s] = Part(a.sub[k.subch], s, S, D[k.subch])
    /\ a.sub[k.subch].num[s] # 0 => NotAfter(L, D[k.subch])

\* The buffer of an item that was handled cannot become complete again.
Spent(r, L, T) ==
  \/ r.acked >= r.total
  \/ \E K \in SUBSET T : K # T /\ r.total = L.total /\ r.acked = Cardinality(K)

\* What a complete buffer holds, and that it was not handled yet or the
\* handler failed.
Kept(r, S, F, L, R) ==
  Complete(r) =>
    \/ Contents(r) = <<Garbage>>
    \/ \E x, y \in Nat : /\ x < y /\ y <= Len(S) /\ Contents(r) = Piece(S, x, y)
                         /\ r.file <=> S[x + 1] \in FileMsg
                         /\ \/ x = L.lo /\ y = L.hi /\ F <= x
                            \/ y <= F /\ R # <<>> /\ R[Len(R)] \in Failing

\* What the receiver's buffer starts with.
Opened(r, S) ==
  r.open => \E x, y \in Nat : /\ x < y /\ y <= Len(S) /\ r.buf[1] = <<Piece(S, x, y), 1>>
                              /\ r.file <=> S[x + 1] \in FileMsg

\* The messages of R have a place in S each, not beyond F.
Whole(R) == {i \in DOMAIN R : R[i] # Garbage}
Placed(S, R, F) ==
  \E f \in [Whole(R) -> 1 .. F] :
    /\ \A i \in Whole(R) : R[i] = S[f[i]]
    /\ \A i, j \in Whole(R) : i < j => f[i] < f[j] \/ \E n \in i .. j - 1 : R[n] \in Failing

\* What was read is in the list's first item or was removed from the list; F is
\* how far the messages have been handled.
Level(w, S, B, L, F) ==
  /\ L \in Span /\ L.lo <= L.hi /\ L.hi <= Len(S) /\ F \in Nat /\ F <= L.hi
  /\ L.hi <= B[1] \/ (w # <<>> /\ L = HeadSpan(w, B) /\ w[1].acked + w[1].pending > 0)

\* The receiver: the item that it reads, L, is handled when F is at its end, and
\* then its buffer is closed or can not become complete.
Reading(r, S, R, L, F, T) ==
  /\ F <= L.lo \/ F = L.hi
  /\ F > L.lo => T # {} /\ (r.open => Spent(r, L, T))
  /\ Opened(r, S) /\ Kept(r, S, F, L, R)
  /\ Complete(r) => T # {}
  /\ Placed(S, R, F)

\* A stream has its own kinds of message, and its files are whole.
Fits(s, w, S) ==
  /\ S \in Seq(Msg)
  /\ s = 0 => \A i \in 1 .. Len(S) : S[i] \in NetMsg
  /\ s = 1 => (\A i \in 1 .. Len(S) : S[i] \notin NetMsg) /\ \A n \in 1 .. Len(w) : w[n].total = 1

\* The places of one stream, from a, whose datagrams in N are called p's, to b.
Placing(p, a, b, N, s, st, S, R, B, D, L, F) ==
  /\ B \in Cuts(a.waiting[s], S) /\ Lined(a.waiting[s], st, S, B)
  /\ Fits(s, a.waiting[s], S)
  /\ Spans(a, s, S, B, D)
  /\ Level(a.waiting[s], S, B, L, F)
  /\ Ahead(a, s, S, D, L, Accepts(p, b, N))
  /\ Reading(b.recv[s], S, R, L, F, Taken(a, b, s, B, D, L))

-----------------------------------------------------------------------------
(* The list of waiting items.                                              *)

\* An accepted message joins the end of the buffer.
LEMMA AcceptLined ==
  ASSUME NEW S \in Seq(Msg), NEW m \in Msg, NEW w, Len(w) \in Nat, NEW st,
         NEW B \in Cuts(w, S), Lined(w, st, S, B)
  PROVE  B \in Cuts(w, Append(S, m)) /\ Lined(w, Append(st, m), Append(S, m), B)
<1> DEFINE V == Append(S, m)
<1>0. /\ Len(S) \in Nat /\ V \in Seq(Msg) /\ Len(V) = Len(S) + 1
      /\ \A i \in 1 .. Len(S) : V[i] = S[i]
  BY LenProperties, AppendProperties
<1>2. /\ \A n \in 1 .. Len(w) + 1 : B[n] \in Nat /\ B[n] <= Len(S)
      /\ \A n \in 1 .. Len(w) : n \in 1 .. Len(w) + 1 /\ n + 1 \in 1 .. Len(w) + 1
      /\ Len(w) + 1 \in 1 .. Len(w) + 1
  BY <1>0, CutsTyped
<1>3. \A x, y \in Nat : x <= y /\ y <= Len(S) => /\ Piece(V, x, y) = Piece(S, x, y)
                                               /\ Append(Piece(S, x, Len(S)), m) = Piece(V, x, Len(S) + 1)
  BY PieceOfAppend
<1> HIDE DEF V
<1>4. B \in Cuts(w, V)
  BY <1>0 DEF Cuts
<1>5. ASSUME NEW n \in 1 .. Len(w)
      PROVE  /\ B[n] < B[n + 1] /\ w[n].payload = Piece(V, B[n], B[n + 1])
             /\ w[n].file <=> V[B[n] + 1] \in FileMsg
  <2>1. /\ B[n] < B[n + 1] /\ w[n].payload = Piece(S, B[n], B[n + 1])
        /\ w[n].file <=> S[B[n] + 1] \in FileMsg
    BY DEF Lined
  <2>2. B[n] \in Nat /\ B[n + 1] \in Nat /\ B[n + 1] <= Len(S) /\ B[n] <= B[n + 1]
    BY <1>2, <2>1
  <2>3. B[n] + 1 \in 1 .. Len(S)
    BY <1>0, <2>1, <2>2
  <2> QED BY <1>0, <1>3, <2>1, <2>2, <2>3
<1>6. Append(st, m) = Piece(V, B[Len(w) + 1], Len(V))
  <2>1. B[Len(w) + 1] \in Nat /\ B[Len(w) + 1] <= Len(S)
    BY <1>2
  <2>2. st = Piece(S, B[Len(w) + 1], Len(S))
    BY DEF Lined
  <2>3. Append(Piece(S, B[Len(w) + 1], Len(S)), m) = Piece(V, B[Len(w) + 1], Len(S) + 1)
    BY <1>0, <1>3, <2>1
  <2> QED BY <1>0, <2>2, <2>3
<1>7. Lined(w, Append(st, m), V, B)
  BY <1>5, <1>6 DEF Lined
<1> QED BY <1>4, <1>7 DEF V

\* The buffer becomes an item of its own.
LEMMA CreateLined ==
  ASSUME NEW S \in Seq(Msg), NEW w \in Seq(ItemType), NEW h \in ItemType, NEW st, st # <<>>,
         h.payload = st, NEW B \in Cuts(w, S), Lined(w, st, S, B),
         h.file <=> S[B[Len(w) + 1] + 1] \in FileMsg
  PROVE  \E C \in Cuts(Append(w, h), S) :
           /\ Lined(Append(w, h), <<>>, S, C) /\ C[1] = B[1]
           /\ w # <<>> => C[2] = B[2]
<1> DEFINE v == Append(w, h)
           l == Len(w)
<1>0. l \in Nat /\ Len(S) \in Nat /\ (l = 0 <=> w = <<>>)
  BY LenProperties
<1>2. /\ \A n \in 1 .. l + 1 : B[n] \in Nat /\ B[n] <= Len(S)
      /\ \A n \in 1 .. l : n \in 1 .. l + 1 /\ n + 1 \in 1 .. l + 1
      /\ 1 \in 1 .. l + 1 /\ l + 1 \in 1 .. l + 1
      /\ l # 0 => 2 \in 1 .. l + 1 /\ 1 \in 1 .. l
  BY <1>0, CutsTyped
<1>3. Len(v) = l + 1 /\ v[l + 1] = h /\ v # <<>> /\ \A n \in 1 .. l : v[n] = w[n]
  BY AppendProperties
<1> DEFINE C == [n \in 1 .. l + 2 |-> IF n = l + 2 THEN Len(S) ELSE B[n]]
<1>4. C \in Cuts(v, S) /\ C[l + 2] = Len(S) /\ \A n \in 1 .. l + 1 : C[n] = B[n]
  BY <1>0, <1>2, <1>3 DEF Cuts
<1> HIDE DEF C, v
<1>5. st = Piece(S, B[l + 1], Len(S)) /\ B[l + 1] \in Nat /\ B[l + 1] <= Len(S)
  BY <1>2 DEF Lined
<1>6. B[l + 1] < Len(S)
  <2>1. Len(st) = Len(S) - B[l + 1] /\ st \in Seq(Msg)
    BY <1>5, PieceToEnd
  <2>2. Len(st) # 0
    BY <2>1, EmptySeq
  <2> QED BY <1>0, <1>5, <2>1, <2>2
<1>7. ASSUME NEW n \in 1 .. Len(v)
      PROVE  /\ C[n] < C[n + 1] /\ v[n].payload = Piece(S, C[n], C[n + 1])
             /\ v[n].file <=> S[C[n] + 1] \in FileMsg
  <2>1. CASE n \in 1 .. l
    <3>1. /\ B[n] < B[n + 1] /\ w[n].payload = Piece(S, B[n], B[n + 1])
          /\ w[n].file <=> S[B[n] + 1] \in FileMsg
      BY <2>1 DEF Lined
    <3> QED BY <1>2, <1>3, <1>4, <2>1, <3>1
  <2>2. CASE n = l + 1
    <3>1. C[n] = B[l + 1] /\ C[n + 1] = Len(S)
      BY <1>0, <1>2, <1>4, <2>2
    <3> QED BY <1>3, <1>5, <1>6, <2>2, <3>1
  <2> QED BY <1>0, <1>3, <2>1, <2>2
<1>8. <<>> = Piece(S, C[Len(v) + 1], Len(S))
  <2>1. Len(v) + 1 = l + 2
    BY <1>0, <1>3
  <2>2. Piece(S, Len(S), Len(S)) = <<>>
    BY <1>0, SubSeqEmpty DEF Piece
  <2> QED BY <1>4, <2>1, <2>2
<1>9. Lined(v, <<>>, S, C)
  BY <1>7, <1>8 DEF Lined
<1> QED BY <1>0, <1>2, <1>4, <1>9 DEF v

\* The buffer joins the last item.
LEMMA MergeLined ==
  ASSUME NEW S \in Seq(Msg), NEW w \in Seq(ItemType), Len(w) > 1, NEW h \in ItemType, NEW st, st # <<>>,
         h.payload = w[Len(w)].payload \o st, h.file <=> w[Len(w)].file,
         NEW B \in Cuts(w, S), Lined(w, st, S, B)
  PROVE  \E C \in Cuts([w EXCEPT ![Len(w)] = h], S) :
           /\ Lined([w EXCEPT ![Len(w)] = h], <<>>, S, C) /\ C[1] = B[1] /\ C[2] = B[2]
<1> DEFINE l == Len(w)
           v == [w EXCEPT ![l] = h]
<1>0. l \in Nat /\ Len(S) \in Nat /\ l # 0 /\ l \in 1 .. l
  BY LenProperties
<1>2. /\ \A n \in 1 .. l + 1 : B[n] \in Nat /\ B[n] <= Len(S)
      /\ \A n \in 1 .. l : n \in 1 .. l + 1 /\ n + 1 \in 1 .. l + 1
      /\ 1 \in 1 .. l + 1 /\ l + 1 \in 1 .. l + 1
      /\ 2 \in 1 .. l + 1 /\ 1 \in 1 .. l
  BY <1>0, CutsTyped
<1>3. Len(v) = l /\ v[l] = h /\ v # <<>> /\ \A n \in 1 .. l : n # l => v[n] = w[n]
  <2>1. /\ v \in Seq(ItemType) /\ Len(v) = l
        /\ \A j \in 1 .. l : v[j] = IF j = l THEN h ELSE w[j]
    BY <1>0, ExceptSeq
  <2> QED BY <1>0, <2>1
<1> DEFINE C == [B EXCEPT ![l + 1] = Len(S)]
<1>4. C \in Cuts(v, S) /\ C[l + 1] = Len(S) /\ \A n \in 1 .. l : C[n] = B[n]
  BY <1>0, <1>2, <1>3 DEF Cuts
<1> HIDE DEF C, v
<1>5. /\ st = Piece(S, B[l + 1], Len(S)) /\ B[l + 1] \in Nat /\ B[l + 1] <= Len(S)
      /\ B[l] < B[l + 1] /\ w[l].payload = Piece(S, B[l], B[l + 1]) /\ B[l] \in Nat
      /\ w[l].file <=> S[B[l] + 1] \in FileMsg
  BY <1>0, <1>2 DEF Lined
<1>6. h.payload = Piece(S, B[l], Len(S)) /\ B[l] < Len(S)
  <2> DEFINE x == B[l]
             y == B[l + 1]
             z == Len(S)
  <2>1. x \in Nat /\ y \in Nat /\ z \in Nat /\ x <= y /\ y <= z /\ x < z /\ z <= Len(S)
    BY <1>0, <1>5
  <2>2. st = Piece(S, y, z) /\ w[l].payload = Piece(S, x, y)
    BY <1>5
  <2> HIDE DEF x, y, z
  <2>3. Piece(S, x, y) \o Piece(S, y, z) = Piece(S, x, z)
    BY <2>1, PiecesJoin
  <2>4. h.payload = Piece(S, x, z)
    BY <2>2, <2>3
  <2> QED BY <2>1, <2>4 DEF x, z
<1>7. ASSUME NEW n \in 1 .. Len(v)
      PROVE  /\ C[n] < C[n + 1] /\ v[n].payload = Piece(S, C[n], C[n + 1])
             /\ v[n].file <=> S[C[n] + 1] \in FileMsg
  <2>1. CASE n # l
    <3>1. n \in 1 .. l /\ n + 1 \in 1 .. l
      BY <1>0, <1>3, <2>1
    <3>2. /\ B[n] < B[n + 1] /\ w[n].payload = Piece(S, B[n], B[n + 1])
          /\ w[n].file <=> S[B[n] + 1] \in FileMsg
      BY <3>1 DEF Lined
    <3> QED BY <1>3, <1>4, <2>1, <3>1, <3>2
  <2>2. CASE n = l
    BY <1>0, <1>3, <1>4, <1>5, <1>6, <2>2
  <2> QED BY <2>1, <2>2
<1>8. <<>> = Piece(S, C[Len(v) + 1], Len(S))
  <2>1. Piece(S, Len(S), Len(S)) = <<>>
    BY <1>0, SubSeqEmpty DEF Piece
  <2> QED BY <1>3, <1>4, <2>1
<1>9. Lined(v, <<>>, S, C)
  BY <1>7, <1>8 DEF Lined
<1> QED BY <1>0, <1>4, <1>9 DEF v

\* The first item leaves the list when all of it is acknowledged.
LEMMA RemoveLined ==
  ASSUME NEW S \in Seq(Msg), NEW w \in Seq(ItemType), w # <<>>, NEW st,
         NEW B \in Cuts(w, S), Lined(w, st, S, B)
  PROVE  \E C \in Cuts(Tail(w), S) : Lined(Tail(w), st, S, C) /\ C[1] = B[2] /\ B[1] < B[2]
<1> DEFINE v == Tail(w)
           l == Len(w)
<1>0. l \in Nat /\ Len(S) \in Nat /\ l # 0
  BY LenProperties
<1>2. /\ \A n \in 1 .. l + 1 : B[n] \in 0 .. Len(S)
      /\ 1 \in 1 .. l
  BY <1>0, CutsTyped
<1>3. v \in Seq(ItemType) /\ Len(v) = l - 1 /\ \A n \in 1 .. l - 1 : v[n] = w[n + 1] /\ n + 1 \in 1 .. l /\ n + 1 # 1
  BY <1>0, HeadTailProperties
<1> DEFINE C == [n \in 1 .. l |-> B[n + 1]]
<1>4. C \in Cuts(v, S) /\ \A n \in 1 .. l : C[n] = B[n + 1]
  BY <1>0, <1>2, <1>3 DEF Cuts
<1> HIDE DEF C, v
<1>6. ASSUME NEW n \in 1 .. Len(v)
      PROVE  /\ C[n] < C[n + 1] /\ v[n].payload = Piece(S, C[n], C[n + 1])
             /\ v[n].file <=> S[C[n] + 1] \in FileMsg
  <2>1. n \in 1 .. l - 1 /\ n \in 1 .. l /\ n + 1 \in 1 .. l
    BY <1>0, <1>3
  <2>2. /\ B[n + 1] < B[n + 1 + 1] /\ w[n + 1].payload = Piece(S, B[n + 1], B[n + 1 + 1])
        /\ w[n + 1].file <=> S[B[n + 1] + 1] \in FileMsg
    BY <2>1 DEF Lined
  <2> QED BY <1>3, <1>4, <2>1, <2>2
<1>7. st = Piece(S, C[Len(v) + 1], Len(S))
  <2>1. Len(v) + 1 = l /\ l \in 1 .. l
    BY <1>0, <1>3
  <2> QED BY <1>4, <2>1 DEF Lined
<1>8. Lined(v, st, S, C)
  BY <1>6, <1>7 DEF Lined
<1>9. C[1] = B[2] /\ B[1] < B[2]
  BY <1>2, <1>4 DEF Lined
<1> QED BY <1>4, <1>8, <1>9 DEF v

\* A list whose items have the same messages.
LEMMA SameLined ==
  ASSUME NEW S, NEW w, NEW v, Len(v) = Len(w), NEW st, NEW B \in Cuts(w, S), Lined(w, st, S, B),
         \A n \in 1 .. Len(w) : v[n].payload = w[n].payload /\ v[n].file = w[n].file
  PROVE  B \in Cuts(v, S) /\ Lined(v, st, S, B)
<1>1. B \in Cuts(v, S)
  BY DEF Cuts
<1>2. ASSUME NEW n \in 1 .. Len(v)
      PROVE  /\ B[n] < B[n + 1] /\ v[n].payload = Piece(S, B[n], B[n + 1])
             /\ v[n].file <=> S[B[n] + 1] \in FileMsg
  BY DEF Lined
<1> QED BY <1>1, <1>2 DEF Lined

-----------------------------------------------------------------------------
(* What a step of the sender leaves.                                       *)

\* What a span is made of.
LEMMA SpanTyped ==
  ASSUME NEW d \in Span
  PROVE  d.lo \in Nat /\ d.hi \in Nat /\ d.total \in Nat /\ d.total # 0
BY DEF Span

\* More is accepted, and more of the item is read.
LEMMA ReadingGrows ==
  ASSUME NEW S \in Seq(Msg), NEW V \in Seq(Msg), Len(S) <= Len(V),
         \A i \in 1 .. Len(S) : V[i] = S[i],
         \A x, y \in Nat : x <= y /\ y <= Len(S) => Piece(V, x, y) = Piece(S, x, y),
         NEW r, NEW R, NEW L \in Span, L.hi <= Len(S), NEW F \in Nat, F <= L.hi,
         NEW T, NEW Q, T \subseteq Q, Reading(r, S, R, L, F, T)
  PROVE  Reading(r, V, R, L, F, Q)
<1>0. Len(S) \in Nat /\ Len(V) \in Nat /\ L.lo \in Nat /\ L.hi \in Nat
  BY LenProperties, SpanTyped
<1>1. F > L.lo => Q # {} /\ (r.open => Spent(r, L, Q))
  <2> SUFFICES ASSUME F > L.lo PROVE Q # {} /\ (r.open => Spent(r, L, Q))
    OBVIOUS
  <2>1. T # {} /\ (r.open => Spent(r, L, T))
    BY DEF Reading
  <2>2. ASSUME r.open PROVE Spent(r, L, Q)
    <3>1. CASE r.acked >= r.total
      BY <3>1 DEF Spent
    <3>2. ASSUME NEW K \in SUBSET T, K # T, r.total = L.total, r.acked = Cardinality(K)
          PROVE  Spent(r, L, Q)
      <4>1. K \in SUBSET Q /\ K # Q
        BY <3>2
      <4> QED BY <3>2, <4>1 DEF Spent
    <3> QED BY <2>1, <2>2, <3>1, <3>2 DEF Spent
  <2> QED BY <2>1, <2>2
<1>2. \A x, y \in Nat : x < y /\ y <= Len(S) =>
        y <= Len(V) /\ Piece(V, x, y) = Piece(S, x, y) /\ V[x + 1] = S[x + 1]
  <2> TAKE x, y \in Nat
  <2> HAVE x < y /\ y <= Len(S)
  <2>1. x + 1 \in 1 .. Len(S) /\ x <= y /\ y <= Len(V)
    BY <1>0
  <2> QED BY <2>1
<1>3. Opened(r, V)
  <2> SUFFICES ASSUME r.open
               PROVE  \E x, y \in Nat : /\ x < y /\ y <= Len(V) /\ r.buf[1] = <<Piece(V, x, y), 1>>
                                        /\ r.file <=> V[x + 1] \in FileMsg
    BY DEF Opened
  <2>1. PICK x \in Nat, y \in Nat : /\ x < y /\ y <= Len(S) /\ r.buf[1] = <<Piece(S, x, y), 1>>
                                    /\ r.file <=> S[x + 1] \in FileMsg
    BY DEF Reading, Opened
  <2>2. y <= Len(V) /\ Piece(V, x, y) = Piece(S, x, y) /\ V[x + 1] = S[x + 1]
    BY <1>2, <2>1
  <2> QED BY <2>1, <2>2
<1>4. Kept(r, V, F, L, R)
  <2> SUFFICES ASSUME Complete(r), Contents(r) # <<Garbage>>
               PROVE  \E x, y \in Nat : /\ x < y /\ y <= Len(V) /\ Contents(r) = Piece(V, x, y)
                                        /\ r.file <=> V[x + 1] \in FileMsg
                                        /\ \/ x = L.lo /\ y = L.hi /\ F <= x
                                           \/ y <= F /\ R # <<>> /\ R[Len(R)] \in Failing
    BY DEF Kept
  <2>1. PICK x \in Nat, y \in Nat : /\ x < y /\ y <= Len(S) /\ Contents(r) = Piece(S, x, y)
                                    /\ r.file <=> S[x + 1] \in FileMsg
                                    /\ \/ x = L.lo /\ y = L.hi /\ F <= x
                                       \/ y <= F /\ R # <<>> /\ R[Len(R)] \in Failing
    BY DEF Reading, Kept
  <2>2. y <= Len(V) /\ Piece(V, x, y) = Piece(S, x, y) /\ V[x + 1] = S[x + 1]
    BY <1>2, <2>1
  <2> QED BY <2>1, <2>2
<1>5. Placed(V, R, F)
  <2>1. PICK f \in [Whole(R) -> 1 .. F] :
           /\ \A i \in Whole(R) : R[i] = S[f[i]]
           /\ \A i, j \in Whole(R) : i < j => f[i] < f[j] \/ \E n \in i .. j - 1 : R[n] \in Failing
    BY DEF Reading, Placed
  <2>2. \A i \in Whole(R) : f[i] \in 1 .. Len(S)
    BY <1>0
  <2>3. \A i \in Whole(R) : R[i] = V[f[i]]
    BY <2>1, <2>2
  <2> QED BY <2>1, <2>3 DEF Placed
<1>6. (F <= L.lo \/ F = L.hi) /\ (Complete(r) => Q # {})
  BY DEF Reading
<1> QED BY <1>1, <1>3, <1>4, <1>5, <1>6 DEF Reading

\* The subchannels that d still uses are those of a, with the same chunks and
\* bits; those that were out may be sent again.
Fewer(a, d, b) ==
  \A i \in Subchannels : d.sub[i].state # "FREE" =>
    /\ a.sub[i].state # "FREE" /\ d.sub[i].num = a.sub[i].num /\ d.sub[i].start = a.sub[i].start
    /\ d.sub[i].state # "TOSEND" => a.sub[i].state # "TOSEND" /\ d.sub[i].seq = a.sub[i].seq
    /\ SameBit(d, b, i) <=> SameBit(a, b, i)

\* Channel d after a step of the sender that takes nothing from the list and
\* sends nothing.
Stays(p, a, b, N, d, M, s, sd, S, C) ==
  /\ Fewer(a, d, b)
  /\ C \in Cuts(d.waiting[s], S) /\ Lined(d.waiting[s], sd, S, C) /\ Fits(s, d.waiting[s], S)
  /\ \A k \in Accepts(p, b, M) : /\ k \in Accepts(p, b, N)
                                 /\ k.subch # -1 => /\ k.subch \in Subchannels
                                                    /\ d.sub[k.subch].state # "FREE"

\* A step that keeps every chunk where it was and opens nothing keeps the places.
LEMMA StaysPlacing ==
  ASSUME NEW p, NEW a, NEW b, NEW N, NEW d, NEW M, NEW s, NEW st, NEW sd, NEW S, NEW R,
         NEW B, NEW C, NEW D, NEW L, NEW F,
         Placing(p, a, b, N, s, st, S, R, B, D, L, F), Stays(p, a, b, N, d, M, s, sd, S, C),
         S \in Seq(Msg),
         \A i \in Holding(d, s) : Held(d.sub[i], s, d.waiting[s], S, C, D[i]),
         Level(d.waiting[s], S, C, L, F),
         Untaken(d.waiting[s], C, L) \subseteq Untaken(a.waiting[s], B, L)
  PROVE  Placing(p, d, b, M, s, sd, S, R, C, D, L, F)
<1>1. \A i \in Holding(d, s) : /\ i \in Holding(a, s) /\ ChunkOf(d.sub[i], s) = ChunkOf(a.sub[i], s)
                               /\ SameBit(d, b, i) <=> SameBit(a, b, i)
  BY DEF Stays, Fewer, Holding, ChunkOf
<1>2. \A i \in Out(d, s) : i \in Out(a, s) /\ i \in Holding(d, s) /\ d.sub[i].seq = a.sub[i].seq
  BY <1>1 DEF Stays, Fewer, Out, Holding
<1>3. Spans(d, s, S, C, D)
  <2>1. D \in [Subchannels -> Span] /\ Apart(a, s, D)
    BY DEF Placing, Spans
  <2>2. Apart(d, s, D)
    BY <1>1, <1>2, <2>1 DEF Apart
  <2> QED BY <2>1, <2>2 DEF Spans
<1>4. Ahead(d, s, S, D, L, Accepts(p, b, M))
  <2> SUFFICES ASSUME NEW k \in Accepts(p, b, M), k.subch # -1
               PROVE  /\ k.chunk[s] = Part(d.sub[k.subch], s, S, D[k.subch])
                      /\ d.sub[k.subch].num[s] # 0 => NotAfter(L, D[k.subch])
    BY DEF Ahead
  <2>1. /\ k \in Accepts(p, b, N) /\ k.subch \in Subchannels /\ d.sub[k.subch].state # "FREE"
    BY DEF Stays
  <2>2. d.sub[k.subch].num = a.sub[k.subch].num /\ d.sub[k.subch].start = a.sub[k.subch].start
    BY <2>1 DEF Stays, Fewer
  <2>3. /\ k.chunk[s] = Part(a.sub[k.subch], s, S, D[k.subch])
        /\ a.sub[k.subch].num[s] # 0 => NotAfter(L, D[k.subch])
    BY <2>1 DEF Placing, Ahead
  <2> QED BY <2>2, <2>3 DEF Part
<1>5. Taken(a, b, s, B, D, L) \subseteq Taken(d, b, s, C, D, L)
  <2>1. \A j \in Behind(d, b, s, D, L) : j \in Behind(a, b, s, D, L) /\ ChunkOf(d.sub[j], s) = ChunkOf(a.sub[j], s)
    BY <1>1 DEF Behind
  <2>2. Missing(d, b, s, C, D, L) \subseteq Missing(a, b, s, B, D, L)
    BY <2>1 DEF Missing
  <2> QED BY <2>2 DEF Taken
<1>6. Reading(b.recv[s], S, R, L, F, Taken(d, b, s, C, D, L))
  <2>1. L \in Span /\ L.hi <= Len(S) /\ F \in Nat /\ F <= L.hi /\ Len(S) \in Nat
    BY LenProperties DEF Level
  <2>2. Reading(b.recv[s], S, R, L, F, Taken(a, b, s, B, D, L))
    BY DEF Placing
  <2> QED BY <1>5, <2>1, <2>2, ReadingGrows
<1> QED BY <1>3, <1>4, <1>6 DEF Placing, Stays

\* The head is the same.
LEMMA HeadStays ==
  ASSUME NEW p, NEW a, NEW b, NEW N, NEW d, NEW M, NEW s, NEW st, NEW sd, NEW S \in Seq(Msg), NEW R,
         NEW B, NEW C, NEW D, NEW L, NEW F,
         Placing(p, a, b, N, s, st, S, R, B, D, L, F), Stays(p, a, b, N, d, M, s, sd, S, C),
         a.waiting[s] # <<>>, d.waiting[s] # <<>>, C[1] = B[1], C[2] = B[2],
         d.waiting[s][1].total = a.waiting[s][1].total,
         d.waiting[s][1].acked + d.waiting[s][1].pending = a.waiting[s][1].acked + a.waiting[s][1].pending,
         \A i \in Holding(d, s) : d.sub[i].state = "DIRTY" <=> a.sub[i].state = "DIRTY"
  PROVE  Placing(p, d, b, M, s, sd, S, R, C, D, L, F)
<1>1. HeadSpan(d.waiting[s], C) = HeadSpan(a.waiting[s], B)
  BY DEF HeadSpan
<1>2. ASSUME NEW i \in Holding(d, s)
      PROVE  Held(d.sub[i], s, d.waiting[s], S, C, D[i])
  <2>1. i \in Holding(a, s) /\ ChunkOf(d.sub[i], s) = ChunkOf(a.sub[i], s)
    BY DEF Stays, Fewer, Holding, ChunkOf
  <2>2. Held(a.sub[i], s, a.waiting[s], S, B, D[i])
    BY <2>1 DEF Placing, Spans
  <2> QED BY <1>1, <2>1, <2>2 DEF Held
<1>3. Level(d.waiting[s], S, C, L, F)
  BY <1>1 DEF Placing, Level
<1>4. Untaken(d.waiting[s], C, L) = Untaken(a.waiting[s], B, L)
  BY <1>1 DEF Untaken
<1> QED BY <1>2, <1>3, <1>4, StaysPlacing

\* Nothing of the head is out, and it is not what was read last.
LEMMA HeadLeaves ==
  ASSUME NEW p, NEW a, NEW b, NEW N, NEW d, NEW M, NEW s, NEW st, NEW sd, NEW S \in Seq(Msg), NEW R,
         NEW B, NEW C, NEW D, NEW L, NEW F, Len(d.waiting[s]) \in Nat,
         d.waiting[s] # <<>> => Len(d.waiting[s]) # 0,
         Placing(p, a, b, N, s, st, S, R, B, D, L, F), Stays(p, a, b, N, d, M, s, sd, S, C),
         L.hi <= C[1],
         \A i \in Holding(d, s) : d.sub[i].state = "DIRTY" /\ D[i].hi <= C[1]
  PROVE  Placing(p, d, b, M, s, sd, S, R, C, D, L, F)
<1>1. ASSUME NEW i \in Holding(d, s)
      PROVE  Held(d.sub[i], s, d.waiting[s], S, C, D[i])
  <2>1. i \in Holding(a, s) /\ ChunkOf(d.sub[i], s) = ChunkOf(a.sub[i], s)
    BY DEF Stays, Fewer, Holding, ChunkOf
  <2>2. Held(a.sub[i], s, a.waiting[s], S, B, D[i])
    BY <2>1 DEF Placing, Spans
  <2> QED BY <2>1, <2>2 DEF Held
<1>2. Level(d.waiting[s], S, C, L, F)
  BY DEF Placing, Level
<1>3. Untaken(d.waiting[s], C, L) = {}
  <2> SUFFICES ASSUME d.waiting[s] # <<>>, L = HeadSpan(d.waiting[s], C) PROVE FALSE
    BY DEF Untaken
  <2> DEFINE w == d.waiting[s]
  <2>1. C \in Cuts(w, S) /\ Lined(w, sd, S, C) /\ Len(S) \in Nat /\ Len(w) \in Nat
    BY LenProperties DEF Stays
  <2>2. 1 \in 1 .. Len(w) + 1 /\ 2 \in 1 .. Len(w) + 1 /\ 1 \in 1 .. Len(w)
    BY <2>1, CutsTyped
  <2>3. C[1] \in Nat /\ C[2] \in Nat
    BY <2>1, <2>2, CutsTyped
  <2>4. C[1] < C[2]
    BY <2>2, <2>1 DEF Lined
  <2>5. L.hi = C[2]
    BY DEF HeadSpan
  <2> QED BY <2>3, <2>4, <2>5
<1> QED BY <1>1, <1>2, <1>3, StaysPlacing

\* A chunk that would be read is that of a subchannel that is out and whose bit
\* the receiver has not taken.
LEMMA LiveChunk ==
  ASSUME NEW p, NEW q, NEW a, NEW b, NEW N \in SUBSET DatagramType,
         Sound(a), Sound(b), Protocol(p, q, a, b, N),
         NEW k \in Accepts(p, b, N), k.subch # -1
  PROVE  /\ k.subch \in Subchannels /\ a.sub[k.subch].state \in {"WAITING", "DIRTY"}
         /\ a.sub[k.subch].seq = k.seq /\ ~SameBit(a, b, k.subch)
<1> DEFINE i == k.subch
<1>1. i \in Subchannels /\ k.seq \in Nat /\ k.seq > b.inSeq
  BY DEF Accepts, DatagramType
<1>2. Link(p, q, a, b, N, i)
  BY <1>1 DEF Protocol, Links
<1>3. a.sub[i].state \in {"FREE", "TOSEND", "WAITING", "DIRTY"} /\ b.inSeq \in Nat /\ a.sub[i].seq \in Int
  BY <1>1, SoundNumbers DEF Numbers
<1>4. a.sub[i].state \in {"WAITING", "DIRTY"}
  BY <1>1, <1>2, <1>3 DEF Link, Idle, Ready
<1>5. Underway(p, q, a, b, N, i)
  BY <1>2, <1>4 DEF Link
<1>6. a.sub[i].seq = k.seq /\ ~SameBit(a, b, i)
  BY <1>1, <1>3, <1>5 DEF Underway
<1> QED BY <1>1, <1>4, <1>6

\* Neither end changes what matters for stream s.
LEMMA PlacingRests ==
  ASSUME NEW p, NEW a, NEW b, NEW d, NEW e, NEW N, NEW M, NEW s, NEW st, NEW S, NEW R,
         NEW B, NEW D, NEW L, NEW F, Placing(p, a, b, N, s, st, S, R, B, D, L, F),
         d.sub = a.sub, d.outRel = a.outRel, d.waiting[s] = a.waiting[s],
         e.recv[s] = b.recv[s], e.inRel = b.inRel, Accepts(p, e, M) \subseteq Accepts(p, b, N)
  PROVE  Placing(p, d, e, M, s, st, S, R, B, D, L, F)
<1>1. Spans(d, s, S, B, D)
  BY DEF Placing, Spans, Apart, Holding, Out
<1>2. Ahead(d, s, S, D, L, Accepts(p, e, M))
  BY DEF Placing, Ahead
<1>3. Taken(d, e, s, B, D, L) = Taken(a, b, s, B, D, L)
  BY DEF Taken, Missing, Behind, Holding, SameBit
<1> QED BY <1>1, <1>2, <1>3 DEF Placing

\* The subchannels do not change.
LEMMA SameSubs ==
  ASSUME NEW p, NEW q, NEW a, NEW b, NEW d, NEW N \in SUBSET DatagramType, NEW M, M \subseteq N,
         Sound(a), Sound(b), Protocol(p, q, a, b, N), d.sub = a.sub, d.outRel = a.outRel,
         NEW s, NEW sd, NEW S, NEW C \in Cuts(d.waiting[s], S), Lined(d.waiting[s], sd, S, C),
         Fits(s, d.waiting[s], S)
  PROVE  Stays(p, a, b, N, d, M, s, sd, S, C)
<1>1. Fewer(a, d, b)
  BY DEF Fewer, SameBit
<1>2. ASSUME NEW k \in Accepts(p, b, M)
      PROVE  /\ k \in Accepts(p, b, N)
             /\ k.subch # -1 => k.subch \in Subchannels /\ d.sub[k.subch].state # "FREE"
  <2>1. k \in Accepts(p, b, N)
    BY DEF Accepts
  <2> QED BY <2>1, LiveChunk
<1> QED BY <1>1, <1>2 DEF Stays

\* A subchannel that holds fragments of the head carries them.
LEMMA HoldingCarries ==
  ASSUME NEW a, Sound(a), NEW s \in Stream, NEW i \in Holding(a, s), a.sub[i].state # "DIRTY"
  PROVE  i \in Carrying(a, s)
<1>1. i \in Subchannels /\ a.sub \in [Subchannels -> SubchannelType]
  BY SenderParts DEF Holding
<1>2. a.sub[i] \in SubchannelType
  BY <1>1
<1>3. a.sub[i].num[s] \in Nat /\ a.sub[i].state \in {"FREE", "TOSEND", "WAITING", "DIRTY"}
  BY <1>2, ChunkFinite DEF SubchannelType
<1> QED BY <1>1, <1>3 DEF Holding, Carrying

\* A list of which nothing is out.
LEMMA NoneOut ==
  ASSUME NEW a, Sound(a), NEW s \in Stream, a.waiting[s] # <<>> => a.waiting[s][1].pending = 0
  PROVE  Carrying(a, s) = {}
<1>1. CASE a.waiting[s] = <<>>
  BY <1>1 DEF Sound, Accounting
<1>2. CASE a.waiting[s] # <<>>
  <2>1. Cardinality(InFlight(a, s)) = 0 /\ IsFiniteSet(InFlight(a, s))
    BY <1>2, InFlightFinite DEF Sound, Accounting
  <2>2. InFlight(a, s) = {}
    BY <2>1, FS_EmptySet
  <2>3. ASSUME NEW i \in Carrying(a, s) PROVE FALSE
    <3>1. i \in Subchannels /\ a.sub \in [Subchannels -> SubchannelType] /\ a.sub[i].num[s] > 0
      BY SenderParts DEF Carrying
    <3>2. a.sub[i] \in SubchannelType
      BY <3>1
    <3>3. ChunkOf(a.sub[i], s) # {}
      BY <3>1, <3>2, ChunkFinite
    <3> QED BY <2>2, <3>3 DEF InFlight
  <2> QED BY <2>3
<1> QED BY <1>1, <1>2

\* When nothing of the first item is under way, what is held is marked for
\* another send and of items that left the list.
LEMMA OnlyDirty ==
  ASSUME NEW a, Sound(a), NEW s \in Stream, a.waiting[s] # <<>> => a.waiting[s][1].pending = 0,
         NEW S, NEW B, NEW D, Spans(a, s, S, B, D)
  PROVE  \A i \in Holding(a, s) : a.sub[i].state = "DIRTY" /\ D[i].hi <= B[1]
<1>1. Carrying(a, s) = {}
  BY NoneOut
<1>2. \A i \in Holding(a, s) : a.sub[i].state = "DIRTY"
  BY <1>1, HoldingCarries
<1> QED BY <1>2 DEF Spans, Held

\* More is accepted.
LEMMA PlacingGrows ==
  ASSUME NEW p, NEW q, NEW a, NEW b, NEW N \in SUBSET DatagramType,
         Sound(a), Sound(b), Protocol(p, q, a, b, N), NEW s \in Stream, NEW st, NEW S \in Seq(Msg), NEW R,
         NEW m \in Msg, Fits(s, a.waiting[s], Append(S, m)),
         NEW B, NEW D, NEW L, NEW F, Placing(p, a, b, N, s, st, S, R, B, D, L, F)
  PROVE  Placing(p, a, b, N, s, Append(st, m), Append(S, m), R, B, D, L, F)
<1> DEFINE V == Append(S, m)
<1>1. /\ V \in Seq(Msg) /\ Len(S) \in Nat /\ Len(V) = Len(S) + 1 /\ Len(S) <= Len(V)
      /\ \A i \in 1 .. Len(S) : V[i] = S[i]
      /\ \A x, y \in Nat : x <= y /\ y <= Len(S) => Piece(V, x, y) = Piece(S, x, y)
  <2>1. /\ V \in Seq(Msg) /\ Len(S) \in Nat /\ Len(V) = Len(S) + 1
        /\ \A i \in 1 .. Len(S) : V[i] = S[i]
    BY LenProperties, AppendProperties
  <2>2. \A x, y \in Nat : x <= y /\ y <= Len(S) => Piece(V, x, y) = Piece(S, x, y)
    BY PieceOfAppend
  <2> HIDE DEF V
  <2> QED BY <2>1, <2>2
<1>2. B \in Cuts(a.waiting[s], V) /\ Lined(a.waiting[s], Append(st, m), V, B)
  <2>1. Len(a.waiting[s]) \in Nat
    BY LenProperties, ChannelIsRecord, Fields DEF Sound
  <2> QED BY <2>1, AcceptLined DEF Placing
<1> HIDE DEF V
<1>3. \A i \in Holding(a, s) : /\ D[i].lo \in Nat /\ D[i].hi \in Nat /\ D[i].lo < D[i].hi /\ D[i].hi <= Len(S)
                               /\ D[i].lo + 1 \in 1 .. Len(S)
  <2> TAKE i \in Holding(a, s)
  <2>1. D[i] \in Span /\ D[i].lo < D[i].hi /\ D[i].hi <= Len(S)
    BY DEF Placing, Spans, Held
  <2>2. D[i].lo \in Nat /\ D[i].hi \in Nat
    BY <2>1, SpanTyped
  <2>3. D[i].lo + 1 \in 1 .. Len(S)
    BY <1>1, <2>1, <2>2
  <2> QED BY <2>1, <2>2, <2>3
<1>4. Spans(a, s, V, B, D)
  <2>1. ASSUME NEW i \in Holding(a, s) PROVE Held(a.sub[i], s, a.waiting[s], V, B, D[i])
    <3>1. Held(a.sub[i], s, a.waiting[s], S, B, D[i])
      BY DEF Placing, Spans
    <3>2. D[i].hi <= Len(V)
      BY <1>1, <1>3
    <3> QED BY <3>1, <3>2 DEF Held
  <2> QED BY <2>1 DEF Placing, Spans
<1>5. Ahead(a, s, V, D, L, Accepts(p, b, N))
  <2> SUFFICES ASSUME NEW k \in Accepts(p, b, N), k.subch # -1
               PROVE  /\ k.chunk[s] = Part(a.sub[k.subch], s, V, D[k.subch])
                      /\ a.sub[k.subch].num[s] # 0 => NotAfter(L, D[k.subch])
    BY DEF Ahead
  <2> DEFINE i == k.subch
  <2>1. /\ k.chunk[s] = Part(a.sub[i], s, S, D[i])
        /\ a.sub[i].num[s] # 0 => NotAfter(L, D[i])
    BY DEF Placing, Ahead
  <2>2. i \in Subchannels /\ a.sub[i].state # "FREE"
    BY LiveChunk
  <2>3. a.sub[i].num[s] # 0 => i \in Holding(a, s)
    BY <2>2 DEF Holding
  <2>4. a.sub[i].num[s] # 0 => Piece(V, D[i].lo, D[i].hi) = Piece(S, D[i].lo, D[i].hi) /\ V[D[i].lo + 1] = S[D[i].lo + 1]
    BY <1>1, <1>3, <2>3
  <2> QED BY <2>1, <2>4 DEF Part
<1>6. Level(a.waiting[s], V, B, L, F)
  BY <1>1, SpanTyped DEF Placing, Level
<1>7. Reading(b.recv[s], V, R, L, F, Taken(a, b, s, B, D, L))
  <2>1. L \in Span /\ L.hi <= Len(S) /\ F \in Nat /\ F <= L.hi
    BY DEF Placing, Level
  <2>2. Reading(b.recv[s], S, R, L, F, Taken(a, b, s, B, D, L))
    BY DEF Placing
  <2> QED BY <1>1, <2>1, <2>2, ReadingGrows
<1> QED BY <1>1, <1>2, <1>4, <1>5, <1>6, <1>7 DEF Placing, V

\* The list gets a new end, or a new head that has not been sent.
LEMMA ListPlacing ==
  ASSUME NEW p, NEW q, NEW a, NEW b, NEW d, NEW N \in SUBSET DatagramType,
         Sound(a), Sound(b), Protocol(p, q, a, b, N), NEW s \in Stream, NEW st, NEW sd,
         NEW S \in Seq(Msg), NEW R, NEW B, NEW D, NEW L, NEW F,
         Placing(p, a, b, N, s, st, S, R, B, D, L, F),
         d.sub = a.sub, d.outRel = a.outRel, d.waiting[s] \in Seq(ItemType), d.waiting[s] # <<>>,
         NEW C \in Cuts(d.waiting[s], S), Lined(d.waiting[s], sd, S, C), Fits(s, d.waiting[s], S),
         C[1] = B[1], a.waiting[s] # <<>> => C[2] = B[2] /\ d.waiting[s][1] = a.waiting[s][1]
  PROVE  Placing(p, d, b, N, s, sd, S, R, C, D, L, F)
<1>1. Stays(p, a, b, N, d, N, s, sd, S, C)
  BY SameSubs
<1>2. CASE a.waiting[s] # <<>>
  <2>1. \A i \in Holding(d, s) : d.sub[i].state = "DIRTY" <=> a.sub[i].state = "DIRTY"
    OBVIOUS
  <2> QED BY <1>1, <1>2, <2>1, HeadStays
<1>3. CASE a.waiting[s] = <<>>
  <2>1. L.hi <= B[1]
    BY <1>3 DEF Placing, Level
  <2>2. \A i \in Holding(a, s) : a.sub[i].state = "DIRTY" /\ D[i].hi <= B[1]
    BY <1>3, OnlyDirty DEF Placing
  <2>3. Holding(d, s) = Holding(a, s)
    BY DEF Holding
  <2>4. Len(d.waiting[s]) \in Nat /\ (d.waiting[s] # <<>> => Len(d.waiting[s]) # 0)
    BY LenProperties, EmptySeq
  <2> QED BY <1>1, <2>1, <2>2, <2>3, <2>4, HeadLeaves
<1> QED BY <1>2, <1>3

\* What was accepted for a stream and what was handled agree with the state.
Traced(p, a, b, N, s, S, R) ==
  \E B, D, L, F : Placing(p, a, b, N, s, Buffer(a, s), S, R, B, D, L, F)

\* Places that do not depend on anything that changed.
LEMMA TracedRests ==
  ASSUME NEW p, NEW a, NEW b, NEW d, NEW e, NEW N, NEW M, NEW s, NEW S, NEW R,
         Traced(p, a, b, N, s, S, R),
         d.sub = a.sub, d.outRel = a.outRel, d.waiting[s] = a.waiting[s], Buffer(d, s) = Buffer(a, s),
         e.recv[s] = b.recv[s], e.inRel = b.inRel, Accepts(p, e, M) \subseteq Accepts(p, b, N)
  PROVE  Traced(p, d, e, M, s, S, R)
<1>1. PICK B, D, L, F : Placing(p, a, b, N, s, Buffer(a, s), S, R, B, D, L, F)
  BY DEF Traced
<1>2. Placing(p, d, e, M, s, Buffer(a, s), S, R, B, D, L, F)
  BY <1>1, PlacingRests
<1> QED BY <1>2 DEF Traced

\* The sender's lists.
LEMMA ListFits ==
  ASSUME NEW a, Sound(a), NEW s \in Stream
  PROVE  /\ a.waiting[s] \in Seq(ItemType) /\ Len(a.waiting[s]) \in Nat
         /\ a.waiting[s] # <<>> => 1 \in 1 .. Len(a.waiting[s]) /\ a.waiting[s][1] \in ItemType
<1>1. a.waiting[s] \in Seq(ItemType)
  BY ChannelIsRecord, Fields DEF Sound
<1> QED BY <1>1, LenProperties, ListHead

\* A message that may be accepted for stream s.
Fitting(s, m) == m \in Msg /\ (s = 0 <=> m \in NetMsg)

\* Another message that the stream may take.
LEMMA FitsAppend ==
  ASSUME NEW s \in Stream, NEW w, NEW S, Fits(s, w, S), NEW m, Fitting(s, m)
  PROVE  Fits(s, w, Append(S, m)) /\ S \in Seq(Msg) /\ m \in Msg
<1>1. S \in Seq(Msg) /\ m \in Msg
  BY DEF Fits, Fitting
<1>2. /\ Append(S, m) \in Seq(Msg) /\ Len(Append(S, m)) = Len(S) + 1 /\ Len(S) \in Nat
      /\ (\A i \in 1 .. Len(S) : Append(S, m)[i] = S[i]) /\ Append(S, m)[Len(S) + 1] = m
  BY <1>1, LenProperties, AppendProperties
<1>3. \A i \in 1 .. Len(Append(S, m)) : i \in 1 .. Len(S) \/ Append(S, m)[i] = m
  BY <1>2
<1>4. s = 0 => \A i \in 1 .. Len(Append(S, m)) : Append(S, m)[i] \in NetMsg
  BY <1>2, <1>3 DEF Fits, Fitting
<1>5. s = 1 => \A i \in 1 .. Len(Append(S, m)) : Append(S, m)[i] \notin NetMsg
  BY <1>2, <1>3 DEF Fits, Fitting
<1> QED BY <1>1, <1>2, <1>4, <1>5 DEF Fits

\* SendNetMsg, and the message after a Clear.
LEMMA WriteTraced ==
  ASSUME NEW p, NEW q, NEW a, NEW b, NEW N \in SUBSET DatagramType,
         Sound(a), Sound(b), Protocol(p, q, a, b, N), NEW S, NEW R, NEW m \in NetMsg,
         Traced(p, a, b, N, 0, S, R)
  PROVE  Traced(p, WriteToBuffer(a, m), b, N, 0, Append(S, m), R)
<1> DEFINE d == WriteToBuffer(a, m)
<1>1. PICK B, D, L, F : Placing(p, a, b, N, 0, a.stream, S, R, B, D, L, F)
  BY DEF Traced, Buffer
<1>2. Fits(0, a.waiting[0], Append(S, m)) /\ S \in Seq(Msg) /\ m \in Msg
  BY <1>1, FitsAppend, Streams DEF Placing, Fitting, Msg
<1>3. Placing(p, a, b, N, 0, Append(a.stream, m), Append(S, m), R, B, D, L, F)
  BY <1>1, <1>2, PlacingGrows, Streams
<1>4. a \in ChannelRecord
  BY ChannelIsRecord DEF Sound
<1>5. d.sub = a.sub /\ d.outRel = a.outRel /\ d.waiting = a.waiting /\ d.stream = Append(a.stream, m)
  BY <1>4 DEF WriteToBuffer, ChannelRecord
<1>6. Placing(p, d, b, N, 0, Append(a.stream, m), Append(S, m), R, B, D, L, F)
  BY <1>3, <1>5, PlacingRests
<1> QED BY <1>5, <1>6 DEF Traced, Buffer

\* Item h with what is not in an item yet is a new one, or the last one with
\* its new messages.
Joins(w, v, h, st, S, B) ==
  \/ /\ v = Append(w, h) /\ h.payload = st
     /\ h.file <=> S[B[Len(w) + 1] + 1] \in FileMsg
  \/ /\ v = [w EXCEPT ![Len(w)] = h] /\ Len(w) > 1
     /\ h.payload = w[Len(w)].payload \o st
     /\ h.file <=> w[Len(w)].file

\* The list v has cuts with the same beginning.
Recut(w, v, S, B) ==
  \E C \in Cuts(v, S) : Lined(v, <<>>, S, C) /\ C[1] = B[1] /\ (w # <<>> => C[2] = B[2])

\* The buffer becomes an item, joined to the last one when there is room.
LEMMA JoinLined ==
  ASSUME NEW S \in Seq(Msg), NEW w \in Seq(ItemType), NEW v, NEW h \in ItemType, NEW st, st # <<>>,
         NEW B \in Cuts(w, S), Lined(w, st, S, B), Joins(w, v, h, st, S, B)
  PROVE  /\ v \in Seq(ItemType) /\ v # <<>> /\ (w # <<>> => v[1] = w[1])
         /\ Recut(w, v, S, B)
         /\ \A n \in 1 .. Len(v) : v[n] = h \/ (n \in 1 .. Len(w) /\ v[n] = w[n])
<1>1. Len(w) \in Nat /\ DOMAIN w = 1 .. Len(w) /\ (w # <<>> => 1 \in 1 .. Len(w))
  BY LenProperties, ListHead
<1>2. CASE /\ v = Append(w, h) /\ h.payload = st
           /\ h.file <=> S[B[Len(w) + 1] + 1] \in FileMsg
  <2>1. Recut(w, v, S, B)
    BY <1>2, CreateLined DEF Recut
  <2>2. v \in Seq(ItemType) /\ v # <<>> /\ (w # <<>> => v[1] = w[1])
    BY <1>1, <1>2, ListAppend
  <2>3. Len(v) = Len(w) + 1 /\ v[Len(w) + 1] = h /\ \A n \in 1 .. Len(w) : v[n] = w[n]
    BY <1>1, <1>2, AppendProperties
  <2>4. \A n \in 1 .. Len(v) : n \in 1 .. Len(w) \/ n = Len(w) + 1
    BY <1>1, <2>3
  <2> QED BY <2>1, <2>2, <2>3, <2>4
<1>3. CASE /\ v = [w EXCEPT ![Len(w)] = h] /\ Len(w) > 1
           /\ h.payload = w[Len(w)].payload \o st
           /\ h.file <=> w[Len(w)].file
  <2>1. \E C \in Cuts([w EXCEPT ![Len(w)] = h], S) :
          /\ Lined([w EXCEPT ![Len(w)] = h], <<>>, S, C) /\ C[1] = B[1] /\ C[2] = B[2]
    BY <1>3, MergeLined
  <2>2. Len(w) \in 1 .. Len(w) /\ 1 # Len(w) /\ w # <<>>
    BY <1>1, <1>3, EmptySeq
  <2>3. /\ v \in Seq(ItemType) /\ v # <<>> /\ v[Len(w)] = h /\ DOMAIN v = DOMAIN w
        /\ \A m \in DOMAIN w \ {Len(w)} : v[m] = w[m]
    BY <1>1, <1>3, <2>2, ListUpdate
  <2>4. DOMAIN v = 1 .. Len(v)
    BY <2>3, LenProperties
  <2>5. \A n \in 1 .. Len(v) : v[n] = h \/ (n \in 1 .. Len(w) /\ v[n] = w[n])
    BY <1>1, <2>3, <2>4
  <2>6. v[1] = w[1]
    BY <1>1, <2>2, <2>3
  <2>7. Recut(w, v, S, B)
    BY <1>3, <2>1 DEF Recut
  <2> QED BY <2>3, <2>5, <2>6, <2>7
<1> QED BY <1>2, <1>3 DEF Joins

\* The buffer becomes an item or joins one, and the first item stays.
LEMMA ItemPlacing ==
  ASSUME NEW p, NEW q, NEW a, NEW b, NEW d, NEW N \in SUBSET DatagramType,
         Sound(a), Sound(b), Protocol(p, q, a, b, N), NEW s \in Stream, NEW st, st # <<>>,
         NEW S \in Seq(Msg), NEW R, NEW B, NEW D, NEW L, NEW F,
         Placing(p, a, b, N, s, st, S, R, B, D, L, F),
         d.sub = a.sub, d.outRel = a.outRel, NEW h \in ItemType, s = 1 => h.total = 1,
         Joins(a.waiting[s], d.waiting[s], h, st, S, B)
  PROVE  \E C : Placing(p, d, b, N, s, <<>>, S, R, C, D, L, F)
<1>1. a.waiting[s] \in Seq(ItemType)
  BY ListFits
<1>2. B \in Cuts(a.waiting[s], S) /\ Lined(a.waiting[s], st, S, B) /\ Fits(s, a.waiting[s], S)
  BY DEF Placing
<1>3. /\ d.waiting[s] \in Seq(ItemType) /\ d.waiting[s] # <<>>
      /\ a.waiting[s] # <<>> => d.waiting[s][1] = a.waiting[s][1]
  BY <1>1, <1>2, JoinLined
<1>4. \A n \in 1 .. Len(d.waiting[s]) :
        d.waiting[s][n] = h \/ (n \in 1 .. Len(a.waiting[s]) /\ d.waiting[s][n] = a.waiting[s][n])
  BY <1>1, <1>2, JoinLined
<1>5. Recut(a.waiting[s], d.waiting[s], S, B)
  BY <1>1, <1>2, JoinLined
<1>6. PICK C \in Cuts(d.waiting[s], S) :
        /\ Lined(d.waiting[s], <<>>, S, C) /\ C[1] = B[1] /\ (a.waiting[s] # <<>> => C[2] = B[2])
  BY <1>5 DEF Recut
<1>7. Fits(s, d.waiting[s], S)
  BY <1>2, <1>4 DEF Fits
<1>8. /\ Lined(d.waiting[s], <<>>, S, C) /\ C[1] = B[1]
      /\ a.waiting[s] # <<>> => C[2] = B[2] /\ d.waiting[s][1] = a.waiting[s][1]
  BY <1>3, <1>6
<1>9. d.waiting[s] \in Seq(ItemType) /\ d.waiting[s] # <<>>
  BY <1>3
<1>10. Placing(p, d, b, N, s, <<>>, S, R, C, D, L, F)
  BY <1>7, <1>8, <1>9, ListPlacing
<1> QED BY <1>10

\* What CreateFragmentsFromBuffer makes of the reliable buffer.
LEMMA CreatedItem ==
  ASSUME NEW a, Sound(a), a.stream # <<>>, NEW S, NEW B, Fits(0, a.waiting[0], S),
         B \in Cuts(a.waiting[0], S), Lined(a.waiting[0], a.stream, S, B)
  PROVE  LET d == CreateFragmentsFromBuffer(a)
         IN  /\ d.stream = <<>> /\ d.sub = a.sub /\ d.outRel = a.outRel /\ d.waiting[1] = a.waiting[1]
             /\ \E h \in ItemType : Joins(a.waiting[0], d.waiting[0], h, a.stream, S, B)
<1> DEFINE d == CreateFragmentsFromBuffer(a)
           list == a.waiting[0]
           st == a.stream
           n == a.streamSize
           last == list[Len(list)]
           append == Len(list) > 1 /\ last.total + n < MaxPayload
           merged == Item(last.payload \o st, last.total + n, FALSE)
           fresh == Item(st, n, FALSE)
           w0 == IF append THEN [list EXCEPT ![Len(list)] = merged] ELSE Append(list, fresh)
<1>1. /\ a \in ChannelRecord /\ a \in ChannelType /\ list \in Seq(ItemType) /\ st \in Seq(Msg)
      /\ Len(list) \in Nat
  BY SenderParts
<1>2. n \in Nat \ {0}
  BY <1>1, Fields
<1>3. d = [a EXCEPT !.stream = <<>>, !.streamSize = 0, !.waiting[0] = w0]
  BY <1>1 DEF CreateFragmentsFromBuffer
<1>4. /\ d.stream = <<>> /\ d.sub = a.sub /\ d.outRel = a.outRel
      /\ d.waiting[1] = a.waiting[1] /\ d.waiting[0] = w0
  <2> HIDE DEF w0
  <2>1. a.waiting \in [Stream -> Seq(ItemType)]
    BY <1>1, Fields
  <2> QED BY <1>1, <1>3, <2>1, Streams DEF ChannelRecord
<1> HIDE DEF d
<1>5. S \in Seq(Msg) /\ Len(S) \in Nat /\ \A i \in 1 .. Len(S) : S[i] \notin FileMsg
  BY LenProperties, MessageAssumption DEF Fits
<1>6. \A m \in 1 .. Len(list) + 1 : B[m] \in Nat /\ B[m] <= Len(S)
  BY <1>1, <1>5, CutsTyped
<1>7. CASE append
  <2>1. w0 = [list EXCEPT ![Len(list)] = merged] /\ Len(list) > 1
    <3> HIDE DEF merged
    <3> QED BY <1>7
  <2>2. Len(list) \in 1 .. Len(list)
    BY <1>1, <2>1
  <2>3. last \in ItemType
    BY <1>1, <2>2
  <2>4. last.payload \in Seq(Msg) /\ last.total \in Nat \ {0} /\ last.file \in BOOLEAN
    BY <2>3 DEF ItemType
  <2>5. ~last.file
    <3>1. last.file <=> S[B[Len(list)] + 1] \in FileMsg
      BY <2>2 DEF Lined
    <3>2. B[Len(list)] < B[Len(list) + 1]
      BY <2>2 DEF Lined
    <3>3. B[Len(list)] \in Nat /\ B[Len(list) + 1] \in Nat /\ B[Len(list) + 1] <= Len(S)
      BY <1>1, <1>6, <2>2
    <3>4. B[Len(list)] + 1 \in 1 .. Len(S)
      BY <1>5, <3>2, <3>3
    <3> QED BY <1>5, <3>1, <3>4
  <2> HIDE DEF last
  <2>6. last.payload \o st \in Seq(Msg) /\ last.total + n \in Nat \ {0}
    <3>1. last.total + n \in Nat \ {0}
      BY <1>2, <2>4
    <3>2. last.payload \o st \in Seq(Msg)
      BY <1>1, <2>4
    <3> QED BY <3>1, <3>2
  <2>7. merged \in ItemType /\ merged.payload = last.payload \o st /\ merged.file = FALSE
    BY <2>6, ItemTyped DEF Item
  <2> HIDE DEF merged, w0, list, st, n
  <2>8. Joins(list, w0, merged, st, S, B)
    BY <2>1, <2>5, <2>7 DEF Joins, last
  <2> QED BY <1>4, <2>7, <2>8 DEF d, list, st
<1>8. CASE ~append
  <2>1. w0 = Append(list, fresh)
    BY <1>8
  <2>2. fresh \in ItemType /\ fresh.payload = st /\ fresh.file = FALSE
    BY <1>1, <1>2, ItemTyped DEF Item
  <2>3. S[B[Len(list) + 1] + 1] \notin FileMsg
    <3>1. B[Len(list) + 1] \in Nat /\ B[Len(list) + 1] <= Len(S)
      BY <1>1, <1>6
    <3>2. st = Piece(S, B[Len(list) + 1], Len(S))
      BY DEF Lined
    <3>3. Len(st) = Len(S) - B[Len(list) + 1]
      BY <1>5, <3>1, <3>2, PieceToEnd
    <3>4. Len(st) # 0 /\ Len(st) \in Nat
      BY <1>1, LenProperties, EmptySeq
    <3>5. B[Len(list) + 1] + 1 \in 1 .. Len(S)
      BY <1>5, <3>1, <3>3, <3>4
    <3> QED BY <1>5, <3>5
  <2> HIDE DEF fresh, w0, list, st, n
  <2>4. Joins(list, w0, fresh, st, S, B)
    BY <2>1, <2>2, <2>3 DEF Joins
  <2> QED BY <1>4, <2>2, <2>4 DEF d, list, st
<1> QED BY <1>7, <1>8

\* CreateFragmentsFromBuffer keeps the places.
LEMMA CreateTraced ==
  ASSUME NEW p, NEW q, NEW a, NEW b, NEW N \in SUBSET DatagramType,
         Sound(a), Sound(b), Protocol(p, q, a, b, N), NEW s \in Stream, NEW S, NEW R,
         Traced(p, a, b, N, s, S, R)
  PROVE  Traced(p, CreateFragmentsFromBuffer(a), b, N, s, S, R)
<1> DEFINE d == CreateFragmentsFromBuffer(a)
<1>1. PICK B, D, L, F : Placing(p, a, b, N, s, Buffer(a, s), S, R, B, D, L, F)
  BY DEF Traced
<1>2. CASE a.stream = <<>>
  <2>1. d = a
    BY <1>2 DEF CreateFragmentsFromBuffer
  <2> QED BY <2>1
<1>3. CASE a.stream # <<>> /\ s = 0
  <2>1. Placing(p, a, b, N, 0, a.stream, S, R, B, D, L, F)
    BY <1>1, <1>3 DEF Buffer
  <2>2. /\ Fits(0, a.waiting[0], S) /\ B \in Cuts(a.waiting[0], S) /\ S \in Seq(Msg)
        /\ Lined(a.waiting[0], a.stream, S, B)
    BY <2>1 DEF Placing, Fits
  <2>3. d.stream = <<>> /\ d.sub = a.sub /\ d.outRel = a.outRel
    BY <1>3, <2>2, CreatedItem
  <2>4. PICK h \in ItemType : Joins(a.waiting[0], d.waiting[0], h, a.stream, S, B)
    BY <1>3, <2>2, CreatedItem
  <2> HIDE DEF d
  <2>5. \E C : Placing(p, d, b, N, 0, <<>>, S, R, C, D, L, F)
    <3>1. a.stream # <<>> /\ 0 \in Stream /\ (0 = 1 => h.total = 1)
      BY <1>3, Streams
    <3>2. S \in Seq(Msg)
      BY <2>2
    <3> HIDE DEF d
    <3> QED BY <2>1, <2>3, <2>4, <3>1, <3>2, ItemPlacing
  <2>6. Buffer(d, 0) = <<>>
    BY <2>3 DEF Buffer
  <2> QED BY <1>3, <2>5, <2>6 DEF Traced, d
<1>4. CASE a.stream # <<>> /\ s = 1
  <2>1. a \in ChannelRecord /\ a.waiting \in [Stream -> Seq(ItemType)]
    BY Fields, ChannelIsRecord DEF Sound
  <2>2. d.sub = a.sub /\ d.outRel = a.outRel /\ d.waiting[1] = a.waiting[1]
    BY <1>4, <2>1, Streams DEF CreateFragmentsFromBuffer, ChannelRecord
  <2>3. Buffer(d, 1) = Buffer(a, 1)
    BY DEF Buffer
  <2> HIDE DEF d
  <2> QED BY <1>4, <2>2, <2>3, TracedRests DEF d
<1> QED BY <1>2, <1>3, <1>4, Streams

\* SendFile and EnqueueVeryLargeAsyncTransfer.
LEMMA FileTraced ==
  ASSUME WholeFiles, NEW p, NEW q, NEW a, NEW b, NEW N \in SUBSET DatagramType,
         Sound(a), Sound(b), Protocol(p, q, a, b, N), NEW S, NEW R, NEW m \in AsyncMsg \cup FileMsg,
         Traced(p, a, b, N, 1, S, R),
         NEW d, d = [a EXCEPT !.waiting[1] = Append(@, Item(<<m>>, Size[m], m \in FileMsg))]
  PROVE  Traced(p, d, b, N, 1, Append(S, m), R)
<1> DEFINE w == a.waiting[1]
           h == Item(<<m>>, Size[m], m \in FileMsg)
           V == Append(S, m)
<1>1. PICK B, D, L, F : Placing(p, a, b, N, 1, <<>>, S, R, B, D, L, F)
  BY DEF Traced, Buffer
<1>2. Fitting(1, m) /\ m \in Msg /\ 1 \in Stream
  BY MessageAssumption, Streams DEF Fitting, Msg
<1>3. Fits(1, w, S) /\ S \in Seq(Msg) /\ V \in Seq(Msg) /\ Fits(1, w, V)
  <2>1. Fits(1, w, S)
    BY <1>1 DEF Placing
  <2>2. Fits(1, w, V)
    BY <1>2, <2>1, FitsAppend
  <2> QED BY <2>1, <2>2 DEF Fits
<1>4. Placing(p, a, b, N, 1, <<m>>, V, R, B, D, L, F)
  <2>1. Placing(p, a, b, N, 1, Append(<<>>, m), V, R, B, D, L, F)
    BY <1>1, <1>2, <1>3, PlacingGrows
  <2>2. Append(<<>>, m) = <<m>>
    OBVIOUS
  <2> QED BY <2>1, <2>2
<1>5. h \in ItemType /\ h.payload = <<m>> /\ h.total = 1 /\ (h.file <=> m \in FileMsg)
  <2>1. <<m>> \in Seq(Msg) /\ Size[m] \in Nat \ {0} /\ (m \in FileMsg) \in BOOLEAN /\ Size[m] = 1
    BY <1>2, SizePositive DEF WholeFiles
  <2>2. h \in ItemType
    BY <2>1, ItemTyped
  <2> QED BY <2>1, <2>2 DEF Item
<1>6. w \in Seq(ItemType) /\ Len(w) \in Nat
  BY <1>2, ListFits
<1>7. V[B[Len(w) + 1] + 1] = m
  <2>1. B \in Cuts(w, S) /\ <<>> = Piece(S, B[Len(w) + 1], Len(S)) /\ Len(S) \in Nat
    BY <1>1, <1>3, LenProperties DEF Placing, Lined
  <2>2. B[Len(w) + 1] \in Nat /\ B[Len(w) + 1] <= Len(S)
    BY <1>6, <2>1, CutsTyped
  <2>3. Len(S) - B[Len(w) + 1] = 0
    BY <1>3, <2>1, <2>2, PieceToEnd, EmptySeq
  <2>4. B[Len(w) + 1] + 1 = Len(S) + 1
    BY <2>1, <2>2, <2>3
  <2>5. V[Len(S) + 1] = m
    BY <1>2, <1>3, AppendProperties
  <2> QED BY <2>4, <2>5
<1>8. d.waiting[1] = Append(w, h) /\ d.sub = a.sub /\ d.outRel = a.outRel
  <2>1. a \in ChannelRecord /\ a.waiting \in [Stream -> Seq(ItemType)]
    BY Fields, ChannelIsRecord DEF Sound
  <2> HIDE DEF h
  <2> QED BY <1>2, <2>1 DEF ChannelRecord, h
<1>9. Joins(w, d.waiting[1], h, <<m>>, V, B)
  <2> HIDE DEF h, V, w
  <2> QED BY <1>5, <1>7, <1>8 DEF Joins
<1>10. \E C : Placing(p, d, b, N, 1, <<>>, V, R, C, D, L, F)
  <2>1. <<m>> # <<>> /\ (1 = 1 => h.total = 1) /\ h \in ItemType
    BY <1>5
  <2>2. V \in Seq(Msg) /\ 1 \in Stream /\ d.sub = a.sub /\ d.outRel = a.outRel
    BY <1>2, <1>3, <1>8
  <2> HIDE DEF h, V
  <2> QED BY <1>4, <1>9, <2>1, <2>2, ItemPlacing
<1> QED BY <1>10 DEF Traced, Buffer

\* CompressFragments.
LEMMA CompressTraced ==
  ASSUME NEW p, NEW q, NEW a, NEW b, NEW N \in SUBSET DatagramType,
         Sound(a), Sound(b), Protocol(p, q, a, b, N), NEW s \in Stream, NEW S, NEW R,
         Traced(p, a, b, N, s, S, R), NEW d \in CompressFragments(a)
  PROVE  Traced(p, d, b, N, s, S, R)
<1> DEFINE w == a.waiting[s]
           v == d.waiting[s]
<1>1. PICK B, D, L, F : Placing(p, a, b, N, s, Buffer(a, s), S, R, B, D, L, F)
  BY DEF Traced
<1>2. /\ v \in CompressedHeads(w) /\ d.sub = a.sub /\ d.outRel = a.outRel /\ d.stream = a.stream
  <2>1. a \in ChannelRecord
    BY ChannelIsRecord DEF Sound
  <2>2. PICK w0 \in CompressedHeads(a.waiting[0]), w1 \in CompressedHeads(a.waiting[1]) :
           d = [a EXCEPT !.waiting = [r \in Stream |-> IF r = 0 THEN w0 ELSE w1]]
    BY DEF CompressFragments
  <2>3. /\ d.waiting = [r \in Stream |-> IF r = 0 THEN w0 ELSE w1]
        /\ d.sub = a.sub /\ d.outRel = a.outRel /\ d.stream = a.stream
    BY <2>1, <2>2 DEF ChannelRecord
  <2>4. s = 0 \/ s = 1
    BY Streams
  <2> QED BY <2>2, <2>3, <2>4
<1>3. Buffer(d, s) = Buffer(a, s)
  BY <1>2 DEF Buffer
<1>4. w \in Seq(ItemType) /\ S \in Seq(Msg) /\ Fits(s, w, S)
  BY <1>1, ListFits DEF Placing, Fits
<1>5. CASE v = w
  BY <1>2, <1>3, <1>5, TracedRests
<1>6. CASE v # w
  <2>1. /\ w # <<>> /\ w[1].acked = 0 /\ w[1].pending = 0
        /\ \E n \in 1 .. w[1].total - 1 : v = [w EXCEPT ![1].total = n, ![1].compressed = TRUE]
    BY <1>2, <1>6 DEF CompressedHeads, Compressible
  <2>2. w[1] \in ItemType /\ 1 \in 1 .. Len(w) /\ Len(w) \in Nat
    BY <1>4, <2>1, ListHead, LenProperties
  <2>3. w[1].total \in Nat
    BY <2>2 DEF ItemType
  <2>4. s # 1
    <3>1. w[1].total # 1
      BY <2>1
    <3>2. s = 1 => w[1].total = 1
      BY <1>4, <2>2 DEF Fits
    <3> QED BY <3>1, <3>2
  <2>5. Fits(s, v, S)
    BY <1>4, <2>4 DEF Fits
  <2>6. /\ v \in Seq(ItemType) /\ DOMAIN v = DOMAIN w /\ v # <<>>
        /\ \A n \in DOMAIN v \ {1} : v[n] = w[n]
    BY <1>2, <1>4, <2>1, CompressedHeadsSound
  <2>7. Len(v) = Len(w) /\ DOMAIN w = 1 .. Len(w) /\ Len(v) # 0
    BY <1>4, <2>6, LenProperties, EmptySeq
  <2>8. v[1].payload = w[1].payload /\ v[1].file = w[1].file
    BY <2>1, <2>2, <2>7 DEF ItemType
  <2>9. \A n \in 1 .. Len(w) : v[n].payload = w[n].payload /\ v[n].file = w[n].file
    <3> TAKE n \in 1 .. Len(w)
    <3>1. n = 1 \/ v[n] = w[n]
      BY <2>6, <2>7
    <3> QED BY <2>8, <3>1
  <2> HIDE DEF w, v
  <2>10. B \in Cuts(v, S) /\ Lined(v, Buffer(a, s), S, B)
    <3>1. B \in Cuts(w, S) /\ Lined(w, Buffer(a, s), S, B)
      BY <1>1 DEF Placing, w
    <3> QED BY <2>7, <2>9, <3>1, SameLined
  <2>11. Stays(p, a, b, N, d, N, s, Buffer(d, s), S, B)
    BY <1>2, <1>3, <2>5, <2>10, SameSubs DEF v
  <2>12. L.hi <= B[1]
    <3>1. Level(w, S, B, L, F)
      BY <1>1 DEF Placing, w
    <3> QED BY <2>1, <3>1 DEF Level
  <2>13. \A i \in Holding(d, s) : d.sub[i].state = "DIRTY" /\ D[i].hi <= B[1]
    <3>1. Spans(a, s, S, B, D)
      BY <1>1 DEF Placing
    <3>2. \A i \in Holding(a, s) : a.sub[i].state = "DIRTY" /\ D[i].hi <= B[1]
      BY <2>1, <3>1, OnlyDirty DEF w
    <3> QED BY <1>2, <3>2 DEF Holding
  <2>14. Len(d.waiting[s]) \in Nat /\ (d.waiting[s] # <<>> => Len(d.waiting[s]) # 0)
    BY <2>2, <2>7 DEF v
  <2>15. Placing(p, d, b, N, s, Buffer(d, s), S, R, B, D, L, F)
    BY <1>1, <1>4, <2>11, <2>12, <2>13, <2>14, HeadLeaves
  <2> QED BY <2>15 DEF Traced
<1> QED BY <1>5, <1>6

\* The cuts of a list that is not empty.
LEMMA HeadCuts ==
  ASSUME NEW w \in Seq(ItemType), w # <<>>, NEW st, NEW S \in Seq(Msg),
         NEW B \in Cuts(w, S), Lined(w, st, S, B)
  PROVE  /\ B[1] \in Nat /\ B[2] \in Nat /\ B[1] < B[2] /\ B[2] <= Len(S) /\ Len(S) \in Nat
         /\ w[1].payload = Piece(S, B[1], B[2]) /\ (w[1].file <=> S[B[1] + 1] \in FileMsg)
         /\ HeadSpan(w, B) \in Span
<1>1. Len(w) \in Nat /\ 1 \in 1 .. Len(w) /\ w[1] \in ItemType /\ Len(S) \in Nat
  BY ListHead, LenProperties
<1>2. 1 \in 1 .. Len(w) + 1 /\ 2 \in 1 .. Len(w) + 1
  BY <1>1
<1>3. B[1] \in Nat /\ B[2] \in Nat /\ B[2] <= Len(S)
  BY <1>1, <1>2, CutsTyped
<1>4. /\ B[1] < B[2] /\ w[1].payload = Piece(S, B[1], B[2])
      /\ w[1].file <=> S[B[1] + 1] \in FileMsg
  <2>1. B[1] < B[1 + 1] /\ w[1].payload = Piece(S, B[1], B[1 + 1]) /\ (w[1].file <=> S[B[1] + 1] \in FileMsg)
    BY <1>1 DEF Lined
  <2>2. 1 + 1 = 2
    OBVIOUS
  <2> QED BY <2>1, <2>2
<1>5. w[1].total \in Nat \ {0}
  BY <1>1 DEF ItemType
<1> QED BY <1>1, <1>3, <1>4, <1>5 DEF HeadSpan, Span

\* A subchannel that takes nothing of stream s.
LEMMA TakesNonePlacing ==
  ASSUME NEW p, NEW q, NEW a, NEW b, NEW d, NEW N \in SUBSET DatagramType,
         Sound(a), Sound(b), Protocol(p, q, a, b, N), NEW s \in Stream, NEW st, NEW S, NEW R,
         NEW B, NEW D, NEW L, NEW F, Placing(p, a, b, N, s, st, S, R, B, D, L, F),
         NEW i \in Subchannels, TakesInto(a, d, i), d.sub[i].num[s] = 0, d.waiting[s] = a.waiting[s]
  PROVE  Placing(p, d, b, N, s, st, S, R, B, D, L, F)
<1>1. /\ a.sub[i].state = "FREE" /\ d.sub[i].state = "TOSEND"
      /\ \A j \in Subchannels \ {i} : d.sub[j] = a.sub[j]
      /\ d.outRel = FlipBit(a.outRel, i)
  BY DEF TakesInto
<1>2. \A j \in Subchannels \ {i} : SameBit(d, b, j) <=> SameBit(a, b, j)
  BY <1>1 DEF SameBit, FlipBit
<1>3. /\ Holding(d, s) = Holding(a, s) /\ Out(d, s) = Out(a, s)
      /\ \A j \in Holding(a, s) : j \in Subchannels \ {i} /\ d.sub[j] = a.sub[j]
  BY <1>1 DEF Holding, Out
<1>4. Spans(d, s, S, B, D)
  <2>1. Spans(a, s, S, B, D)
    BY DEF Placing
  <2>2. Apart(d, s, D)
    BY <1>3, <2>1 DEF Spans, Apart, Out
  <2> QED BY <1>3, <2>1, <2>2 DEF Spans
<1>5. Ahead(d, s, S, D, L, Accepts(p, b, N))
  <2>1. \A k \in Accepts(p, b, N) : k.subch # -1 => k.subch \in Subchannels \ {i}
    BY <1>1, LiveChunk
  <2> QED BY <1>1, <2>1 DEF Placing, Ahead
<1>6. Taken(d, b, s, B, D, L) = Taken(a, b, s, B, D, L)
  <2>1. Behind(d, b, s, D, L) = Behind(a, b, s, D, L)
    BY <1>2, <1>3 DEF Behind
  <2>2. \A j \in Behind(a, b, s, D, L) : ChunkOf(d.sub[j], s) = ChunkOf(a.sub[j], s)
    BY <1>3 DEF Behind
  <2> QED BY <2>1, <2>2 DEF Taken, Missing
<1> QED BY <1>4, <1>5, <1>6 DEF Placing

\* One that takes the next fragments of the head.
LEMMA TakesRunPlacing ==
  ASSUME NEW p, NEW q, NEW a, NEW b, NEW d, NEW N \in SUBSET DatagramType,
         Sound(a), Sound(b), Protocol(p, q, a, b, N), NEW s \in Stream, NEW st, NEW S \in Seq(Msg), NEW R,
         NEW B, NEW D, NEW L, NEW F, Placing(p, a, b, N, s, st, S, R, B, D, L, F),
         NEW i \in Subchannels, TakesInto(a, d, i), NEW n \in Nat \ {0}, RunTaken(a, d, s, i, n)
  PROVE  \E E : Placing(p, d, b, N, s, st, S, R, B, E, L, F)
<1> DEFINE w == a.waiting[s]
           v == d.waiting[s]
           H == HeadSpan(w, B)
           x == w[1].acked + w[1].pending
           E == [D EXCEPT ![i] = H]
<1>1. /\ a.sub[i].state = "FREE" /\ d.sub[i].state = "TOSEND"
      /\ \A j \in Subchannels \ {i} : d.sub[j] = a.sub[j]
      /\ d.outRel = FlipBit(a.outRel, i)
  BY DEF TakesInto
<1>2. \A j \in Subchannels \ {i} : SameBit(d, b, j) <=> SameBit(a, b, j)
  BY <1>1 DEF SameBit, FlipBit
<1>3. /\ Holding(d, s) = Holding(a, s) \cup {i} /\ Out(d, s) = Out(a, s)
      /\ \A j \in Holding(a, s) : j \in Subchannels \ {i} /\ d.sub[j] = a.sub[j]
  <2>1. d.sub[i].num[s] # 0
    BY DEF RunTaken
  <2> QED BY <1>1, <2>1 DEF Holding, Out
<1>4. /\ w \in Seq(ItemType) /\ w[1] \in ItemType /\ Len(w) \in Nat /\ 1 \in 1 .. Len(w) /\ w # <<>>
  <2>1. w # <<>>
    BY DEF RunTaken
  <2> HIDE DEF w
  <2> QED BY <2>1, ListFits DEF w
<1>5. /\ w[1].total \in Nat /\ w[1].acked \in Nat /\ w[1].pending \in Nat /\ x \in Nat
      /\ x + n <= w[1].total
  <2>1. w[1].total \in Nat /\ w[1].acked \in Nat /\ w[1].pending \in Nat
    BY <1>4 DEF ItemType
  <2> QED BY <2>1 DEF RunTaken
<1>6. B \in Cuts(w, S) /\ Lined(w, st, S, B) /\ Fits(s, w, S)
  BY DEF Placing
<1>7. /\ B[1] \in Nat /\ B[2] \in Nat /\ B[1] < B[2] /\ B[2] <= Len(S) /\ H \in Span
      /\ H.lo = B[1] /\ H.hi = B[2] /\ H.total = w[1].total
  <2>1. H.lo = B[1] /\ H.hi = B[2] /\ H.total = w[1].total
    BY DEF HeadSpan
  <2> HIDE DEF w, H
  <2>2. w \in Seq(ItemType) /\ w # <<>> /\ B \in Cuts(w, S) /\ Lined(w, st, S, B)
    BY <1>4, <1>6
  <2>3. /\ B[1] \in Nat /\ B[2] \in Nat /\ B[1] < B[2] /\ B[2] <= Len(S)
        /\ HeadSpan(w, B) \in Span
    BY <2>2, HeadCuts
  <2> QED BY <2>1, <2>3 DEF H
<1>8. /\ Len(v) = Len(w) /\ v[1].total = w[1].total /\ v[1].acked = w[1].acked
      /\ v[1].pending = w[1].pending + n
      /\ \A m \in 1 .. Len(w) : /\ v[m].payload = w[m].payload /\ v[m].file = w[m].file
                                /\ v[m].total = w[m].total
  <2> DEFINE h == [w[1] EXCEPT !.pending = @ + n]
  <2>1. v = [w EXCEPT ![1] = h]
    BY <1>4 DEF RunTaken
  <2>2. /\ h.total = w[1].total /\ h.acked = w[1].acked /\ h.pending = w[1].pending + n
        /\ h.payload = w[1].payload /\ h.file = w[1].file
    BY <1>4 DEF ItemType
  <2> HIDE DEF h, w, v
  <2>3. Len(v) = Len(w) /\ \A m \in 1 .. Len(w) : v[m] = IF m = 1 THEN h ELSE w[m]
    BY <1>4, <2>1, LenProperties
  <2>4. v[1] = h
    BY <1>4, <2>3
  <2>5. ASSUME NEW m \in 1 .. Len(w)
        PROVE  v[m].payload = w[m].payload /\ v[m].file = w[m].file /\ v[m].total = w[m].total
    <3>1. CASE m = 1
      BY <2>2, <2>4, <3>1
    <3>2. CASE m # 1
      BY <2>3, <3>2
    <3> QED BY <3>1, <3>2
  <2> QED BY <2>2, <2>3, <2>4, <2>5
<1>9. B \in Cuts(v, S) /\ Lined(v, st, S, B) /\ Fits(s, v, S) /\ HeadSpan(v, B) = H /\ v # <<>>
  <2> HIDE DEF w, v
  <2>1. B \in Cuts(v, S) /\ Lined(v, st, S, B)
    BY <1>6, <1>8, SameLined
  <2>2. Fits(s, v, S)
    BY <1>6, <1>8 DEF Fits
  <2>3. HeadSpan(v, B) = H
    BY <1>8 DEF HeadSpan
  <2>4. v # <<>>
    BY <1>4, <1>8
  <2> QED BY <2>1, <2>2, <2>3, <2>4
<1> HIDE DEF v, H
<1>10. /\ D \in [Subchannels -> Span] /\ (\A j \in Holding(a, s) : Held(a.sub[j], s, w, S, B, D[j]))
       /\ Apart(a, s, D)
  BY DEF Placing, Spans
<1>11. E \in [Subchannels -> Span] /\ E[i] = H /\ \A j \in Subchannels \ {i} : E[j] = D[j]
  BY <1>7, <1>10
<1>12. ChunkOf(d.sub[i], s) = x .. x + n - 1 /\ d.sub[i].num[s] # 0
  BY DEF ChunkOf, RunTaken
<1> HIDE DEF E, w
<1>13. \A j \in Holding(d, s) : Held(d.sub[j], s, v, S, B, E[j])
  <2>1. ASSUME NEW j \in Holding(a, s) PROVE Held(d.sub[j], s, v, S, B, E[j])
    <3>1. Held(a.sub[j], s, w, S, B, D[j]) /\ d.sub[j] = a.sub[j] /\ E[j] = D[j]
      BY <1>3, <1>10, <1>11
    <3> QED BY <1>9, <3>1 DEF Held, H
  <2>2. Held(d.sub[i], s, v, S, B, E[i])
    <3>1. ChunkOf(d.sub[i], s) \subseteq 0 .. H.total - 1
      BY <1>5, <1>7, <1>12
    <3>2. s = 1 => H.total = 1
      <4>1. s = 1 => w[1].total = 1
        BY <1>4, <1>6 DEF Fits
      <4> QED BY <1>7, <4>1
    <3>3. d.sub[i].state # "DIRTY" /\ H.lo < H.hi /\ H.hi <= Len(S)
      BY <1>1, <1>7
    <3> QED BY <1>7, <1>9, <1>11, <3>1, <3>2, <3>3 DEF Held
  <2> QED BY <1>3, <2>1, <2>2
<1>14. ASSUME NEW j \in Holding(a, s), D[j] = H
       PROVE  ChunkOf(a.sub[j], s) \subseteq 0 .. x - 1
  <2>1. Held(a.sub[j], s, w, S, B, D[j])
    BY <1>10
  <2>2. a.sub[j].state # "DIRTY"
    BY <1>7, <1>14, <2>1 DEF Held
  <2>3. j \in Carrying(a, s)
    BY <2>2, HoldingCarries
  <2>4. InFlight(a, s) \subseteq 0 .. x - 1
    <3>1. Accounting(a, s)
      BY DEF Sound
    <3>2. a.waiting[s] # <<>>
      BY <1>4 DEF w
    <3>3. InFlight(a, s) \subseteq 0 .. a.waiting[s][1].acked + a.waiting[s][1].pending - 1
      BY <3>1, <3>2 DEF Accounting
    <3>4. x = a.waiting[s][1].acked + a.waiting[s][1].pending
      BY DEF w
    <3>5. \A u, z \in Nat : u + z - 1 = (u + z) - 1
      OBVIOUS
    <3>6. w[1].acked + w[1].pending - 1 = (w[1].acked + w[1].pending) - 1
      BY <1>5, <3>5
    <3>7. InFlight(a, s) \subseteq 0 .. w[1].acked + w[1].pending - 1
      BY <3>3 DEF w
    <3> QED BY <3>6, <3>7
  <2> QED BY <2>3, <2>4 DEF InFlight
<1>15. Apart(d, s, E)
  <2>1. ASSUME NEW j \in Holding(a, s), E[j] = E[i]
        PROVE  ChunkOf(d.sub[j], s) \cap ChunkOf(d.sub[i], s) = {}
    <3>1. ChunkOf(d.sub[j], s) \subseteq 0 .. x - 1
      BY <1>3, <1>11, <1>14, <2>1
    <3> QED BY <1>5, <1>12, <3>1
  <2>2. \A j, k \in Holding(d, s) :
          j # k /\ E[j] = E[k] => ChunkOf(d.sub[j], s) \cap ChunkOf(d.sub[k], s) = {}
    <3> SUFFICES ASSUME NEW j \in Holding(d, s), NEW k \in Holding(d, s), j # k, E[j] = E[k]
                 PROVE  ChunkOf(d.sub[j], s) \cap ChunkOf(d.sub[k], s) = {}
      OBVIOUS
    <3>1. CASE j = i
      BY <1>3, <2>1, <3>1
    <3>2. CASE k = i
      BY <1>3, <2>1, <3>2
    <3>3. CASE j # i /\ k # i
      <4>1. j \in Holding(a, s) /\ k \in Holding(a, s)
        BY <1>3, <3>3
      <4>2. D[j] = D[k] /\ d.sub[j] = a.sub[j] /\ d.sub[k] = a.sub[k]
        BY <1>3, <1>11, <4>1
      <4> QED BY <1>10, <4>1, <4>2 DEF Apart
    <3> QED BY <3>1, <3>2, <3>3
  <2>3. \A j \in Out(a, s) : j \in Holding(a, s) /\ d.sub[j] = a.sub[j] /\ E[j] = D[j]
    BY <1>3, <1>11 DEF Out
  <2>4. /\ \A j, k \in Out(d, s) : j # k => d.sub[j].seq # d.sub[k].seq
        /\ \A j, k \in Out(d, s) : d.sub[j].seq < d.sub[k].seq => NotAfter(E[j], E[k])
    BY <1>3, <1>10, <2>3 DEF Apart
  <2> QED BY <2>2, <2>4 DEF Apart
<1>16. Spans(d, s, S, B, E)
  BY <1>11, <1>13, <1>15 DEF Spans, v
<1>17. Ahead(d, s, S, E, L, Accepts(p, b, N))
  <2>1. \A k \in Accepts(p, b, N) : k.subch # -1 => k.subch \in Subchannels \ {i}
    BY <1>1, LiveChunk
  <2> QED BY <1>1, <1>11, <2>1 DEF Placing, Ahead
<1>18. Level(v, S, B, L, F)
  <2>1. Level(w, S, B, L, F)
    BY DEF Placing, w
  <2>2. v[1].acked + v[1].pending > 0
    BY <1>5, <1>8
  <2> QED BY <1>9, <2>1, <2>2 DEF Level, H
<1>19. Missing(d, b, s, B, E, L) \subseteq Missing(a, b, s, B, D, L)
  <2>1. Untaken(v, B, L) \subseteq Untaken(w, B, L)
    <3>1. v[1].acked + v[1].pending = x + n
      BY <1>5, <1>8
    <3>2. L = H => Untaken(v, B, L) = x + n .. w[1].total - 1 /\ Untaken(w, B, L) = x .. w[1].total - 1
      BY <1>4, <1>8, <1>9, <3>1 DEF Untaken, H
    <3>3. L # H => Untaken(v, B, L) = {}
      BY <1>9 DEF Untaken
    <3> QED BY <1>5, <3>2, <3>3
  <2>2. ASSUME NEW j \in Behind(d, b, s, E, L)
        PROVE  ChunkOf(d.sub[j], s) \subseteq Missing(a, b, s, B, D, L)
    <3>1. CASE j = i
      <4>1. L = H
        BY <1>11, <2>2, <3>1 DEF Behind
      <4>2. Untaken(w, B, L) = x .. w[1].total - 1
        BY <1>4, <4>1 DEF Untaken, H
      <4>3. x .. x + n - 1 \subseteq x .. w[1].total - 1
        BY <1>5
      <4> QED BY <1>12, <3>1, <4>2, <4>3 DEF Missing, w
    <3>2. CASE j # i
      <4>1. j \in Holding(a, s) /\ D[j] = E[j] /\ d.sub[j] = a.sub[j] /\ j \in Subchannels \ {i}
        BY <1>3, <1>11, <2>2, <3>2 DEF Behind
      <4>2. j \in Behind(a, b, s, D, L)
        BY <1>2, <2>2, <4>1 DEF Behind
      <4> QED BY <4>1, <4>2 DEF Missing
    <3> QED BY <3>1, <3>2
  <2> QED BY <2>1, <2>2 DEF Missing, v, w
<1>20. Reading(b.recv[s], S, R, L, F, Taken(d, b, s, B, E, L))
  <2>1. L \in Span /\ L.hi <= Len(S) /\ F \in Nat /\ F <= L.hi /\ Len(S) \in Nat
    BY LenProperties DEF Placing, Level
  <2>2. Reading(b.recv[s], S, R, L, F, Taken(a, b, s, B, D, L))
    BY DEF Placing
  <2>3. Taken(a, b, s, B, D, L) \subseteq Taken(d, b, s, B, E, L)
    BY <1>19 DEF Taken
  <2> QED BY <2>1, <2>2, <2>3, ReadingGrows
<1>21. Placing(p, d, b, N, s, st, S, R, B, E, L, F)
  BY <1>9, <1>16, <1>17, <1>18, <1>20 DEF Placing, v
<1> QED BY <1>21

\* UpdateSubChannels: a free subchannel takes a run of each stream, or nothing
\* changes.
LEMMA UpdateCases ==
  ASSUME NEW a, Sound(a), UpdateSubChannels(a) # a
  PROVE  LET d == UpdateSubChannels(a)
         IN  /\ d.stream = a.stream /\ d.recv = a.recv
             /\ \E i \in Subchannels :
                  TakesInto(a, d, i) /\ \A s \in Stream : \E n \in Nat : RunTaken(a, d, s, i, n)
<1> DEFINE d == UpdateSubChannels(a)
<1>1. d \in ChannelType
  BY UpdateTyped
<1>2. PICK i \in Subchannels : TakesInto(a, d, i)
  BY UpdateTyped
<1>3. \A s \in Stream : d.waiting[s] = IF Takes(a)[s] = 0 THEN a.waiting[s]
                          ELSE [a.waiting[s] EXCEPT ![1].pending = @ + Takes(a)[s]]
  BY UpdateTyped
<1>4. d.stream = a.stream /\ d.recv = a.recv
  <2>1. a \in ChannelRecord
    BY SenderParts
  <2> QED BY <2>1 DEF UpdateSubChannels, ChannelRecord
<1> HIDE DEF d
<1>5. ASSUME NEW s \in Stream PROVE \E n \in Nat : RunTaken(a, d, s, i, n)
  <2> DEFINE n == Takes(a)[s]
  <2>1. /\ a.sub \in [Subchannels -> SubchannelType] /\ d.sub \in [Subchannels -> SubchannelType]
        /\ a.waiting[s] \in Seq(ItemType)
    BY <1>1, Fields DEF Sound
  <2>2. /\ a.sub[i].state = "FREE" /\ d.sub[i].state = "TOSEND" /\ d.sub[i].num[s] = n
        /\ d.sub[i].start[s] = Starts(a)[s] /\ \A j \in Subchannels \ {i} : d.sub[j] = a.sub[j]
    BY <1>2 DEF TakesInto
  <2>3. n \in Nat /\ n <= Unsent(a, s)
    BY TakesBounds, FragmentAssumption DEF FragmentCount
  <2>4. n = 0 => d.waiting[s] = a.waiting[s]
    BY <1>3
  <2>5. ASSUME n # 0
        PROVE  /\ a.waiting[s] # <<>>
               /\ d.waiting[s] = [a.waiting[s] EXCEPT ![1].pending = @ + n]
               /\ d.sub[i].start[s] = a.waiting[s][1].acked + a.waiting[s][1].pending
               /\ a.waiting[s][1].acked + a.waiting[s][1].pending + n <= a.waiting[s][1].total
    <3> DEFINE head == a.waiting[s][1]
    <3>1. /\ a.waiting[s] # <<>> /\ head \in ItemType
          /\ Starts(a)[s] = head.acked + head.pending
      BY <2>5, StartsTyped
    <3>2. head.acked \in Nat /\ head.pending \in Nat /\ head.total \in Nat
      BY <3>1 DEF ItemType
    <3>3. Unsent(a, s) = head.total - (head.acked + head.pending)
      BY <3>1 DEF Unsent
    <3> HIDE DEF head, n
    <3>4. head.acked + head.pending + n <= head.total
      BY <2>3, <3>2, <3>3
    <3> QED BY <1>3, <2>2, <2>5, <3>1, <3>4 DEF head, n
  <2> HIDE DEF n
  <2>6. RunTaken(a, d, s, i, n)
    BY <2>1, <2>2, <2>4, <2>5 DEF RunTaken, SubTaken
  <2> QED BY <2>3, <2>6
<1> QED BY <1>2, <1>4, <1>5 DEF d

\* UpdateSubChannels keeps the places.
LEMMA UpdateTraced ==
  ASSUME NEW p, NEW q, NEW a, NEW b, NEW N \in SUBSET DatagramType,
         Sound(a), Sound(b), Protocol(p, q, a, b, N), NEW s \in Stream, NEW S, NEW R,
         Traced(p, a, b, N, s, S, R)
  PROVE  Traced(p, UpdateSubChannels(a), b, N, s, S, R)
<1> DEFINE d == UpdateSubChannels(a)
<1>1. CASE d = a
  BY <1>1
<1>2. CASE d # a
  <2>1. PICK B, D, L, F : Placing(p, a, b, N, s, Buffer(a, s), S, R, B, D, L, F)
    BY DEF Traced
  <2>2. S \in Seq(Msg)
    BY <2>1 DEF Placing, Fits
  <2>3. d.stream = a.stream
    BY <1>2, UpdateCases
  <2>4. PICK i \in Subchannels : TakesInto(a, d, i) /\ \A r \in Stream : \E m \in Nat : RunTaken(a, d, r, i, m)
    BY <1>2, UpdateCases
  <2>5. PICK n \in Nat : RunTaken(a, d, s, i, n)
    BY <2>4
  <2> HIDE DEF d
  <2>6. Buffer(d, s) = Buffer(a, s)
    BY <2>3 DEF Buffer
  <2>7. CASE n = 0
    <3>1. d.sub[i].num[s] = 0 /\ d.waiting[s] = a.waiting[s]
      BY <2>5, <2>7 DEF RunTaken
    <3>2. Placing(p, d, b, N, s, Buffer(a, s), S, R, B, D, L, F)
      BY <2>1, <2>4, <3>1, TakesNonePlacing
    <3> QED BY <2>6, <3>2 DEF Traced, d
  <2>8. CASE n # 0
    <3>1. \E E : Placing(p, d, b, N, s, Buffer(a, s), S, R, B, E, L, F)
      BY <2>1, <2>2, <2>4, <2>5, <2>8, TakesRunPlacing
    <3> QED BY <2>6, <3>1 DEF Traced, d
  <2> QED BY <2>7, <2>8
<1> QED BY <1>1, <1>2

\* The item of a subchannel: the head, or one that was cleared.
LEMMA HeldItem ==
  ASSUME NEW a, NEW s, NEW S, NEW B, NEW D, Spans(a, s, S, B, D), NEW i \in Holding(a, s)
  PROVE  /\ D[i] \in Span /\ D[i].lo < D[i].hi /\ D[i].hi <= Len(S)
         /\ ChunkOf(a.sub[i], s) \subseteq 0 .. D[i].total - 1
         /\ s = 1 => D[i].total = 1
         /\ a.sub[i].state = "DIRTY" => D[i].hi <= B[1]
         /\ a.sub[i].state # "DIRTY" => a.waiting[s] # <<>> /\ D[i] = HeadSpan(a.waiting[s], B)
BY DEF Spans, Held

\* The data of subchannel i goes out in datagram k.
Sends(a, d, k, i) ==
  /\ i \in Subchannels /\ a.sub[i].state = "TOSEND" /\ k.subch = i
  /\ \A s \in Stream : k.chunk[s] = Chunk(a, a.sub[i], s)
  /\ d.sub[i].state = "WAITING" /\ d.sub[i].seq = a.outSeq
  /\ d.sub[i].num = a.sub[i].num /\ d.sub[i].start = a.sub[i].start
  /\ \A j \in Subchannels : j # i => d.sub[j] = a.sub[j]

\* The sender's next datagram.
LEMMA SentDatagram ==
  ASSUME NEW p, NEW a, Sound(a)
  PROVE  LET d == AfterSend(a)
             k == Datagram(p, a)
             i == MinOf(ToSend(a))
         IN  /\ d.stream = a.stream /\ d.waiting = a.waiting /\ d.outRel = a.outRel /\ d.recv = a.recv
             /\ ToSend(a) = {} => k.subch = -1 /\ d.sub = a.sub
             /\ ToSend(a) # {} => Sends(a, d, k, i)
<1> DEFINE d == AfterSend(a)
           i == MinOf(ToSend(a))
           k == Datagram(p, a)
<1>1. /\ d.outRel = a.outRel
      /\ ToSend(a) = {} => d.sub = a.sub
      /\ ToSend(a) # {} => d.sub = [a.sub EXCEPT ![i].state = "WAITING", ![i].seq = a.outSeq]
  BY AfterSendSound
<1>2. d.stream = a.stream /\ d.waiting = a.waiting /\ d.recv = a.recv
  BY SenderParts DEF AfterSend, ChannelRecord
<1>3. ToSend(a) # {} => i \in Subchannels /\ a.sub[i].state = "TOSEND"
  <2>1. ToSend(a) \subseteq Subchannels
    BY DEF ToSend
  <2>2. ToSend(a) # {} => i \in ToSend(a)
    BY <2>1, FirstSubchannel
  <2> QED BY <2>2 DEF ToSend
<1>4. /\ ToSend(a) = {} => k.subch = -1
      /\ ToSend(a) # {} => k.subch = i /\ \A s \in Stream : k.chunk[s] = Chunk(a, a.sub[i], s)
  <2>1. ToSend(a) # {} => i # -1
    BY <1>3, SubchannelsNat
  <2> HIDE DEF i
  <2> QED BY <2>1 DEF Datagram, i
<1>5. a.sub \in [Subchannels -> SubchannelType]
  BY SenderParts
<1> HIDE DEF d, i, k
<1>6. ToSend(a) # {} => /\ d.sub[i].state = "WAITING" /\ d.sub[i].seq = a.outSeq
                        /\ d.sub[i].num = a.sub[i].num /\ d.sub[i].start = a.sub[i].start
                        /\ \A j \in Subchannels : j # i => d.sub[j] = a.sub[j]
  BY <1>1, <1>3, <1>5 DEF SubchannelType
<1>7. ToSend(a) # {} => Sends(a, d, k, i)
  BY <1>3, <1>4, <1>6 DEF Sends
<1> QED BY <1>1, <1>2, <1>4, <1>7 DEF d, i, k

\* A subchannel is sent: its packet holds what it held.
LEMMA SendPlacing ==
  ASSUME NEW p, NEW q, NEW a, NEW b, NEW d, NEW N \in SUBSET DatagramType,
         Sound(a), Sound(b), Protocol(p, q, a, b, N), NEW s \in Stream, NEW st, NEW S \in Seq(Msg), NEW R,
         NEW B, NEW D, NEW L, NEW F, Placing(p, a, b, N, s, st, S, R, B, D, L, F),
         NEW i, NEW k, Sends(a, d, k, i), d.waiting = a.waiting, d.outRel = a.outRel
  PROVE  Placing(p, d, b, N \cup {k}, s, st, S, R, B, D, L, F)
<1> DEFINE w == a.waiting[s]
<1>1. /\ i \in Subchannels /\ a.sub[i].state = "TOSEND"
      /\ \A j \in Subchannels :
           /\ d.sub[j].num = a.sub[j].num /\ d.sub[j].start = a.sub[j].start
           /\ d.sub[j].state = "FREE" <=> a.sub[j].state = "FREE"
           /\ d.sub[j].state = "DIRTY" <=> a.sub[j].state = "DIRTY"
           /\ j # i => d.sub[j] = a.sub[j]
  BY DEF Sends
<1>2. Holding(d, s) = Holding(a, s) /\ \A j \in Subchannels : ChunkOf(d.sub[j], s) = ChunkOf(a.sub[j], s)
  BY <1>1 DEF Holding, ChunkOf
<1>3. Spans(a, s, S, B, D) /\ B \in Cuts(w, S) /\ Lined(w, st, S, B)
  BY DEF Placing
<1>4. \A j \in Out(d, s) : j = i \/ (j \in Out(a, s) /\ d.sub[j] = a.sub[j])
  BY <1>1, <1>2 DEF Out, Holding
<1>5. ASSUME NEW j \in Out(a, s)
      PROVE  j # i /\ j \in Subchannels /\ a.sub[j].seq \in Int /\ a.outSeq \in Int /\ a.sub[j].seq < a.outSeq
  <2>1. j \in Subchannels /\ a.sub[j].state # "FREE" /\ a.sub[j].state # "TOSEND"
    BY DEF Out, Holding
  <2>2. /\ a.sub[j].seq \in Int /\ a.outSeq \in Int
        /\ a.sub[j].state \in {"FREE", "TOSEND", "WAITING", "DIRTY"}
    BY <2>1, SoundNumbers DEF Numbers
  <2>3. Underway(p, q, a, b, N, j)
    BY <2>1, <2>2 DEF Protocol, Links, Link
  <2> QED BY <1>1, <2>1, <2>2, <2>3 DEF Underway
<1>6. d.sub[i].seq = a.outSeq
  BY DEF Sends
<1>7. ASSUME i \in Holding(a, s) PROVE w # <<>> /\ D[i] = HeadSpan(w, B)
  BY <1>1, <1>3, <1>7, HeldItem
<1>8. ASSUME i \in Holding(a, s), NEW j \in Out(a, s) PROVE NotAfter(D[j], D[i])
  <2>1. j \in Holding(a, s)
    BY DEF Out
  <2>2. CASE a.sub[j].state = "DIRTY"
    <3>1. D[j].hi <= B[1]
      BY <1>3, <2>1, <2>2, HeldItem
    <3>2. D[i].lo = B[1]
      BY <1>7, <1>8 DEF HeadSpan
    <3> QED BY <3>1, <3>2 DEF NotAfter
  <2>3. CASE a.sub[j].state # "DIRTY"
    <3>1. D[j] = HeadSpan(w, B)
      BY <1>3, <2>1, <2>3, HeldItem
    <3> QED BY <1>7, <1>8, <3>1 DEF NotAfter
  <2> QED BY <2>2, <2>3
<1>9. Apart(a, s, D)
  BY <1>3 DEF Spans
<1>10. Apart(d, s, D)
  <2>1. \A j, l \in Holding(d, s) :
          j # l /\ D[j] = D[l] => ChunkOf(d.sub[j], s) \cap ChunkOf(d.sub[l], s) = {}
    BY <1>2, <1>9 DEF Apart, Holding
  <2>2. ASSUME NEW j \in Out(d, s), NEW l \in Out(d, s), j # l
        PROVE  d.sub[j].seq # d.sub[l].seq /\ (d.sub[j].seq < d.sub[l].seq => NotAfter(D[j], D[l]))
    <3>1. CASE j # i /\ l # i
      <4>1. j \in Out(a, s) /\ d.sub[j] = a.sub[j] /\ l \in Out(a, s) /\ d.sub[l] = a.sub[l]
        BY <1>4, <3>1
      <4> QED BY <1>9, <2>2, <4>1 DEF Apart
    <3>2. CASE j = i
      <4>1. l \in Out(a, s) /\ d.sub[l] = a.sub[l]
        BY <1>4, <2>2, <3>2
      <4> QED BY <1>5, <1>6, <3>2, <4>1
    <3>3. CASE l = i
      <4>1. j \in Out(a, s) /\ d.sub[j] = a.sub[j]
        BY <1>4, <2>2, <3>3
      <4>2. i \in Holding(a, s)
        BY <1>2, <3>3 DEF Out
      <4> QED BY <1>5, <1>6, <1>8, <3>3, <4>1, <4>2
    <3> QED BY <3>1, <3>2, <3>3
  <2>3. \A j \in Out(d, s) : ~(d.sub[j].seq < d.sub[j].seq)
    <3>1. ASSUME NEW j \in Out(d, s) PROVE d.sub[j].seq \in Int
      <4>1. CASE j = i
        <5>1. a.outSeq \in Int
          BY SoundNumbers DEF Numbers
        <5> QED BY <1>6, <4>1, <5>1
      <4>2. CASE j # i
        BY <1>4, <1>5, <4>2
      <4> QED BY <4>1, <4>2
    <3> QED BY <3>1
  <2> QED BY <2>1, <2>2, <2>3 DEF Apart
<1>11. Spans(d, s, S, B, D)
  <2>1. ASSUME NEW j \in Holding(a, s) PROVE Held(d.sub[j], s, w, S, B, D[j])
    <3>1. j \in Subchannels /\ Held(a.sub[j], s, w, S, B, D[j])
      BY <1>3 DEF Spans, Holding
    <3> QED BY <1>1, <1>2, <3>1 DEF Held
  <2> QED BY <1>2, <1>3, <1>10, <2>1 DEF Spans
<1>12. k.chunk[s] = Part(d.sub[i], s, S, D[i]) /\ (d.sub[i].num[s] # 0 => NotAfter(L, D[i]))
  <2>1. k.chunk[s] = Chunk(a, a.sub[i], s)
    BY DEF Sends
  <2>2. CASE a.sub[i].num[s] = 0
    BY <1>1, <2>1, <2>2 DEF Chunk, Part
  <2>3. CASE a.sub[i].num[s] # 0
    <3>1. i \in Holding(a, s)
      BY <1>1, <2>3 DEF Holding
    <3>2. w # <<>> /\ D[i] = HeadSpan(w, B) /\ w \in Seq(ItemType)
      BY <1>7, <3>1, ListFits
    <3>3. w[1].payload = Piece(S, B[1], B[2]) /\ w[1] \in ItemType /\ (w[1].file <=> S[B[1] + 1] \in FileMsg)
      <4> HIDE DEF w
      <4> QED BY <1>3, <3>2, HeadCuts, ListHead
    <3>4. w[1].file = (S[B[1] + 1] \in FileMsg)
      <4>1. w[1].file \in BOOLEAN
        BY <3>3 DEF ItemType
      <4> QED BY <3>3, <4>1
    <3>5. D[i].lo = B[1] /\ D[i].hi = B[2] /\ D[i].total = w[1].total
      BY <3>2 DEF HeadSpan
    <3>6. k.chunk[s] = [start |-> a.sub[i].start[s], num |-> a.sub[i].num[s], total |-> w[1].total,
                        file |-> w[1].file, payload |-> w[1].payload]
      BY <2>1, <2>3 DEF Chunk
    <3>7. k.chunk[s] = Part(d.sub[i], s, S, D[i])
      BY <1>1, <2>3, <3>3, <3>4, <3>5, <3>6 DEF Part
    <3>8. NotAfter(L, D[i])
      <4>1. Level(w, S, B, L, F)
        BY DEF Placing
      <4>2. L.hi <= B[1] \/ L = HeadSpan(w, B)
        BY <4>1 DEF Level
      <4> QED BY <3>2, <3>5, <4>2 DEF NotAfter
    <3> QED BY <3>7, <3>8
  <2> QED BY <2>2, <2>3
<1>13. Ahead(d, s, S, D, L, Accepts(p, b, N \cup {k}))
  <2> SUFFICES ASSUME NEW l \in Accepts(p, b, N \cup {k}), l.subch # -1
               PROVE  /\ l.chunk[s] = Part(d.sub[l.subch], s, S, D[l.subch])
                      /\ d.sub[l.subch].num[s] # 0 => NotAfter(L, D[l.subch])
    BY DEF Ahead
  <2>1. CASE l = k
    <3>1. l.subch = i
      BY <2>1 DEF Sends
    <3> QED BY <1>12, <2>1, <3>1
  <2>2. CASE l # k
    <3>1. l \in Accepts(p, b, N)
      BY <2>2 DEF Accepts
    <3>2. l.subch \in Subchannels
      BY <3>1, LiveChunk
    <3>3. /\ l.chunk[s] = Part(a.sub[l.subch], s, S, D[l.subch])
          /\ a.sub[l.subch].num[s] # 0 => NotAfter(L, D[l.subch])
      BY <3>1 DEF Placing, Ahead
    <3> QED BY <1>1, <3>2, <3>3 DEF Part
  <2> QED BY <2>1, <2>2
<1>14. Taken(d, b, s, B, D, L) = Taken(a, b, s, B, D, L)
  <2>1. \A j : SameBit(d, b, j) <=> SameBit(a, b, j)
    BY DEF SameBit
  <2>2. Behind(d, b, s, D, L) = Behind(a, b, s, D, L) /\ Behind(a, b, s, D, L) \subseteq Subchannels
    BY <1>2, <2>1 DEF Behind, Holding
  <2> QED BY <1>2, <2>2 DEF Taken, Missing
<1> QED BY <1>11, <1>13, <1>14 DEF Placing

\* SendDatagram's last part.
LEMMA SendTraced ==
  ASSUME NEW p, NEW q, NEW a, NEW b, NEW N \in SUBSET DatagramType,
         Sound(a), Sound(b), Protocol(p, q, a, b, N), NEW s \in Stream, NEW S, NEW R,
         Traced(p, a, b, N, s, S, R)
  PROVE  Traced(p, AfterSend(a), b, N \cup {Datagram(p, a)}, s, S, R)
<1> DEFINE d == AfterSend(a)
           i == MinOf(ToSend(a))
           k == Datagram(p, a)
           M == N \cup {k}
<1>1. PICK B, D, L, F : Placing(p, a, b, N, s, Buffer(a, s), S, R, B, D, L, F)
  BY DEF Traced
<1>2. S \in Seq(Msg)
  BY <1>1 DEF Placing, Fits
<1>3. /\ d.stream = a.stream /\ d.waiting = a.waiting /\ d.outRel = a.outRel
      /\ ToSend(a) = {} => k.subch = -1 /\ d.sub = a.sub
      /\ ToSend(a) # {} => Sends(a, d, k, i)
  BY SentDatagram
<1> HIDE DEF d, i, k
<1>4. Buffer(d, s) = Buffer(a, s)
  BY <1>3 DEF Buffer
<1>5. CASE ToSend(a) # {}
  <2>1. Placing(p, d, b, M, s, Buffer(a, s), S, R, B, D, L, F)
    BY <1>1, <1>2, <1>3, <1>5, SendPlacing
  <2> QED BY <1>4, <2>1 DEF Traced, d, k
<1>6. CASE ToSend(a) = {}
  <2>1. Placing(p, d, b, N, s, Buffer(a, s), S, R, B, D, L, F)
    <3>1. d.waiting[s] = a.waiting[s] /\ d.sub = a.sub /\ d.outRel = a.outRel
      BY <1>3, <1>6
    <3> QED BY <1>1, <3>1, PlacingRests
  <2>2. \A l \in Accepts(p, b, M) : l.subch # -1 => l \in Accepts(p, b, N)
    BY <1>3, <1>6 DEF Accepts
  <2>3. Placing(p, d, b, M, s, Buffer(a, s), S, R, B, D, L, F)
    <3>1. Ahead(d, s, S, D, L, Accepts(p, b, M))
      BY <2>1, <2>2 DEF Placing, Ahead
    <3> QED BY <2>1, <3>1 DEF Placing
  <2> QED BY <1>4, <2>3 DEF Traced, d, k
<1> QED BY <1>5, <1>6

\* The subchannels after a header: some are free, the others carry what they
\* carried.
LEMMA AnsweredFewer ==
  ASSUME NEW p, NEW q, NEW a, NEW b, NEW f, NEW N \in SUBSET DatagramType,
         Sound(a), Sound(b), Protocol(p, q, a, b, N), NEW k \in Accepts(q, a, N),
         f.sub = AnsweredSub(a, k),
         f.outRel = (a.outRel \ DirtyLost(a, k)) \cup (DirtyLost(a, k) \ a.outRel)
  PROVE  /\ Fewer(a, f, b)
         /\ \A i \in Subchannels : f.sub[i].state # "FREE" =>
              (f.sub[i].state = "DIRTY" <=> a.sub[i].state = "DIRTY")
         /\ \A l \in Accepts(p, b, N) : l.subch # -1 => /\ l.subch \in Subchannels
                                                        /\ f.sub[l.subch].state # "FREE"
<1>1. Numbers(a) /\ Numbers(b) /\ Stamps(N) /\ a.sub \in [Subchannels -> SubchannelType]
  BY SoundNumbers, TypedStamps, SenderParts
<1>2. Reached(a, k) = Subchannels
  BY <1>1, HeaderValid
<1>3. ASSUME NEW i \in Subchannels, f.sub[i].state # "FREE"
      PROVE  /\ a.sub[i].state # "FREE" /\ f.sub[i].num = a.sub[i].num /\ f.sub[i].start = a.sub[i].start
             /\ f.sub[i].state # "TOSEND" => a.sub[i].state # "TOSEND" /\ f.sub[i].seq = a.sub[i].seq
             /\ SameBit(f, b, i) <=> SameBit(a, b, i)
             /\ f.sub[i].state = "DIRTY" <=> a.sub[i].state = "DIRTY"
  <2>1. i \notin AckedSubs(a, k) /\ i \notin DirtyDone(a, k) \cup DirtyLost(a, k)
    <3>1. /\ i \in AckedSubs(a, k) => AnsweredSub(a, k)[i] = FreeSub
          /\ i \in DirtyDone(a, k) \cup DirtyLost(a, k) => AnsweredSub(a, k)[i] = FreeSub
      BY <1>1, AnsweredCases
    <3>2. FreeSub.state = "FREE"
      BY DEF FreeSub
    <3>3. AnsweredSub(a, k)[i].state # "FREE"
      BY <1>3
    <3> QED BY <3>1, <3>2, <3>3
  <2>2. SameBit(f, b, i) <=> SameBit(a, b, i)
    <3> DEFINE Lost == DirtyLost(a, k)
    <3>1. i \notin Lost
      BY <2>1
    <3>2. f.outRel = (a.outRel \ Lost) \cup (Lost \ a.outRel)
      OBVIOUS
    <3> HIDE DEF Lost
    <3>3. i \in f.outRel <=> i \in a.outRel
      BY <3>1, <3>2
    <3> QED BY <3>3 DEF SameBit
  <2>3. a.sub[i] \in SubchannelType
    BY <1>1
  <2>4. CASE i \in MissedSubs(a, k) /\ a.sub[i].state = "WAITING"
    <3>1. f.sub[i] = [a.sub[i] EXCEPT !.state = "TOSEND"]
      BY <1>1, <2>4, AnsweredCases
    <3> QED BY <2>2, <2>3, <2>4, <3>1 DEF SubchannelType
  <2>5. CASE ~(i \in MissedSubs(a, k) /\ a.sub[i].state = "WAITING")
    <3>1. f.sub[i] = a.sub[i]
      BY <1>1, <2>1, <2>5, NotAnswered
    <3> QED BY <1>3, <2>2, <3>1
  <2> QED BY <2>4, <2>5
<1>4. ASSUME NEW l \in Accepts(p, b, N), l.subch # -1
      PROVE  l.subch \in Subchannels /\ f.sub[l.subch].state # "FREE"
  <2> DEFINE i == l.subch
  <2>1. /\ i \in Subchannels /\ a.sub[i].state \in {"WAITING", "DIRTY"}
        /\ a.sub[i].seq = l.seq /\ ~SameBit(a, b, i)
    BY <1>4, LiveChunk
  <2> HIDE DEF i
  <2>2. ~Matches(a, k, i)
    BY <2>1 DEF Protocol, Links, Link, Underway
  <2>3. i \notin MissedSubs(a, k)
    <3>1. l.seq > b.inSeq /\ l.seq \in Nat /\ b.inSeq \in Nat /\ k.ack \in Nat
      BY <1>1 DEF Accepts, Stamps, Numbers
    <3>2. k.ack <= b.inSeq
      BY DEF Protocol, Order, Accepts
    <3> QED BY <2>1, <3>1, <3>2 DEF MissedSubs
  <2>4. i \notin AckedSubs(a, k) /\ i \notin DirtyDone(a, k) \cup DirtyLost(a, k)
    BY <2>2, <2>3 DEF AckedSubs, DirtyDone, DirtyLost
  <2>5. f.sub[i] = a.sub[i]
    BY <1>1, <2>1, <2>3, <2>4, NotAnswered
  <2> QED BY <2>1, <2>5 DEF i
<1> QED BY <1>3, <1>4 DEF Fewer

\* The list after a header: the counters of the head move.
LEMMA AckedItems ==
  ASSUME NEW a, Sound(a), NEW k, NEW s \in Stream, a.waiting[s] # <<>>
  PROVE  LET w == a.waiting[s]
             v == AckedList(a, k, s)
         IN  /\ v # <<>> /\ Len(v) = Len(w)
             /\ \A n \in 1 .. Len(w) : v[n].payload = w[n].payload /\ v[n].file = w[n].file
                                         /\ v[n].total = w[n].total
             /\ v[1].acked + v[1].pending = w[1].acked + w[1].pending
<1> DEFINE list == a.waiting[s]
           h == list[1]
           v == AckedList(a, k, s)
           c == AckedFragments(a, k, s)
<1>1. list \in Seq(ItemType) /\ 1 \in DOMAIN list /\ h \in ItemType
  BY ListFits, ListHead
<1>2. v[1].payload = h.payload /\ v[1].file = h.file
  <2> HIDE DEF c
  <2>1. v = [list EXCEPT ![1].acked = @ + c, ![1].pending = @ - c]
    BY DEF AckedList, c
  <2>2. v[1] = [h EXCEPT !.acked = @ + c, !.pending = @ - c]
    BY <1>1, <2>1
  <2> HIDE DEF v, h
  <2> QED BY <1>1, <2>2 DEF ItemType
<1>3. /\ c \in Nat /\ v[1].acked = h.acked + c /\ v[1].pending = h.pending - c
      /\ v[1].total = h.total /\ v # <<>> /\ v \in Seq(ItemType)
      /\ DOMAIN v = DOMAIN list /\ \A n \in DOMAIN list \ {1} : v[n] = list[n]
  BY AckedListTyped
<1>4. h.acked \in Nat /\ h.pending \in Nat
  BY <1>1 DEF ItemType
<1> HIDE DEF v, h, c, list
<1>5. v[1].acked + v[1].pending = (h.acked + c) + (h.pending - c)
  BY <1>3, Zenon
<1>6. (h.acked + c) + (h.pending - c) = h.acked + h.pending
  BY <1>3, <1>4
<1>7. v[1].acked + v[1].pending = h.acked + h.pending
  BY <1>5, <1>6, Zenon
<1>8. Len(v) = Len(list) /\ DOMAIN list = 1 .. Len(list)
  BY <1>1, <1>3, LenProperties
<1>9. ASSUME NEW n \in 1 .. Len(list)
      PROVE  v[n].payload = list[n].payload /\ v[n].file = list[n].file /\ v[n].total = list[n].total
  <2>1. CASE n = 1
    BY <1>2, <1>3, <2>1 DEF h
  <2>2. CASE n # 1
    BY <1>3, <1>8, <2>2
  <2> QED BY <2>1, <2>2
<1> QED BY <1>3, <1>7, <1>8, <1>9 DEF v, h, list

\* ProcessPacketHeader, of a header that is accepted.
LEMMA HeaderFields ==
  ASSUME NEW p, NEW q, NEW a, NEW b, NEW N \in SUBSET DatagramType,
         Sound(a), Sound(b), Protocol(p, q, a, b, N), NEW k \in Accepts(q, a, N)
  PROVE  LET c == AckSubChannels(a, k)
             f == ProcessPacketHeader(a, k)
         IN  /\ Invalid(a, k) = {} /\ Sound(c) /\ c.sub = f.sub
             /\ f.sub = AnsweredSub(a, k)
             /\ f.outRel = (a.outRel \ DirtyLost(a, k)) \cup (DirtyLost(a, k) \ a.outRel)
             /\ f.stream = a.stream /\ f.recv = a.recv /\ f.inRel = a.inRel /\ f.outSeq = a.outSeq
             /\ f.inSeq = k.seq
             /\ \A s \in Stream : /\ c.waiting[s] = AckedList(a, k, s)
                                  /\ f.waiting[s] = CheckWaitingList(c.waiting[s], k.ack)
<1> DEFINE c == AckSubChannels(a, k)
           e == [c EXCEPT !.drop = k.seq - (a.inSeq + k.choked + 1)]
           f == ProcessPacketHeader(a, k)
<1>1. /\ Sound(c) /\ c.sub = AnsweredSub(a, k)
      /\ c.outRel = (a.outRel \ DirtyLost(a, k)) \cup (DirtyLost(a, k) \ a.outRel)
  BY AckSound
<1>2. /\ c.recv = a.recv /\ c.stream = a.stream /\ c.inRel = a.inRel /\ c.outSeq = a.outSeq
      /\ c.waiting = [s \in Stream |-> AckedList(a, k, s)]
  BY SenderParts DEF AckSubChannels, ChannelRecord
<1>3. Invalid(a, k) = {}
  BY SoundNumbers, TypedStamps, HeaderValid
<1>4. f = [e EXCEPT !.inSeq = k.seq, !.outSeqAck = k.ack,
                    !.waiting = [s \in Stream |-> CheckWaitingList(@[s], k.ack)]]
  BY <1>3 DEF ProcessPacketHeader
<1> HIDE DEF c, f
<1>5. c \in ChannelRecord
  BY <1>1, SenderParts
<1>6. /\ f.sub = c.sub /\ f.outRel = c.outRel /\ f.stream = c.stream /\ f.recv = c.recv
      /\ f.inRel = c.inRel /\ f.outSeq = c.outSeq /\ f.inSeq = k.seq
      /\ f.waiting = [s \in Stream |-> CheckWaitingList(c.waiting[s], k.ack)]
  BY <1>4, <1>5 DEF ChannelRecord
<1> QED BY <1>1, <1>2, <1>3, <1>6 DEF c, f

\* The header of a packet, read by the sender of this direction, keeps the places.
LEMMA HeaderTraced ==
  ASSUME NEW p, NEW q, NEW a, NEW b, NEW N \in SUBSET DatagramType,
         Sound(a), Sound(b), Protocol(p, q, a, b, N), NEW s \in Stream, NEW S, NEW R,
         Traced(p, a, b, N, s, S, R), NEW k \in Accepts(q, a, N)
  PROVE  Traced(p, ProcessPacketHeader(a, k), b, N, s, S, R)
<1> DEFINE c == AckSubChannels(a, k)
           f == ProcessPacketHeader(a, k)
           w == a.waiting[s]
           v == AckedList(a, k, s)
           x == CheckWaitingList(v, k.ack)
<1>1. PICK B, D, L, F : Placing(p, a, b, N, s, Buffer(a, s), S, R, B, D, L, F)
  BY DEF Traced
<1>2. /\ Sound(c) /\ c.sub = f.sub /\ c.waiting[s] = v /\ f.waiting[s] = x
      /\ f.sub = AnsweredSub(a, k) /\ f.stream = a.stream
      /\ f.outRel = (a.outRel \ DirtyLost(a, k)) \cup (DirtyLost(a, k) \ a.outRel)
  BY HeaderFields
<1> HIDE DEF c, f
<1>3. /\ Fewer(a, f, b)
      /\ \A i \in Subchannels : f.sub[i].state # "FREE" =>
           (f.sub[i].state = "DIRTY" <=> a.sub[i].state = "DIRTY")
      /\ \A l \in Accepts(p, b, N) : l.subch # -1 => l.subch \in Subchannels /\ f.sub[l.subch].state # "FREE"
  BY <1>2, AnsweredFewer
<1>4. /\ S \in Seq(Msg) /\ B \in Cuts(w, S) /\ Lined(w, Buffer(a, s), S, B) /\ Fits(s, w, S)
      /\ Spans(a, s, S, B, D) /\ Level(w, S, B, L, F)
  BY <1>1 DEF Placing, Fits
<1>5. Buffer(f, s) = Buffer(a, s)
  BY <1>2 DEF Buffer
<1>6. \A i \in Holding(f, s) : i \in Holding(a, s) /\ (f.sub[i].state = "DIRTY" <=> a.sub[i].state = "DIRTY")
  BY <1>3 DEF Fewer, Holding
<1>7. w \in Seq(ItemType) /\ v \in Seq(ItemType) /\ Len(w) \in Nat /\ Len(v) \in Nat
  BY ListFits, AckedListTyped
<1> HIDE DEF w, v, x
<1>8. CASE w = <<>>
  <2>1. v = <<>> /\ x = <<>>
    BY <1>8 DEF w, v, x, AckedList, CheckWaitingList
  <2>2. Stays(p, a, b, N, f, N, s, Buffer(f, s), S, B)
    BY <1>2, <1>3, <1>4, <1>5, <1>8, <2>1 DEF Stays
  <2>3. L.hi <= B[1]
    BY <1>4, <1>8 DEF Level
  <2>4. \A i \in Holding(a, s) : a.sub[i].state = "DIRTY" /\ D[i].hi <= B[1]
    BY <1>4, <1>8, OnlyDirty DEF w
  <2>5. \A i \in Holding(f, s) : f.sub[i].state = "DIRTY" /\ D[i].hi <= B[1]
    BY <1>6, <2>4
  <2>6. Len(f.waiting[s]) \in Nat /\ f.waiting[s] = <<>>
    BY <1>2, <1>7, <1>8, <2>1
  <2>7. Placing(p, f, b, N, s, Buffer(f, s), S, R, B, D, L, F)
    BY <1>1, <1>4, <2>2, <2>3, <2>5, <2>6, HeadLeaves
  <2> QED BY <2>7 DEF Traced, f
<1>9. CASE w # <<>>
  <2>1. /\ v # <<>> /\ Len(v) = Len(w)
        /\ \A n \in 1 .. Len(w) : v[n].payload = w[n].payload /\ v[n].file = w[n].file
                                    /\ v[n].total = w[n].total
        /\ v[1].acked + v[1].pending = w[1].acked + w[1].pending
    BY <1>9, AckedItems DEF w, v
  <2>2. 1 \in 1 .. Len(w) /\ w[1] \in ItemType /\ v[1] \in ItemType
    BY <1>7, <1>9, <2>1, ListHead
  <2>3. B \in Cuts(v, S) /\ Lined(v, Buffer(a, s), S, B)
    BY <1>4, <2>1, SameLined
  <2>4. Fits(s, v, S)
    BY <1>4, <2>1 DEF Fits
  <2>5. CASE x = v
    <3>1. Stays(p, a, b, N, f, N, s, Buffer(f, s), S, B)
      BY <1>2, <1>3, <1>5, <2>3, <2>4, <2>5 DEF Stays
    <3>2. /\ a.waiting[s] # <<>> /\ f.waiting[s] # <<>>
          /\ f.waiting[s][1].total = a.waiting[s][1].total
          /\ f.waiting[s][1].acked + f.waiting[s][1].pending = a.waiting[s][1].acked + a.waiting[s][1].pending
      BY <1>2, <1>9, <2>1, <2>2, <2>5 DEF w
    <3>3. Placing(p, f, b, N, s, Buffer(f, s), S, R, B, D, L, F)
      BY <1>1, <1>4, <1>6, <3>1, <3>2, HeadStays
    <3> QED BY <3>3 DEF Traced, f
  <2>6. CASE x # v
    <3>1. x = Tail(v) /\ v[1].acked = v[1].total
      BY <2>6 DEF x, CheckWaitingList
    <3>2. v[1].acked + v[1].pending <= v[1].total
      BY <1>2, <2>1 DEF Sound, Accounting
    <3>3. v[1].pending = 0
      BY <2>2, <3>1, <3>2 DEF ItemType
    <3>4. PICK C \in Cuts(x, S) : Lined(x, Buffer(a, s), S, C) /\ C[1] = B[2] /\ B[1] < B[2]
      BY <1>4, <1>7, <2>1, <2>3, <3>1, RemoveLined
    <3>5. x \in Seq(ItemType) /\ Len(x) = Len(v) - 1 /\ \A n \in 1 .. Len(x) : n + 1 \in 1 .. Len(v) /\ x[n] = v[n + 1]
      <4>1. Tail(v) \in Seq(ItemType) /\ Len(Tail(v)) = Len(v) - 1 /\ \A n \in 1 .. Len(Tail(v)) : Tail(v)[n] = v[n + 1]
        BY <1>7, <2>1, HeadTailProperties
      <4> QED BY <1>7, <3>1, <4>1
    <3>6. Fits(s, x, S)
      BY <2>4, <3>5 DEF Fits
    <3>7. Stays(p, a, b, N, f, N, s, Buffer(f, s), S, C)
      BY <1>2, <1>3, <1>5, <3>4, <3>6 DEF Stays
    <3>8. B[1] \in Nat /\ B[2] \in Nat
      BY <1>4, <1>7, <1>9, HeadCuts
    <3>9. L.hi <= C[1]
      <4>1. L.hi <= B[1] \/ L = HeadSpan(w, B)
        BY <1>4 DEF Level
      <4>2. L.hi \in Nat
        BY <1>4, SpanTyped DEF Level
      <4>3. L = HeadSpan(w, B) => L.hi = B[2]
        BY DEF HeadSpan
      <4> QED BY <3>4, <3>8, <4>1, <4>2, <4>3
    <3>10. ASSUME NEW i \in Holding(f, s) PROVE f.sub[i].state = "DIRTY" /\ D[i].hi <= C[1]
      <4>1. i \in Holding(c, s)
        BY <1>2 DEF Holding
      <4>2. Carrying(c, s) = {}
        BY <1>2, <3>3, NoneOut
      <4>3. f.sub[i].state = "DIRTY"
        BY <1>2, <4>1, <4>2, HoldingCarries
      <4>4. D[i] \in Span /\ D[i].hi <= B[1]
        BY <1>4, <1>6, <4>3, HeldItem
      <4>5. D[i].hi \in Nat
        BY <4>4, SpanTyped
      <4> QED BY <3>4, <3>8, <4>3, <4>4, <4>5
    <3>11. Len(f.waiting[s]) \in Nat /\ (f.waiting[s] # <<>> => Len(f.waiting[s]) # 0)
      BY <1>2, <3>5, LenProperties, EmptySeq
    <3>12. Placing(p, f, b, N, s, Buffer(f, s), S, R, C, D, L, F)
      BY <1>1, <1>4, <3>7, <3>9, <3>10, <3>11, HeadLeaves
    <3> QED BY <3>12 DEF Traced, f
  <2> QED BY <2>5, <2>6
<1> QED BY <1>8, <1>9

-----------------------------------------------------------------------------
(* Clear, as a step of the sender.                                         *)

\* The subchannels of d are those of a after a Clear.
Cleared(a, d) ==
  d.sub = ClearedSub(a) /\ d.outRel = (a.outRel \ ToSend(a)) \cup (ToSend(a) \ a.outRel)

\* The subchannels that Clear leaves in use: those whose data was sent, which
\* are dirty now.
LEMMA ClearedFewer ==
  ASSUME NEW p, NEW q, NEW a, NEW b, NEW d, NEW N \in SUBSET DatagramType,
         Sound(a), Sound(b), Protocol(p, q, a, b, N), Cleared(a, d)
  PROVE  /\ Fewer(a, d, b)
         /\ \A i \in Subchannels : d.sub[i].state # "FREE" => d.sub[i].state = "DIRTY"
         /\ \A k \in Accepts(p, b, N) : k.subch # -1 => /\ k.subch \in Subchannels
                                                        /\ d.sub[k.subch].state # "FREE"
<1>1. a.sub \in [Subchannels -> SubchannelType] /\ a \in ChannelType
  BY SenderParts
<1>2. ASSUME NEW i \in Subchannels
      PROVE  /\ a.sub[i].state = "TOSEND" => d.sub[i].state = "FREE"
             /\ a.sub[i].state = "FREE" => d.sub[i].state = "FREE"
             /\ a.sub[i].state \in {"WAITING", "DIRTY"} =>
                  /\ d.sub[i].state = "DIRTY" /\ d.sub[i].num = a.sub[i].num
                  /\ d.sub[i].start = a.sub[i].start /\ d.sub[i].seq = a.sub[i].seq
             /\ a.sub[i].state # "TOSEND" => (SameBit(d, b, i) <=> SameBit(a, b, i))
             /\ a.sub[i].state \in {"FREE", "TOSEND", "WAITING", "DIRTY"}
  <2>1. a.sub[i] \in SubchannelType
    BY <1>1
  <2>2. d.sub[i] = CASE a.sub[i].state = "TOSEND"  -> FreeSub
                     [] a.sub[i].state = "WAITING" -> [a.sub[i] EXCEPT !.state = "DIRTY"]
                     [] OTHER                      -> a.sub[i]
    BY DEF ClearedSub, Cleared
  <2>3. a.sub[i].state # "TOSEND" => (SameBit(d, b, i) <=> SameBit(a, b, i))
    <3> SUFFICES ASSUME a.sub[i].state # "TOSEND" PROVE i \in d.outRel <=> i \in a.outRel
      BY DEF SameBit
    <3>1. i \notin ToSend(a)
      BY DEF ToSend
    <3> QED BY <3>1 DEF Cleared
  <2>4. FreeSub.state = "FREE"
    BY DEF FreeSub
  <2>5. CASE a.sub[i].state = "TOSEND"
    BY <2>2, <2>4, <2>5
  <2>6. CASE a.sub[i].state = "WAITING"
    <3>1. d.sub[i] = [a.sub[i] EXCEPT !.state = "DIRTY"]
      BY <2>2, <2>6
    <3> QED BY <2>1, <2>3, <2>6, <3>1 DEF SubchannelType
  <2>7. CASE a.sub[i].state \in {"FREE", "DIRTY"}
    <3>1. d.sub[i] = a.sub[i]
      BY <2>2, <2>7
    <3> QED BY <2>3, <2>7, <3>1
  <2>8. a.sub[i].state \in {"FREE", "TOSEND", "WAITING", "DIRTY"}
    BY <2>1 DEF SubchannelType
  <2> QED BY <2>5, <2>6, <2>7, <2>8
<1>3. Fewer(a, d, b)
  BY <1>2 DEF Fewer
<1>4. \A k \in Accepts(p, b, N) : k.subch # -1 => k.subch \in Subchannels /\ d.sub[k.subch].state # "FREE"
  BY <1>2, LiveChunk
<1> QED BY <1>2, <1>3, <1>4

\* Everything that was accepted is behind the list now.
LEMMA ClearTraced ==
  ASSUME NEW p, NEW q, NEW a, NEW b, NEW N \in SUBSET DatagramType,
         Sound(a), Sound(b), Protocol(p, q, a, b, N), NEW s \in Stream, NEW S, NEW R,
         Traced(p, a, b, N, s, S, R)
  PROVE  Traced(p, Clear(a), b, N, s, S, R)
<1> DEFINE d == Clear(a)
           C == [n \in {1} |-> Len(S)]
<1>1. PICK B, D, L, F : Placing(p, a, b, N, s, Buffer(a, s), S, R, B, D, L, F)
  BY DEF Traced
<1>2. S \in Seq(Msg) /\ Fits(s, a.waiting[s], S) /\ Len(S) \in Nat
  <2>1. S \in Seq(Msg) /\ Fits(s, a.waiting[s], S)
    BY <1>1 DEF Placing, Fits
  <2> QED BY <2>1, LenProperties
<1>3. Cleared(a, d)
  BY ClearSound DEF Cleared
<1>4. d.waiting[s] = <<>> /\ Buffer(d, s) = <<>>
  <2>1. a \in ChannelRecord
    BY SenderParts
  <2>2. d.waiting[s] = <<>> /\ d.stream = <<>>
    BY <2>1 DEF Clear, ChannelRecord
  <2> QED BY <2>2 DEF Buffer
<1> HIDE DEF d
<1>5. Len(<<>>) = 0 /\ 1 .. Len(<<>>) = {} /\ 1 .. Len(<<>>) + 1 = {1}
  OBVIOUS
<1>6. C \in Cuts(<<>>, S) /\ C[1] = Len(S)
  BY <1>2, <1>5 DEF Cuts
<1>7. Lined(<<>>, <<>>, S, C)
  <2>1. Piece(S, Len(S), Len(S)) = <<>>
    <3>1. Piece(S, Len(S), Len(S)) \in Seq(Msg) /\ Len(Piece(S, Len(S), Len(S))) = Len(S) - Len(S)
      BY <1>2, PieceToEnd
    <3> QED BY <1>2, <3>1, EmptySeq
  <2> HIDE DEF C
  <2>2. C[Len(<<>>) + 1] = Len(S)
    BY <1>5, <1>6
  <2> QED BY <1>5, <2>1, <2>2 DEF Lined
<1>8. Fits(s, <<>>, S)
  BY <1>2, <1>5 DEF Fits
<1> HIDE DEF C
<1>9. /\ Fewer(a, d, b)
      /\ \A i \in Subchannels : d.sub[i].state # "FREE" => d.sub[i].state = "DIRTY"
      /\ \A k \in Accepts(p, b, N) : k.subch # -1 => /\ k.subch \in Subchannels
                                                     /\ d.sub[k.subch].state # "FREE"
  BY <1>3, ClearedFewer
<1>10. Stays(p, a, b, N, d, N, s, <<>>, S, C)
  <2>1. C \in Cuts(d.waiting[s], S) /\ Lined(d.waiting[s], <<>>, S, C) /\ Fits(s, d.waiting[s], S)
    BY <1>4, <1>6, <1>7, <1>8
  <2> QED BY <1>9, <2>1 DEF Stays
<1>11. L.hi <= C[1]
  BY <1>1, <1>6 DEF Placing, Level
<1>12. \A i \in Holding(d, s) : d.sub[i].state = "DIRTY" /\ D[i].hi <= C[1]
  <2> SUFFICES ASSUME NEW i \in Holding(d, s) PROVE d.sub[i].state = "DIRTY" /\ D[i].hi <= C[1]
    OBVIOUS
  <2>1. i \in Subchannels /\ d.sub[i].state # "FREE" /\ d.sub[i].num[s] # 0
    BY DEF Holding
  <2>2. i \in Holding(a, s)
    BY <1>9, <2>1 DEF Fewer, Holding
  <2>3. D[i].hi <= Len(S)
    BY <1>1, <2>2, HeldItem DEF Placing
  <2> QED BY <1>6, <1>9, <2>1, <2>3
<1>13. Len(d.waiting[s]) \in Nat /\ (d.waiting[s] # <<>> => Len(d.waiting[s]) # 0)
  BY <1>4
<1>14. Placing(p, d, b, N, s, <<>>, S, R, C, D, L, F)
  BY <1>1, <1>2, <1>10, <1>11, <1>12, <1>13, HeadLeaves
<1> QED BY <1>4, <1>14 DEF Traced, d

\* ClearAndSignon.
LEMMA ClearSignonTraced ==
  ASSUME NEW p \in Peer, NEW q, NEW a, NEW b, NEW N \in SUBSET DatagramType,
         Sound(a), Sound(b), Protocol(p, q, a, b, N), NEW s \in Stream, NEW S, NEW R,
         Traced(p, a, b, N, s, S, R)
  PROVE  Traced(p, ClearAndSignon(p, a), b, N, s,
                IF s = 0 THEN Append(S, Signon[p]) ELSE S, R)
<1> DEFINE d == Clear(a)
           e == ClearAndSignon(p, a)
<1>1. Sound(d) /\ Protocol(p, q, d, b, N) /\ Traced(p, d, b, N, s, S, R)
  BY ClearSound, ClearProtocol, ClearTraced
<1>2. e = WriteToBuffer(d, Signon[p]) /\ Signon[p] \in NetMsg
  BY MessageAssumption DEF ClearAndSignon
<1>3. d \in ChannelRecord
  BY <1>1, SenderParts
<1>4. /\ e.sub = d.sub /\ e.outRel = d.outRel /\ e.waiting = d.waiting
  BY <1>2, <1>3 DEF WriteToBuffer, ChannelRecord
<1> HIDE DEF d, e
<1>5. CASE s = 0
  BY <1>1, <1>2, <1>5, WriteTraced DEF e
<1>6. CASE s # 0
  <2>1. Buffer(e, s) = Buffer(d, s)
    BY <1>6 DEF Buffer
  <2>2. Traced(p, e, b, N, s, S, R)
    BY <1>1, <1>4, <2>1, TracedRests
  <2> QED BY <1>6, <2>2 DEF e
<1> QED BY <1>5, <1>6

-----------------------------------------------------------------------------
(* The receiver reads a chunk.                                             *)

\* The fields of receive list l after chunk c has been read into r.
Extends(r, c, l) ==
  /\ l.open /\ c.start + c.num <= l.total
  /\ c.start = 0 => l.total = c.total /\ l.acked = c.num /\ l.file = c.file
  /\ c.start # 0 => r.open /\ l.total = r.total /\ l.acked = r.acked + c.num /\ l.file = r.file
  /\ \A m \in 1 .. l.total :
       /\ m - 1 \in c.start .. c.start + c.num - 1 => l.buf[m] = <<c.payload, m>>
       /\ m - 1 \notin c.start .. c.start + c.num - 1 /\ c.start # 0 => l.buf[m] = r.buf[m]

\* What reading one chunk leaves in the buffer.
LEMMA ReadFields ==
  ASSUME NEW r \in ListType, NEW c, c.num \in Nat \ {0}, c.start \in Nat, Readable(r, c)
  PROVE  Extends(r, c, ReadSubChannelData(r, c))
<1> DEFINE o == OpenList(r, c)
           l == ReadSubChannelData(r, c)
           buf == [n \in 1 .. o.total |->
                     IF n - 1 \in c.start .. c.start + c.num - 1 THEN <<c.payload, n>> ELSE o.buf[n]]
<1>1. o.open /\ c.start + c.num <= o.total
  BY DEF Readable
<1>2. l = [o EXCEPT !.acked = @ + c.num, !.buf = buf]
  BY DEF ReadSubChannelData
<1>3. CASE c.start = 0
  <2>1. o = [open |-> TRUE, total |-> c.total, acked |-> 0, file |-> c.file,
             buf |-> [n \in 1 .. c.total |-> <<>>]]
    BY <1>3 DEF OpenList
  <2> HIDE DEF o, l, buf
  <2>2. /\ l.open = o.open /\ l.total = o.total /\ l.file = o.file /\ l.acked = o.acked + c.num /\ l.buf = buf
        /\ o.total = c.total /\ o.acked = 0 /\ o.file = c.file
    BY <1>2, <2>1
  <2>3. ASSUME NEW m \in 1 .. l.total
        PROVE  m - 1 \in c.start .. c.start + c.num - 1 => l.buf[m] = <<c.payload, m>>
    BY <2>2 DEF buf
  <2> QED BY <1>1, <1>3, <2>2, <2>3 DEF Extends, l
<1>4. CASE c.start # 0
  <2>1. o = r
    BY <1>4 DEF OpenList
  <2> HIDE DEF o, l, buf
  <2>2. l.open = o.open /\ l.total = o.total /\ l.file = o.file /\ l.acked = o.acked + c.num /\ l.buf = buf
    BY <1>2, <2>1 DEF ListType
  <2>3. ASSUME NEW m \in 1 .. l.total
        PROVE  /\ m - 1 \in c.start .. c.start + c.num - 1 => l.buf[m] = <<c.payload, m>>
               /\ m - 1 \notin c.start .. c.start + c.num - 1 => l.buf[m] = r.buf[m]
    BY <2>1, <2>2 DEF buf
  <2> QED BY <1>1, <1>4, <2>1, <2>2, <2>3 DEF Extends, l
<1> QED BY <1>3, <1>4

\* What a subchannel holds is a run of fragments of its item.
LEMMA HeldRun ==
  ASSUME NEW a, Sound(a), NEW s \in Stream, NEW S, NEW B, NEW D, Spans(a, s, S, B, D),
         NEW i \in Holding(a, s)
  PROVE  /\ a.sub[i].num[s] \in Nat \ {0} /\ a.sub[i].start[s] \in Nat
         /\ a.sub[i].start[s] \in ChunkOf(a.sub[i], s)
         /\ IsFiniteSet(ChunkOf(a.sub[i], s)) /\ Cardinality(ChunkOf(a.sub[i], s)) = a.sub[i].num[s]
         /\ ChunkOf(a.sub[i], s) \subseteq 0 .. D[i].total - 1
<1> DEFINE x == a.sub[i].start[s]
           n == a.sub[i].num[s]
<1>1. a.sub[i] \in SubchannelType /\ a.sub[i].num[s] # 0
  BY SenderParts DEF Holding
<1>2. x \in Int /\ n \in Nat \ {0}
  BY <1>1, FragmentAssumption DEF SubchannelType, FragmentCount
<1>3. ChunkOf(a.sub[i], s) = x .. x + n - 1
  BY DEF ChunkOf
<1>4. ChunkOf(a.sub[i], s) \subseteq 0 .. D[i].total - 1
  BY HeldItem
<1> HIDE DEF x, n
<1>5. x \in x .. x + n - 1
  BY <1>2
<1>6. x \in Nat
  BY <1>2, <1>3, <1>4, <1>5
<1>7. IsFiniteSet(x .. x + n - 1) /\ Cardinality(x .. x + n - 1) = n
  BY <1>2, RunSize
<1> QED BY <1>2, <1>3, <1>4, <1>5, <1>6, <1>7 DEF x, n

\* With the receiver's bit the chunk is among the fragments that were read.
LEMMA TakenMore ==
  ASSUME NEW a, Sound(a), NEW b, NEW e, NEW s \in Stream, NEW st, NEW S \in Seq(Msg), NEW B, NEW D,
         B \in Cuts(a.waiting[s], S), Lined(a.waiting[s], st, S, B), Spans(a, s, S, B, D),
         NEW i \in Holding(a, s), ~SameBit(a, b, i), e.inRel = FlipBit(b.inRel, i)
  PROVE  /\ Taken(a, e, s, B, D, D[i]) = Taken(a, b, s, B, D, D[i]) \cup ChunkOf(a.sub[i], s)
         /\ Taken(a, b, s, B, D, D[i]) \cap ChunkOf(a.sub[i], s) = {}
<1> DEFINE I == D[i]
           C == ChunkOf(a.sub[i], s)
           w == a.waiting[s]
           U == Untaken(w, B, I)
           V == UNION {ChunkOf(a.sub[j], s) : j \in Behind(a, b, s, D, I)}
           X == UNION {ChunkOf(a.sub[j], s) : j \in Behind(a, e, s, D, I)}
<1>1. \A j \in Subchannels : SameBit(a, e, j) <=> (IF j = i THEN ~SameBit(a, b, j) ELSE SameBit(a, b, j))
  BY DEF SameBit, FlipBit
<1>2. i \in Behind(a, b, s, D, I)
  BY DEF Behind
<1>3. Behind(a, e, s, D, I) = Behind(a, b, s, D, I) \ {i}
  BY <1>1 DEF Behind, Holding
<1>4. \A j \in Behind(a, e, s, D, I) : ChunkOf(a.sub[j], s) \cap C = {}
  BY <1>3 DEF Behind, Spans, Apart
<1>5. V = X \cup C /\ X \cap C = {}
  <2> HIDE DEF C
  <2>1. V = X \cup ChunkOf(a.sub[i], s)
    BY <1>2, <1>3
  <2>2. X \cap C = {}
    BY <1>4
  <2> QED BY <2>1, <2>2 DEF C
<1>6. U \cap C = {}
  <2> SUFFICES ASSUME w # <<>>, I = HeadSpan(w, B) PROVE U \cap C = {}
    BY DEF Untaken
  <2>1. w \in Seq(ItemType) /\ w[1] \in ItemType
    BY ListFits
  <2>2. B[1] \in Nat /\ B[2] \in Nat /\ B[1] < B[2]
    BY <2>1, HeadCuts
  <2>3. I.hi = B[2]
    BY DEF HeadSpan
  <2>4. a.sub[i].state # "DIRTY"
    BY <2>2, <2>3, HeldItem
  <2>5. C \subseteq InFlight(a, s)
    BY <2>4, HoldingCarries DEF InFlight
  <2>6. InFlight(a, s) \subseteq 0 .. a.waiting[s][1].acked + a.waiting[s][1].pending - 1
    BY DEF Sound, Accounting
  <2>7. U = w[1].acked + w[1].pending .. w[1].total - 1
    BY DEF Untaken
  <2>8. w[1].acked \in Nat /\ w[1].pending \in Nat /\ w[1].total \in Nat
    BY <2>1 DEF ItemType
  <2>9. \A y, z, t \in Nat : (y + z .. t - 1) \cap (0 .. y + z - 1) = {}
    OBVIOUS
  <2>10. U \cap (0 .. w[1].acked + w[1].pending - 1) = {}
    BY <2>7, <2>8, <2>9
  <2> HIDE DEF C, U
  <2> QED BY <2>5, <2>6, <2>10
<1>7. C \subseteq 0 .. I.total - 1
  BY HeldItem
<1>8. Taken(a, e, s, B, D, I) = (0 .. I.total - 1) \ (U \cup X)
  BY DEF Taken, Missing
<1>9. Taken(a, b, s, B, D, I) = (0 .. I.total - 1) \ (U \cup V)
  BY DEF Taken, Missing
<1> HIDE DEF I, C, U, V, X
<1>10. /\ Taken(a, e, s, B, D, I) = Taken(a, b, s, B, D, I) \cup C
       /\ Taken(a, b, s, B, D, I) \cap C = {}
  BY <1>5, <1>6, <1>7, <1>8, <1>9
<1> QED BY <1>10 DEF I, C

\* Chunk c has the fragments C of item I.
ItemChunk(c, S, I, C) ==
  /\ c.num \in Nat \ {0} /\ c.start \in Nat /\ C = c.start .. c.start + c.num - 1
  /\ IsFiniteSet(C) /\ Cardinality(C) = c.num
  /\ c.total = I.total /\ (c.file <=> S[I.lo + 1] \in FileMsg) /\ c.payload = Piece(S, I.lo, I.hi)

\* The first element of a piece.
LEMMA PieceFirst ==
  ASSUME NEW S \in Seq(Msg), NEW x \in Nat, NEW y \in Nat, x < y, y <= Len(S)
  PROVE  Piece(S, x, y)[1] = S[x + 1]
<1>1. Len(S) \in Nat /\ x <= y /\ 1 \in 1 .. y - x
  BY LenProperties
<1>2. \A i \in 1 .. y - x : Piece(S, x, y)[i] = S[x + i]
  BY <1>1, PieceElements
<1> QED BY <1>1, <1>2

\* The fragments of an item.
LEMMA Fragments ==
  ASSUME NEW t \in Nat
  PROVE  IsFiniteSet(0 .. t - 1) /\ Cardinality(0 .. t - 1) = t
<1>1. 0 \in Int /\ 0 + t - 1 = t - 1
  OBVIOUS
<1>2. IsFiniteSet(0 .. 0 + t - 1) /\ Cardinality(0 .. 0 + t - 1) = t
  BY <1>1, RunSize
<1> QED BY <1>1, <1>2

\* A buffer of an item that was handled cannot become complete with a chunk.
LEMMA ReadSpent ==
  ASSUME NEW r \in ListType, NEW S, NEW I \in Span, NEW c, NEW C, ItemChunk(c, S, I, C),
         NEW l, Extends(r, c, l), NEW T, T # {}, T \cap C = {}, T \cup C \subseteq 0 .. I.total - 1,
         r.open => Spent(r, I, T)
  PROVE  Spent(l, I, T \cup C) /\ ~Complete(l)
<1> DEFINE Q == T \cup C
           P == 0 .. I.total - 1
<1>1. I.total \in Nat /\ r.acked \in Nat /\ r.total \in Nat /\ c.num \in Nat /\ c.num > 0
  BY SpanTyped DEF ListType, ItemChunk
<1>2. IsFiniteSet(P) /\ Cardinality(P) = I.total
  BY <1>1, Fragments
<1>3. T \subseteq P /\ Q \subseteq P /\ C \subseteq P
  OBVIOUS
<1> HIDE DEF P
<1>4. IsFiniteSet(T) /\ IsFiniteSet(Q) /\ IsFiniteSet(C) /\ Cardinality(Q) <= I.total /\ Cardinality(Q) \in Nat
  BY <1>2, <1>3, FS_Subset, FS_CardinalityType
<1>5. ASSUME NEW K \in SUBSET Q, K # Q, l.total = I.total, l.acked = Cardinality(K)
      PROVE  Spent(l, I, Q) /\ ~Complete(l)
  <2> HIDE DEF Q
  <2>1. IsFiniteSet(K) /\ Cardinality(K) \in Nat /\ Cardinality(K) <= Cardinality(Q) /\ Cardinality(K) # Cardinality(Q)
    BY <1>4, <1>5, FS_Subset, FS_CardinalityType
  <2>2. l.acked # l.total
    BY <1>1, <1>4, <1>5, <2>1
  <2>3. \E Z \in SUBSET Q : Z # Q /\ l.total = I.total /\ l.acked = Cardinality(Z)
    <3>1. K \in SUBSET Q
      OBVIOUS
    <3> WITNESS K \in SUBSET Q
    <3> QED BY <1>5
  <2> QED BY <2>2, <2>3 DEF Spent, Complete
<1>6. CASE c.start = 0
  <2>1. l.total = I.total /\ l.acked = Cardinality(C)
    BY <1>6 DEF Extends, ItemChunk
  <2>2. C \in SUBSET Q /\ C # Q
    OBVIOUS
  <2> QED BY <1>5, <2>1, <2>2
<1>7. CASE c.start # 0
  <2>1. r.open /\ l.total = r.total /\ l.acked = r.acked + c.num
    BY <1>7 DEF Extends
  <2>2. CASE r.acked >= r.total
    <3>1. l.acked >= l.total /\ l.acked # l.total
      BY <1>1, <2>1, <2>2
    <3> QED BY <3>1 DEF Spent, Complete
  <2>3. CASE \E K \in SUBSET T : K # T /\ r.total = I.total /\ r.acked = Cardinality(K)
    <3>1. PICK K \in SUBSET T : K # T /\ r.total = I.total /\ r.acked = Cardinality(K)
      BY <2>3
    <3>2. K \cup C \in SUBSET Q /\ K \cup C # Q /\ K \cap C = {}
      BY <3>1
    <3>3. IsFiniteSet(K) /\ Cardinality(K) \in Nat
      BY <1>4, FS_Subset, FS_CardinalityType
    <3>4. Cardinality(K \cup C) = Cardinality(K) + Cardinality(C) - Cardinality(K \cap C)
      BY <1>4, <3>3, FS_Union
    <3>5. Cardinality(K \cap C) = 0
      BY <3>2, FS_EmptySet
    <3>6. Cardinality(K \cup C) = Cardinality(K) + c.num
      BY <1>1, <3>3, <3>4, <3>5 DEF ItemChunk
    <3>7. l.acked = Cardinality(K \cup C) /\ l.total = I.total
      BY <2>1, <3>1, <3>6
    <3> QED BY <1>5, <3>2, <3>7
  <2> QED BY <2>1, <2>2, <2>3 DEF Spent
<1> QED BY <1>6, <1>7 DEF Q

\* The buffer starts with the messages of some item.
LEMMA ReadOpened ==
  ASSUME NEW r \in ListType, NEW S \in Seq(Msg), NEW I \in Span, I.lo < I.hi, I.hi <= Len(S),
         NEW c, NEW C, ItemChunk(c, S, I, C), NEW l, Extends(r, c, l), Opened(r, S)
  PROVE  Opened(l, S)
<1>1. I.lo \in Nat /\ I.hi \in Nat /\ I.total \in Nat \ {0}
  BY SpanTyped
<1>2. CASE c.start = 0
  <2>1. /\ l.total = I.total /\ (l.file <=> S[I.lo + 1] \in FileMsg)
        /\ c.num \in Nat \ {0} /\ c.payload = Piece(S, I.lo, I.hi)
    BY <1>2 DEF Extends, ItemChunk
  <2>2. 1 \in 1 .. l.total /\ 1 - 1 \in c.start .. c.start + c.num - 1
    BY <1>1, <1>2, <2>1
  <2>3. l.buf[1] = <<Piece(S, I.lo, I.hi), 1>>
    BY <2>1, <2>2 DEF Extends
  <2> QED BY <1>1, <2>1, <2>3 DEF Opened
<1>3. CASE c.start # 0
  <2>1. r.open /\ l.total = r.total /\ l.file = r.file
    BY <1>3 DEF Extends
  <2>2. r.total > 0 /\ r.total \in Nat /\ c.start \in Nat
    BY <2>1 DEF ListType, ItemChunk
  <2>3. 1 \in 1 .. l.total /\ 1 - 1 \notin c.start .. c.start + c.num - 1
    BY <1>3, <2>1, <2>2 DEF ItemChunk
  <2>4. l.buf[1] = r.buf[1]
    BY <1>3, <2>3 DEF Extends
  <2> QED BY <2>1, <2>4 DEF Opened
<1> QED BY <1>2, <1>3

\* What it holds when it is complete: garbage, or the item.
LEMMA ReadContents ==
  ASSUME NEW r \in ListType, NEW S \in Seq(Msg), NEW I \in Span, I.lo < I.hi, I.hi <= Len(S),
         NEW c, NEW C, ItemChunk(c, S, I, C), NEW l, Extends(r, c, l), Opened(l, S)
  PROVE  \/ Contents(l) = <<Garbage>>
         \/ Contents(l) = Piece(S, I.lo, I.hi) /\ (l.file <=> S[I.lo + 1] \in FileMsg)
<1> SUFFICES ASSUME Contents(l) # <<Garbage>>
             PROVE  Contents(l) = Piece(S, I.lo, I.hi) /\ (l.file <=> S[I.lo + 1] \in FileMsg)
  OBVIOUS
<1> DEFINE P == l.buf[1][1]
           n == c.start + 1
<1>1. /\ c.start \in Nat /\ c.num \in Nat \ {0} /\ c.start + c.num <= l.total
      /\ c.payload = Piece(S, I.lo, I.hi)
  BY DEF ItemChunk, Extends
<1>2. l.total \in Nat
  <2>1. CASE c.start = 0
    BY <2>1, SpanTyped DEF Extends, ItemChunk
  <2>2. CASE c.start # 0
    BY <2>2 DEF Extends, ListType
  <2> QED BY <2>1, <2>2
<1>3. n \in 1 .. l.total /\ n - 1 \in c.start .. c.start + c.num - 1
  BY <1>1, <1>2
<1>4. l.buf[n] = <<Piece(S, I.lo, I.hi), n>>
  BY <1>1, <1>3 DEF Extends
<1>5. Contents(l) = P /\ l.buf[n] = <<P, n>>
  BY <1>3 DEF Contents
<1> HIDE DEF n
<1>6. P = Piece(S, I.lo, I.hi)
  BY <1>4, <1>5
<1>7. l.open
  BY DEF Extends
<1>8. PICK x, y \in Nat : /\ x < y /\ y <= Len(S) /\ l.buf[1] = <<Piece(S, x, y), 1>>
                          /\ l.file <=> S[x + 1] \in FileMsg
  BY <1>7 DEF Opened
<1>9. Piece(S, x, y) = Piece(S, I.lo, I.hi)
  BY <1>6, <1>8
<1>10. S[x + 1] = S[I.lo + 1]
  BY <1>8, <1>9, PieceFirst, SpanTyped
<1> QED BY <1>5, <1>6, <1>8, <1>10

\* One chunk of the item is read, that was not read before.
LEMMA ReadReading ==
  ASSUME NEW r \in ListType, NEW S \in Seq(Msg), NEW I \in Span, I.lo < I.hi, I.hi <= Len(S),
         NEW c, NEW C, ItemChunk(c, S, I, C), Readable(r, c), NEW T, T \cap C = {},
         T \cup C \subseteq 0 .. I.total - 1, NEW R, NEW F \in Nat,
         F > I.lo => F = I.hi /\ T # {} /\ (r.open => Spent(r, I, T)),
         Opened(r, S), Placed(S, R, F)
  PROVE  Reading(ReadSubChannelData(r, c), S, R, I, F, T \cup C)
<1> DEFINE l == ReadSubChannelData(r, c)
           Q == T \cup C
<1>1. Extends(r, c, l)
  BY ReadFields DEF ItemChunk
<1> HIDE DEF l
<1>2. I.lo \in Nat /\ I.hi \in Nat
  BY SpanTyped
<1>3. Opened(l, S)
  BY <1>1, ReadOpened
<1>4. C # {}
  <2>1. c.start \in Nat /\ c.num \in Nat \ {0} /\ C = c.start .. c.start + c.num - 1
    BY DEF ItemChunk
  <2>2. c.start \in C
    BY <2>1
  <2> QED BY <2>2
<1>5. CASE F > I.lo
  <2>1. Spent(l, I, Q) /\ ~Complete(l)
    BY <1>1, <1>5, ReadSpent
  <2> QED BY <1>3, <1>4, <1>5, <2>1 DEF Reading, Kept, l, Q
<1>6. CASE F <= I.lo
  <2>1. \/ Contents(l) = <<Garbage>>
        \/ Contents(l) = Piece(S, I.lo, I.hi) /\ (l.file <=> S[I.lo + 1] \in FileMsg)
    BY <1>1, <1>3, ReadContents
  <2>2. Kept(l, S, F, I, R)
    BY <1>2, <1>6, <2>1 DEF Kept
  <2>3. ~(F > I.lo)
    BY <1>2, <1>6
  <2> QED BY <1>3, <1>4, <1>6, <2>2, <2>3 DEF Reading, l, Q
<1> QED BY <1>2, <1>5, <1>6

\* The receiver e has read the chunks of datagram k.
HasRead(b, e, k, s) ==
  /\ e.recv[s] = ReadSubChannelData(b.recv[s], k.chunk[s])
  /\ e.inRel = FlipBit(b.inRel, k.subch) /\ e.inSeq = k.seq

\* The subchannel has nothing of stream s.
LEMMA ReadsNonePlacing ==
  ASSUME NEW p, NEW q, NEW a, NEW b, NEW e, NEW N \in SUBSET DatagramType,
         Sound(a), Sound(b), Protocol(p, q, a, b, N), NEW s \in Stream, NEW st, NEW S, NEW R,
         NEW B, NEW D, NEW L, NEW F, Placing(p, a, b, N, s, st, S, R, B, D, L, F),
         NEW k \in Accepts(p, b, N), k.subch # -1, HasRead(b, e, k, s), a.sub[k.subch].num[s] = 0,
         NEW M, M \subseteq N
  PROVE  Placing(p, a, e, M, s, st, S, R, B, D, L, F)
<1> DEFINE i == k.subch
<1>1. i \in Subchannels /\ k.seq \in Nat /\ k.seq > b.inSeq /\ b.inSeq \in Nat
  BY LiveChunk, SoundNumbers DEF Accepts, DatagramType, Numbers
<1>2. e.recv[s] = b.recv[s]
  <2>1. k.chunk[s] = NoChunk
    BY DEF Placing, Ahead, Part
  <2> QED BY <2>1 DEF HasRead, ReadSubChannelData, NoChunk
<1>3. i \notin Holding(a, s)
  BY DEF Holding
<1>4. \A j \in Subchannels : j # i => (SameBit(a, e, j) <=> SameBit(a, b, j))
  BY DEF SameBit, FlipBit, HasRead
<1>5. Behind(a, e, s, D, L) = Behind(a, b, s, D, L)
  BY <1>3, <1>4 DEF Behind, Holding
<1>6. Taken(a, e, s, B, D, L) = Taken(a, b, s, B, D, L)
  BY <1>5 DEF Taken, Missing
<1>7. Accepts(p, e, M) \subseteq Accepts(p, b, N)
  <2> SUFFICES ASSUME NEW l \in Accepts(p, e, M) PROVE l \in Accepts(p, b, N)
    OBVIOUS
  <2>1. l \in M /\ l \in N /\ l.from = p /\ l.seq > k.seq
    BY DEF Accepts, HasRead
  <2>2. l.seq \in Nat
    BY <2>1 DEF DatagramType
  <2> QED BY <1>1, <2>1, <2>2 DEF Accepts
<1> QED BY <1>2, <1>6, <1>7 DEF Placing, Ahead

\* It has fragments of an item, which is the last that was read from now on.
LEMMA ReadsRunPlacing ==
  ASSUME NEW p, NEW q, NEW a, NEW b, NEW e, NEW N \in SUBSET DatagramType,
         Sound(a), Sound(b), Protocol(p, q, a, b, N), NEW s \in Stream, NEW st, NEW S, NEW R,
         NEW B, NEW D, NEW L, NEW F, Placing(p, a, b, N, s, st, S, R, B, D, L, F),
         NEW k \in Accepts(p, b, N), k.subch # -1, HasRead(b, e, k, s), a.sub[k.subch].num[s] # 0,
         Readable(b.recv[s], k.chunk[s]), NEW M, M \subseteq N
  PROVE  Placing(p, a, e, M, s, st, S, R, B, D, D[k.subch], F)
<1> DEFINE i == k.subch
           I == D[i]
           c == k.chunk[s]
           C == ChunkOf(a.sub[i], s)
           r == b.recv[s]
           w == a.waiting[s]
           T == Taken(a, b, s, B, D, I)
<1>1. /\ i \in Subchannels /\ k.seq \in Nat /\ k.seq > b.inSeq /\ b.inSeq \in Nat
      /\ a.sub[i].state \in {"WAITING", "DIRTY"} /\ a.sub[i].seq = k.seq /\ ~SameBit(a, b, i)
  BY LiveChunk, SoundNumbers DEF Accepts, DatagramType, Numbers
<1>2. i \in Holding(a, s) /\ i \in Out(a, s)
  BY <1>1 DEF Holding, Out
<1>3. /\ B \in Cuts(w, S) /\ Lined(w, st, S, B) /\ Fits(s, w, S) /\ S \in Seq(Msg)
      /\ Spans(a, s, S, B, D) /\ Apart(a, s, D)
  BY DEF Placing, Spans, Fits
<1>4. /\ L \in Span /\ L.lo <= L.hi /\ L.hi <= Len(S) /\ F \in Nat /\ F <= L.hi /\ Len(S) \in Nat
  BY <1>3, LenProperties DEF Placing, Level
<1>5. /\ c = Part(a.sub[i], s, S, I) /\ NotAfter(L, I)
  BY DEF Placing, Ahead
<1>6. /\ I \in Span /\ I.lo < I.hi /\ I.hi <= Len(S) /\ C \subseteq 0 .. I.total - 1
      /\ I.lo \in Nat /\ I.hi \in Nat
      /\ a.sub[i].state = "DIRTY" => I.hi <= B[1]
      /\ a.sub[i].state # "DIRTY" => w # <<>> /\ I = HeadSpan(w, B)
  BY <1>2, <1>3, HeldItem, SpanTyped
<1>7. ItemChunk(c, S, I, C)
  <2>1. /\ a.sub[i].num[s] \in Nat \ {0} /\ a.sub[i].start[s] \in Nat
        /\ IsFiniteSet(C) /\ Cardinality(C) = a.sub[i].num[s]
    BY <1>2, <1>3, HeldRun
  <2>2. C = a.sub[i].start[s] .. a.sub[i].start[s] + a.sub[i].num[s] - 1
    BY DEF ChunkOf
  <2>3. /\ c.num = a.sub[i].num[s] /\ c.start = a.sub[i].start[s] /\ c.total = I.total
        /\ (c.file <=> S[I.lo + 1] \in FileMsg) /\ c.payload = Piece(S, I.lo, I.hi)
    <3> DEFINE f == S[I.lo + 1] \in FileMsg
    <3>1. c = [start |-> a.sub[i].start[s], num |-> a.sub[i].num[s], total |-> I.total,
               file |-> f, payload |-> Piece(S, I.lo, I.hi)]
      BY <1>5 DEF Part
    <3> HIDE DEF c, I, f
    <3>2. /\ c.num = a.sub[i].num[s] /\ c.start = a.sub[i].start[s] /\ c.total = I.total
          /\ c.file = f /\ c.payload = Piece(S, I.lo, I.hi)
      BY <3>1
    <3> QED BY <3>2 DEF f
  <2> HIDE DEF c, C, I
  <2> QED BY <2>1, <2>2, <2>3 DEF ItemChunk
<1>8. /\ Taken(a, e, s, B, D, I) = T \cup C /\ T \cap C = {}
  BY <1>1, <1>2, <1>3, TakenMore DEF HasRead
<1>9. r \in ListType
  BY Fields DEF Sound
<1>10. T \cup C \subseteq 0 .. I.total - 1
  BY <1>6 DEF Taken
<1>11. Reading(r, S, R, L, F, Taken(a, b, s, B, D, L))
  BY DEF Placing
<1> HIDE DEF T, C, r, w, c
<1>12. L.lo \in Nat /\ L.hi \in Nat
  BY <1>4, SpanTyped
<1>13. F <= I.hi
  BY <1>4, <1>5, <1>6, <1>12 DEF NotAfter
<1>14. F > I.lo => F = I.hi /\ T # {} /\ (r.open => Spent(r, I, T))
  <2> SUFFICES ASSUME F > I.lo PROVE F = I.hi /\ T # {} /\ (r.open => Spent(r, I, T))
    OBVIOUS
  <2>1. L = I
    BY <1>4, <1>5, <1>6, <1>12 DEF NotAfter
  <2> QED BY <1>4, <1>6, <1>11, <2>1 DEF Reading, T
<1>15. Opened(r, S) /\ Placed(S, R, F)
  BY <1>11 DEF Reading
<1>16. Readable(r, c) /\ e.recv[s] = ReadSubChannelData(r, c)
  BY DEF HasRead, r, c
<1>17. Reading(e.recv[s], S, R, I, F, Taken(a, e, s, B, D, I))
  <2> HIDE DEF I
  <2>1. Reading(ReadSubChannelData(r, c), S, R, I, F, T \cup C)
    BY <1>3, <1>4, <1>6, <1>7, <1>8, <1>9, <1>10, <1>14, <1>15, <1>16, ReadReading
  <2> QED BY <1>8, <1>16, <2>1
<1>18. Level(w, S, B, I, F)
  <2>1. CASE a.sub[i].state = "DIRTY"
    BY <1>4, <1>6, <1>13, <2>1 DEF Level
  <2>2. CASE a.sub[i].state # "DIRTY"
    <3>1. w # <<>> /\ I = HeadSpan(w, B)
      BY <1>6, <2>2
    <3>2. C \subseteq InFlight(a, s)
      BY <1>2, <2>2, HoldingCarries DEF InFlight, C
    <3>3. InFlight(a, s) \subseteq 0 .. w[1].acked + w[1].pending - 1
      BY <3>1 DEF Sound, Accounting, w
    <3>4. a.sub[i].start[s] \in C
      BY <1>2, <1>3, HeldRun DEF C
    <3>5. w[1].acked \in Nat /\ w[1].pending \in Nat
      BY <3>1, ListFits DEF ItemType, w
    <3>6. w[1].acked + w[1].pending > 0
      <4>1. a.sub[i].start[s] \in 0 .. w[1].acked + w[1].pending - 1
        BY <3>2, <3>3, <3>4
      <4> QED BY <3>5, <4>1
    <3> HIDE DEF I
    <3> QED BY <1>4, <1>6, <1>13, <3>1, <3>6 DEF Level
  <2> QED BY <2>1, <2>2
<1>19. Ahead(a, s, S, D, I, Accepts(p, e, M))
  <2> SUFFICES ASSUME NEW l \in Accepts(p, e, M), l.subch # -1
               PROVE  /\ l.chunk[s] = Part(a.sub[l.subch], s, S, D[l.subch])
                      /\ a.sub[l.subch].num[s] # 0 => NotAfter(I, D[l.subch])
    BY DEF Ahead
  <2>1. l \in N /\ l.from = p /\ l.seq > k.seq /\ l.seq \in Nat
    BY DEF Accepts, HasRead, DatagramType
  <2>2. l \in Accepts(p, b, N)
    BY <1>1, <2>1 DEF Accepts
  <2>3. l.chunk[s] = Part(a.sub[l.subch], s, S, D[l.subch])
    BY <2>2 DEF Placing, Ahead
  <2>4. ASSUME a.sub[l.subch].num[s] # 0
        PROVE  NotAfter(I, D[l.subch])
    <3>1. /\ l.subch \in Subchannels /\ a.sub[l.subch].state \in {"WAITING", "DIRTY"}
          /\ a.sub[l.subch].seq = l.seq
      BY <2>2, LiveChunk
    <3>2. l.subch \in Out(a, s)
      BY <2>4, <3>1 DEF Out, Holding
    <3> QED BY <1>1, <1>2, <1>3, <2>1, <3>1, <3>2 DEF Apart
  <2> QED BY <2>3, <2>4
<1> QED BY <1>3, <1>17, <1>18, <1>19 DEF Placing, w

-----------------------------------------------------------------------------
(* The receiver runs the handlers.                                         *)

\* A piece of z messages.
LEMMA PieceLength ==
  ASSUME NEW S \in Seq(Msg), NEW x \in Nat, NEW z \in Nat, x + z <= Len(S)
  PROVE  /\ Piece(S, x, x + z) \in Seq(Msg) /\ Len(Piece(S, x, x + z)) = z
         /\ \A i \in 1 .. z : Piece(S, x, x + z)[i] = S[x + i]
<1> DEFINE y == x + z
<1>1. y \in Nat /\ x <= y /\ y <= Len(S) /\ y - x = z
  OBVIOUS
<1> HIDE DEF y
<1>2. /\ Piece(S, x, y) \in Seq(Msg) /\ Len(Piece(S, x, y)) = y - x
      /\ \A i \in 1 .. y - x : Piece(S, x, y)[i] = S[x + i]
  BY <1>1, PieceElements
<1> QED BY <1>1, <1>2 DEF y

\* The beginning of a piece.
LEMMA PieceOfPiece ==
  ASSUME NEW S \in Seq(Msg), NEW x \in Nat, NEW y \in Nat, x <= y, y <= Len(S), NEW z \in Nat, x + z <= y
  PROVE  SubSeq(Piece(S, x, y), 1, z) = Piece(S, x, x + z)
<1> DEFINE P == Piece(S, x, y)
           V == SubSeq(P, 1, z)
           W == Piece(S, x, x + z)
<1>1. Len(S) \in Nat /\ x + z \in Nat /\ x <= x + z /\ x + z <= Len(S)
  BY LenProperties
<1>2. P \in Seq(Msg) /\ Len(P) = y - x /\ \A i \in 1 .. y - x : P[i] = S[x + i]
  BY <1>1, PieceElements
<1>3. W \in Seq(Msg) /\ Len(W) = z /\ \A i \in 1 .. z : W[i] = S[x + i]
  BY <1>1, PieceLength
<1> HIDE DEF P, W
<1>4. V \in Seq(Msg) /\ Len(V) = z /\ \A i \in 1 .. z : V[i] = P[i]
  <2>1. \A i \in 1 .. z : i \in 1 .. Len(P)
    BY <1>2
  <2>2. V \in Seq(Msg)
    BY <1>2, <2>1, SubSeqProperties
  <2>3. Len(V) = z
    BY <1>2, <2>1, SubSeqProperties
  <2>4. \A i \in 1 .. z : V[i] = P[i]
    BY <1>2, <2>1, SubSeqProperties
  <2> QED BY <2>2, <2>3, <2>4
<1> HIDE DEF V
<1>5. \A i \in 1 .. z : V[i] = W[i]
  <2>1. \A i \in 1 .. z : i \in 1 .. y - x
    OBVIOUS
  <2> QED BY <1>2, <1>3, <1>4, <2>1
<1>6. V = W
  BY <1>3, <1>4, <1>5, SeqEqual
<1> QED BY <1>6 DEF V, W, P

\* The buffer holds the messages x + 1 .. y, and the handlers got some of them.
Contained(r, S, x, y) ==
  S \in Seq(Msg) /\ x \in Nat /\ y \in Nat /\ x <= y /\ y <= Len(S) /\ Contents(r) = Piece(S, x, y)
HandlesPart(r, got, S, x, y) == \E z \in Nat : x + z <= y /\ Handled(r, got) = Piece(S, x, x + z)

\* A complete buffer with an item: the handlers get a beginning of it.
LEMMA HandledPiece ==
  ASSUME NEW r, NEW got, NEW S, NEW x, NEW y, Contained(r, S, x, y)
  PROVE  HandlesPart(r, got, S, x, y)
<1> SUFFICES ASSUME S \in Seq(Msg), x \in Nat, y \in Nat, x <= y, y <= Len(S),
                    Contents(r) = Piece(S, x, y)
             PROVE  \E z \in Nat : x + z <= y /\ Handled(r, got) = Piece(S, x, x + z)
  BY DEF Contained, HandlesPart
<1> DEFINE P == Piece(S, x, y)
           stop == {n \in 1 .. Len(P) : Stops(P[n])}
<1>1. P \in Seq(Msg) /\ Len(P) = y - x
  BY PieceElements
<1>2. Piece(S, x, x) = <<>>
  <2>1. Len(S) \in Nat /\ x <= x /\ x <= Len(S)
    BY LenProperties
  <2>2. Piece(S, x, x) \in Seq(Msg) /\ Len(Piece(S, x, x)) = x - x
    BY <2>1, PieceElements
  <2> QED BY <2>2, EmptySeq
<1>3. y - x \in Nat /\ x + (y - x) = y /\ x + 0 = x
  OBVIOUS
<1>4. CASE Handled(r, got) = <<>>
  <2> WITNESS 0 \in Nat
  <2> QED BY <1>2, <1>3, <1>4
<1>5. CASE Handled(r, got) = P
  <2> WITNESS y - x \in Nat
  <2> QED BY <1>3, <1>5
<1>6. CASE stop # {} /\ Handled(r, got) = SubSeq(P, 1, MinOf(stop))
  <2>1. stop \in SUBSET Nat
    OBVIOUS
  <2>2. MinOf(stop) \in stop
    BY <1>6, <2>1, LeastElement
  <2>3. MinOf(stop) \in Nat /\ MinOf(stop) <= y - x
    BY <1>1, <2>2
  <2>4. x + MinOf(stop) <= y
    BY <2>3
  <2> HIDE DEF stop
  <2>5. SubSeq(P, 1, MinOf(stop)) = Piece(S, x, x + MinOf(stop))
    BY <2>3, <2>4, PieceOfPiece
  <2> QED BY <1>6, <2>3, <2>4, <2>5
<1>7. \/ Handled(r, got) = <<>> \/ Handled(r, got) = P
      \/ stop # {} /\ Handled(r, got) = SubSeq(P, 1, MinOf(stop))
  BY DEF Handled, Processed
<1> QED BY <1>4, <1>5, <1>6, <1>7

\* One with garbage.
LEMMA HandledGarbage ==
  ASSUME NEW r, NEW got, Contents(r) = <<Garbage>>
  PROVE  Handled(r, got) = <<>> \/ Handled(r, got) = <<Garbage>>
<1>1. ~Stops(Garbage)
  BY MessageAssumption DEF Stops, Msg
<1>2. Processed(<<Garbage>>) = <<Garbage>>
  <2>1. {n \in 1 .. Len(<<Garbage>>) : Stops(<<Garbage>>[n])} = {}
    <3>1. \A n \in 1 .. Len(<<Garbage>>) : <<Garbage>>[n] = Garbage
      OBVIOUS
    <3> QED BY <1>1, <3>1
  <2> QED BY <2>1 DEF Processed
<1> QED BY <1>2 DEF Handled

\* Garbage is handled.
LEMMA PlacedGarbage ==
  ASSUME NEW S, NEW T, NEW R \in Seq(T), NEW F, Placed(S, R, F)
  PROVE  Placed(S, R \o <<Garbage>>, F)
<1> DEFINE V == R \o <<Garbage>>
<1>1. /\ Len(R) \in Nat /\ DOMAIN R = 1 .. Len(R)
      /\ DOMAIN V = 1 .. Len(R) + 1 /\ V[Len(R) + 1] = Garbage
      /\ \A i \in 1 .. Len(R) : V[i] = R[i]
  OBVIOUS
<1> HIDE DEF V
<1>2. Whole(V) = Whole(R) /\ \A i \in Whole(R) : i \in 1 .. Len(R) /\ V[i] = R[i]
  BY <1>1 DEF Whole
<1>3. PICK f \in [Whole(R) -> 1 .. F] :
        /\ \A i \in Whole(R) : R[i] = S[f[i]]
        /\ \A i, j \in Whole(R) : i < j => f[i] < f[j] \/ \E n \in i .. j - 1 : R[n] \in Failing
  BY DEF Placed
<1>4. ASSUME NEW i \in Whole(R), NEW j \in Whole(R), i < j
      PROVE  f[i] < f[j] \/ \E n \in i .. j - 1 : V[n] \in Failing
  <2>1. \A n \in i .. j - 1 : V[n] = R[n]
    <3>1. \A n \in i .. j - 1 : n \in 1 .. Len(R)
      BY <1>1, <1>2
    <3> QED BY <1>1, <3>1
  <2> QED BY <1>3, <1>4, <2>1
<1>5. Placed(S, V, F)
  BY <1>2, <1>3, <1>4 DEF Placed
<1> QED BY <1>5 DEF V

\* The next messages of S are handled, or earlier ones again after a failure.
LEMMA PlacedPiece ==
  ASSUME NEW S \in Seq(Msg), NEW R \in Seq(Msg \cup {Garbage}), NEW F \in Nat, Placed(S, R, F),
         NEW x \in Nat, NEW z \in Nat, x + z <= Len(S),
         NEW G \in Nat, F <= G, x + z <= G,
         F <= x \/ (R # <<>> /\ R[Len(R)] \in Failing)
  PROVE  Placed(S, R \o Piece(S, x, x + z), G)
<1> DEFINE P == Piece(S, x, x + z)
           V == R \o P
           n == Len(R)
<1>1. Len(S) \in Nat /\ n \in Nat /\ x + z \in Nat /\ x <= x + z /\ x + z - x = z /\ DOMAIN R = 1 .. n
  <2>1. Len(S) \in Nat /\ n \in Nat /\ DOMAIN R = 1 .. n
    BY LenProperties
  <2> QED BY <2>1
<1>2. P \in Seq(Msg) /\ Len(P) = z /\ \A i \in 1 .. z : P[i] = S[x + i]
  BY PieceLength
<1> HIDE DEF P, n
<1>3. /\ DOMAIN V = 1 .. n + z
      /\ \A i \in 1 .. n : V[i] = R[i]
      /\ \A i \in 1 .. z : V[n + i] = P[i]
  <2>1. P \in Seq(Msg \cup {Garbage})
    BY <1>2, SeqMonotonic
  <2>2. /\ V \in Seq(Msg \cup {Garbage}) /\ Len(V) = n + z
        /\ \A i \in 1 .. n + z : V[i] = IF i <= n THEN R[i] ELSE P[i - n]
    BY <1>2, <2>1, ConcatProperties DEF n
  <2>3. DOMAIN V = 1 .. n + z
    BY <2>2, LenProperties
  <2>4. ASSUME NEW i \in 1 .. n PROVE V[i] = R[i]
    BY <1>1, <2>2
  <2>5. ASSUME NEW i \in 1 .. z PROVE V[n + i] = P[i]
    <3>1. n + i \in 1 .. n + z /\ ~(n + i <= n) /\ (n + i) - n = i
      BY <1>1
    <3> QED BY <2>2, <3>1
  <2> QED BY <2>3, <2>4, <2>5
<1> HIDE DEF V
<1>4. PICK f \in [Whole(R) -> 1 .. F] :
        /\ \A i \in Whole(R) : R[i] = S[f[i]]
        /\ \A i, j \in Whole(R) : i < j => f[i] < f[j] \/ \E k \in i .. j - 1 : R[k] \in Failing
  BY DEF Placed
<1> DEFINE g == [i \in Whole(V) |-> IF i <= n THEN f[i] ELSE x + (i - n)]
<1>5. ASSUME NEW i \in Whole(V)
      PROVE  /\ i \in Nat
             /\ i <= n => i \in Whole(R) /\ i \in 1 .. n /\ g[i] = f[i] /\ f[i] \in 1 .. F
                            /\ V[i] = S[f[i]]
             /\ i > n => i - n \in 1 .. z /\ g[i] = x + (i - n) /\ V[i] = S[x + (i - n)]
  <2>1. i \in 1 .. n + z /\ V[i] # Garbage
    BY <1>3 DEF Whole
  <2>2. ASSUME i <= n
        PROVE  i \in Whole(R) /\ i \in 1 .. n /\ g[i] = f[i] /\ f[i] \in 1 .. F /\ V[i] = S[f[i]]
    <3>1. i \in 1 .. n /\ V[i] = R[i]
      BY <1>1, <1>3, <2>1, <2>2
    <3>2. i \in Whole(R)
      BY <1>1, <2>1, <3>1 DEF Whole
    <3>3. f[i] \in 1 .. F
      BY <1>4, <3>2
    <3> QED BY <1>4, <2>2, <3>1, <3>2, <3>3
  <2>3. ASSUME i > n
        PROVE  i - n \in 1 .. z /\ g[i] = x + (i - n) /\ V[i] = S[x + (i - n)]
    <3>1. i - n \in 1 .. z /\ n + (i - n) = i /\ ~(i <= n)
      BY <1>1, <2>1, <2>3
    <3>2. V[i] = P[i - n]
      BY <1>3, <3>1
    <3> QED BY <1>2, <3>1, <3>2
  <2> QED BY <1>1, <2>1, <2>2, <2>3
<1>6. g \in [Whole(V) -> 1 .. G]
  <2>1. ASSUME NEW i \in Whole(V) PROVE g[i] \in 1 .. G
    <3>1. CASE i <= n
      BY <1>5, <3>1
    <3>2. CASE i > n
      <4>1. i - n \in 1 .. z /\ g[i] = x + (i - n)
        BY <1>5, <3>2
      <4> QED BY <4>1
    <3> QED BY <1>1, <1>5, <3>1, <3>2
  <2> QED BY <2>1
<1>7. ASSUME NEW i \in Whole(V), NEW j \in Whole(V), i < j
      PROVE  g[i] < g[j] \/ \E k \in i .. j - 1 : V[k] \in Failing
  <2>1. CASE j <= n
    <3>1. i <= n /\ i \in Nat /\ j \in Nat
      BY <1>1, <1>5, <1>7, <2>1
    <3>2. g[i] = f[i] /\ g[j] = f[j] /\ i \in Whole(R) /\ j \in Whole(R)
      BY <1>5, <2>1, <3>1
    <3>3. CASE f[i] < f[j]
      BY <3>2, <3>3
    <3>4. CASE \E k \in i .. j - 1 : R[k] \in Failing
      <4>1. PICK k \in i .. j - 1 : R[k] \in Failing
        BY <3>4
      <4>2. k \in 1 .. n
        BY <1>1, <1>5, <2>1, <3>1, <4>1
      <4>3. V[k] = R[k]
        BY <1>3, <4>2
      <4> QED BY <4>1, <4>3
    <3> QED BY <1>4, <1>7, <3>2, <3>3, <3>4
  <2>2. CASE j > n /\ i <= n
    <3>1. i \in 1 .. n /\ g[i] = f[i] /\ f[i] \in 1 .. F /\ j - n \in 1 .. z /\ g[j] = x + (j - n)
            /\ j \in Nat /\ i \in Nat
      BY <1>5, <2>2
    <3>2. CASE F <= x
      BY <1>1, <3>1, <3>2
    <3>3. CASE R[n] \in Failing
      <4>1. n \in i .. j - 1 /\ n \in 1 .. n
        BY <1>1, <2>2, <3>1
      <4>2. V[n] = R[n]
        BY <1>3, <4>1
      <4> QED BY <3>3, <4>1, <4>2
    <3> QED BY <3>2, <3>3 DEF n
  <2>3. CASE i > n
    <3>1. i \in Nat /\ j \in Nat /\ j > n
      BY <1>1, <1>5, <1>7, <2>3
    <3>2. g[i] = x + (i - n) /\ g[j] = x + (j - n)
      BY <1>5, <2>3, <3>1
    <3> QED BY <1>1, <1>7, <3>1, <3>2
  <2>4. i \in Nat /\ j \in Nat
    BY <1>5
  <2> QED BY <1>1, <2>1, <2>2, <2>3, <2>4
<1>8. ASSUME NEW i \in Whole(V) PROVE V[i] = S[g[i]]
  <2>1. i <= n \/ i > n
    BY <1>1, <1>5
  <2> QED BY <1>5, <2>1
<1> HIDE DEF g
<1>9. Placed(S, V, G)
  BY <1>6, <1>7, <1>8 DEF Placed
<1> QED BY <1>9 DEF V, P

\* The list is closed.
LEMMA ClosedReading ==
  ASSUME NEW r, NEW S, NEW R, NEW L, NEW F, NEW T, Reading(r, S, R, L, F, T), NEW x, ~x.open
  PROVE  Reading(x, S, R, L, F, T)
BY DEF Reading, Opened, Kept, Complete

\* Messages m of buffer r were handled, and the buffer is closed, or the last
\* of them failed.
Settled(r, m, S, R, L, G, T) ==
  \A x : ~x.open \/ (x = r /\ m # <<>> /\ m[Len(m)] \in Failing) => Reading(x, S, R \o m, L, G, T)

\* A sequence has a length.
LEMMA PieceCount ==
  ASSUME NEW S \in Seq(Msg)
  PROVE  Len(S) \in Nat
BY LenProperties

\* What the handlers are given of a complete item, and what that leaves.
LEMMA CheckedReading ==
  ASSUME NEW r, r.total \in Nat, NEW S \in Seq(Msg), NEW R \in Seq(Msg \cup {Garbage}),
         NEW L \in Span, L.lo <= L.hi, L.hi <= Len(S), NEW F \in Nat, F <= L.hi, NEW T,
         Reading(r, S, R, L, F, T), Complete(r), NEW got
  PROVE  /\ Handled(r, got) \in Seq(Msg \cup {Garbage})
         /\ \E G \in Nat : G <= L.hi /\ Settled(r, Handled(r, got), S, R, L, G, T)
<1>0. Len(S) \in Nat
  BY PieceCount
<1> DEFINE m == Handled(r, got)
           V == R \o m
<1>a. /\ F <= L.lo \/ F = L.hi
      /\ Opened(r, S) /\ Kept(r, S, F, L, R) /\ T # {} /\ Placed(S, R, F)
  BY DEF Reading
<1>b. r.acked >= r.total
  BY DEF Complete
<1>1. /\ F <= L.lo \/ F = L.hi
      /\ Opened(r, S) /\ Kept(r, S, F, L, R) /\ T # {} /\ Placed(S, R, F)
      /\ r.acked >= r.total
  BY <1>a, <1>b
<1>2. L.lo \in Nat /\ L.hi \in Nat /\ Len(S) \in Nat
  BY <1>0, SpanTyped
<1>3. CASE Contents(r) = <<Garbage>>
  <2>1. m = <<>> \/ m = <<Garbage>>
    BY <1>3, HandledGarbage
  <2> HIDE DEF m
  <2>2. m \in Seq(Msg \cup {Garbage}) /\ (m # <<>> => m[Len(m)] \notin Failing)
    <3>1. CASE m = <<>>
      BY <3>1, EmptySeq
    <3>2. CASE m = <<Garbage>>
      <4>1. m \in Seq(Msg \cup {Garbage}) /\ m[Len(m)] = Garbage
        BY <3>2
      <4>2. Garbage \notin Failing
        BY MessageAssumption DEF Msg
      <4> QED BY <4>1, <4>2
    <3> QED BY <2>1, <3>1, <3>2
  <2>3. Placed(S, V, F)
    <3>1. CASE m = <<>>
      BY <1>1, <3>1, ConcatEmptySeq
    <3>2. CASE m = <<Garbage>>
      BY <1>1, <3>2, PlacedGarbage
    <3> QED BY <2>1, <3>1, <3>2
  <2> HIDE DEF V
  <2>4. ASSUME NEW x, ~x.open PROVE Reading(x, S, V, L, F, T)
    BY <1>1, <2>3, <2>4 DEF Reading, Opened, Kept, Complete
  <2>5. Settled(r, m, S, R, L, F, T)
    BY <2>2, <2>4 DEF Settled, V
  <2> QED BY <2>2, <2>5 DEF m
<1>4. ASSUME NEW x \in Nat, NEW y \in Nat, x < y, y <= Len(S), Contents(r) = Piece(S, x, y),
             r.file <=> S[x + 1] \in FileMsg, NEW G \in Nat, y <= G, F <= G, G <= L.hi,
             G <= L.lo \/ G = L.hi, F <= x \/ (R # <<>> /\ R[Len(R)] \in Failing)
      PROVE  m \in Seq(Msg \cup {Garbage}) /\ Settled(r, m, S, R, L, G, T)
  <2>0. x <= y /\ y <= Len(S) /\ Contents(r) = Piece(S, x, y)
    BY <1>4
  <2>a. Contained(r, S, x, y)
    BY <2>0 DEF Contained
  <2>b. HandlesPart(r, got, S, x, y)
    BY <2>a, HandledPiece
  <2>1. PICK z \in Nat : x + z <= y /\ m = Piece(S, x, x + z)
    BY <2>b DEF HandlesPart
  <2> HIDE DEF m
  <2>2. x + z <= Len(S) /\ x + z <= G
    BY <1>2, <1>4, <2>1
  <2>3. m \in Seq(Msg \cup {Garbage})
    <3>1. m \in Seq(Msg)
      BY <2>1, <2>2, PieceLength
    <3> QED BY <3>1, SeqMonotonic
  <2>4. Placed(S, V, G)
    BY <1>1, <1>4, <2>1, <2>2, PlacedPiece
  <2>5. m # <<>> => V # <<>> /\ V[Len(V)] = m[Len(m)]
    <3> SUFFICES ASSUME m # <<>> PROVE V # <<>> /\ V[Len(V)] = m[Len(m)]
      OBVIOUS
    <3>1. Len(m) \in Nat \ {0} /\ Len(R) \in Nat
      BY <2>3, EmptySeq, LenProperties
    <3>2. /\ V \in Seq(Msg \cup {Garbage}) /\ Len(V) = Len(R) + Len(m)
          /\ \A i \in 1 .. Len(R) + Len(m) : V[i] = IF i <= Len(R) THEN R[i] ELSE m[i - Len(R)]
      BY <2>3, ConcatProperties
    <3> HIDE DEF V
    <3>3. /\ Len(R) + Len(m) \in 1 .. Len(R) + Len(m) /\ ~(Len(R) + Len(m) <= Len(R))
          /\ (Len(R) + Len(m)) - Len(R) = Len(m)
      BY <3>1
    <3>4. V[Len(V)] = m[Len(m)]
      BY <3>2, <3>3
    <3>5. V # <<>>
      <4>1. Len(V) # 0
        BY <3>1, <3>2
      <4> QED BY <4>1
    <3> QED BY <3>4, <3>5
  <2> HIDE DEF V
  <2>6. ASSUME NEW e, ~e.open PROVE Reading(e, S, V, L, G, T)
    BY <1>1, <1>4, <2>4, <2>6 DEF Reading, Opened, Kept, Complete
  <2>7. ASSUME m # <<>>, m[Len(m)] \in Failing PROVE Reading(r, S, V, L, G, T)
    <3>1. Kept(r, S, G, L, V)
      BY <1>4, <2>5, <2>7 DEF Kept
    <3>2. Spent(r, L, T)
      BY <1>1 DEF Spent
    <3> QED BY <1>1, <1>4, <2>4, <3>1, <3>2 DEF Reading
  <2>8. Settled(r, m, S, R, L, G, T)
    BY <2>6, <2>7 DEF Settled, V
  <2> QED BY <2>3, <2>8
<1>5. CASE Contents(r) # <<Garbage>>
  <2>1. PICK x, y \in Nat : /\ x < y /\ y <= Len(S) /\ Contents(r) = Piece(S, x, y)
                            /\ r.file <=> S[x + 1] \in FileMsg
                            /\ \/ x = L.lo /\ y = L.hi /\ F <= x
                               \/ y <= F /\ R # <<>> /\ R[Len(R)] \in Failing
    BY <1>1, <1>5 DEF Kept
  <2> HIDE DEF m
  <2>2. CASE x = L.lo /\ y = L.hi /\ F <= x
    <3>1. y \in Nat /\ y <= y /\ F <= y /\ y <= L.hi /\ y = L.hi
      BY <1>2, <2>1, <2>2
    <3>2. m \in Seq(Msg \cup {Garbage}) /\ Settled(r, m, S, R, L, y, T)
      BY <1>4, <2>1, <2>2, <3>1
    <3> QED BY <3>1, <3>2 DEF m
  <2>3. CASE y <= F /\ R # <<>> /\ R[Len(R)] \in Failing
    <3>1. m \in Seq(Msg \cup {Garbage}) /\ Settled(r, m, S, R, L, F, T)
      BY <1>1, <1>4, <2>1, <2>3
    <3> QED BY <3>1 DEF m
  <2> QED BY <2>1, <2>2, <2>3
<1> QED BY <1>3, <1>5

-----------------------------------------------------------------------------
(* A packet, as a step of the receiver.                                    *)

\* The receiver has the chunks of datagram k.
LEMMA ReadTraced ==
  ASSUME NEW p, NEW q, NEW a, NEW b, NEW e, NEW N \in SUBSET DatagramType,
         Sound(a), Sound(b), Protocol(p, q, a, b, N), NEW s \in Stream, NEW S, NEW R,
         Traced(p, a, b, N, s, S, R), NEW k \in Accepts(p, b, N), k.subch # -1,
         HasRead(b, e, k, s), ReadOk(b.recv[s], k.chunk[s]), NEW M, M \subseteq N
  PROVE  Traced(p, a, e, M, s, S, R)
<1>1. PICK B, D, L, F : Placing(p, a, b, N, s, Buffer(a, s), S, R, B, D, L, F)
  BY DEF Traced
<1>2. CASE a.sub[k.subch].num[s] = 0
  <2>1. Placing(p, a, e, M, s, Buffer(a, s), S, R, B, D, L, F)
    BY <1>1, <1>2, ReadsNonePlacing
  <2> QED BY <2>1 DEF Traced
<1>3. CASE a.sub[k.subch].num[s] # 0
  <2>a. k.chunk[s] = Part(a.sub[k.subch], s, S, D[k.subch])
    BY <1>1 DEF Placing, Ahead
  <2>1. k.chunk[s].num = a.sub[k.subch].num[s]
    BY <1>3, <2>a DEF Part
  <2>2. Readable(b.recv[s], k.chunk[s])
    BY <1>3, <2>1 DEF ReadOk
  <2>3. Placing(p, a, e, M, s, Buffer(a, s), S, R, B, D, D[k.subch], F)
    BY <1>1, <1>3, <2>2, ReadsRunPlacing
  <2> QED BY <2>3 DEF Traced
<1> QED BY <1>2, <1>3

\* A chunk that is refused continues an item of which nothing is in the list.
LEMMA RefusedChunk ==
  ASSUME NEW p, NEW q, NEW a, NEW b, NEW N \in SUBSET DatagramType,
         Sound(a), Sound(b), Protocol(p, q, a, b, N), NEW s \in Stream, NEW S, NEW R,
         Traced(p, a, b, N, s, S, R), NEW k \in Accepts(p, b, N), k.subch # -1,
         ~ReadOk(b.recv[s], k.chunk[s])
  PROVE  s = 0 /\ ReadSubChannelData(b.recv[s], k.chunk[s]) = b.recv[s]
<1> DEFINE i == k.subch
           c == k.chunk[s]
           r == b.recv[s]
<1>1. PICK B, D, L, F : Placing(p, a, b, N, s, Buffer(a, s), S, R, B, D, L, F)
  BY DEF Traced
<1>2. i \in Subchannels /\ a.sub[i].state \in {"WAITING", "DIRTY"}
  BY LiveChunk
<1>3. c = Part(a.sub[i], s, S, D[i]) /\ c.num # 0
  BY <1>1 DEF Placing, Ahead, ReadOk
<1>4. a.sub[i].num[s] # 0
  BY <1>3 DEF Part, NoChunk
<1>5. c.num = a.sub[i].num[s] /\ c.start = a.sub[i].start[s] /\ c.total = D[i].total
  <2> HIDE DEF c, i
  <2> QED BY <1>3, <1>4 DEF Part
<1>6. i \in Holding(a, s)
  BY <1>2, <1>4 DEF Holding
<1>7. Spans(a, s, S, B, D)
  BY <1>1 DEF Placing
<1>8. /\ c.num \in Nat \ {0} /\ c.start \in Nat
      /\ ChunkOf(a.sub[i], s) \subseteq 0 .. D[i].total - 1
  BY <1>5, <1>6, <1>7, HeldRun
<1>9. D[i] \in Span /\ (s = 1 => D[i].total = 1)
  BY <1>6, <1>7 DEF Spans, Held
<1>10. D[i].total \in Nat
  BY <1>9, SpanTyped
<1>11. ChunkOf(a.sub[i], s) = c.start .. c.start + c.num - 1
  BY <1>5 DEF ChunkOf
<1>13. c.start + c.num <= D[i].total
  <2> DEFINE x == c.start
             n == c.num
             t == D[i].total
  <2>1. x \in Nat /\ n \in Nat \ {0} /\ t \in Nat /\ x .. x + n - 1 \subseteq 0 .. t - 1
    BY <1>8, <1>10, <1>11
  <2> HIDE DEF x, n, t
  <2>2. (x + n) - 1 \in x .. x + n - 1
    BY <2>1
  <2>3. (x + n) - 1 \in 0 .. t - 1
    BY <2>1, <2>2
  <2>4. x + n <= t
    BY <2>1, <2>3
  <2> QED BY <2>4 DEF x, n, t
<1>14. c.start # 0
  <2> SUFFICES ASSUME c.start = 0 PROVE FALSE
    OBVIOUS
  <2>1. c.start + c.num <= c.total
    BY <1>5, <1>13
  <2> HIDE DEF c, r
  <2>2. Readable(r, c)
    BY <2>1 DEF Readable, OpenList
  <2>3. ReadOk(r, c)
    BY <2>2 DEF ReadOk
  <2> QED BY <2>3 DEF r, c
<1>15. s = 0
  <2>1. s # 1
    BY <1>8, <1>9, <1>13, <1>14
  <2> QED BY <2>1, Streams
<1>16. ReadSubChannelData(r, c) = r
  <2>1. ~Readable(r, c) /\ OpenList(r, c) = r /\ c.num # 0
    BY <1>3, <1>14 DEF ReadOk, OpenList
  <2> HIDE DEF c, r
  <2> QED BY <2>1 DEF ReadSubChannelData
<1> QED BY <1>15, <1>16

\* Messages of buffer e.recv[s] were handled.
LEMMA ListTraced ==
  ASSUME NEW p, NEW a, NEW e, NEW M, NEW s \in Stream, NEW S,
         NEW R \in Seq(Msg \cup {Garbage}), Traced(p, a, e, M, s, S, R),
         e.recv[s].total \in Nat, Complete(e.recv[s]), NEW got, NEW m, m = Handled(e.recv[s], got),
         NEW g, g.inRel = e.inRel, g.inSeq = e.inSeq,
         \/ ~g.recv[s].open
         \/ g.recv[s] = e.recv[s] /\ m # <<>> /\ m[Len(m)] \in Failing
  PROVE  Traced(p, a, g, M, s, S, R \o m)
<1> DEFINE r == e.recv[s]
           w == a.waiting[s]
<1>1. PICK B, D, L, F : Placing(p, a, e, M, s, Buffer(a, s), S, R, B, D, L, F)
  BY DEF Traced
<1> DEFINE T == Taken(a, e, s, B, D, L)
<1>2. S \in Seq(Msg) /\ Level(w, S, B, L, F) /\ Reading(r, S, R, L, F, T)
  BY <1>1 DEF Placing, Fits
<1>3. L \in Span /\ L.lo <= L.hi /\ L.hi <= Len(S) /\ F \in Nat /\ F <= L.hi
  BY <1>2 DEF Level
<1>4. Taken(a, g, s, B, D, L) = T
  BY DEF Taken, Missing, Behind, SameBit
<1> HIDE DEF T, r
<1>5. PICK G \in Nat : G <= L.hi /\ Settled(r, m, S, R, L, G, T)
  BY <1>2, <1>3, CheckedReading DEF r
<1>6. Reading(g.recv[s], S, R \o m, L, G, T)
  BY <1>5 DEF Settled, r
<1>7. Level(w, S, B, L, G)
  BY <1>2, <1>5 DEF Level
<1>8. Accepts(p, g, M) = Accepts(p, e, M)
  BY DEF Accepts
<1>9. Placing(p, a, g, M, s, Buffer(a, s), S, R \o m, B, D, L, G)
  BY <1>1, <1>4, <1>6, <1>7, <1>8 DEF Placing
<1> QED BY <1>9 DEF Traced

\* The list was closed, with what it had.
LEMMA ClosedTraced ==
  ASSUME NEW p, NEW a, NEW e, NEW M, NEW s \in Stream, NEW S, NEW R, Traced(p, a, e, M, s, S, R),
         NEW g, g.inRel = e.inRel, g.inSeq = e.inSeq, g.recv[s] = e.recv[s] \/ ~g.recv[s].open
  PROVE  Traced(p, a, g, M, s, S, R)
<1>1. PICK B, D, L, F : Placing(p, a, e, M, s, Buffer(a, s), S, R, B, D, L, F)
  BY DEF Traced
<1>2. Taken(a, g, s, B, D, L) = Taken(a, e, s, B, D, L)
  BY DEF Taken, Missing, Behind, SameBit
<1>3. Accepts(p, g, M) = Accepts(p, e, M)
  BY DEF Accepts
<1>4. Reading(e.recv[s], S, R, L, F, Taken(a, e, s, B, D, L))
  BY <1>1 DEF Placing
<1>5. Reading(g.recv[s], S, R, L, F, Taken(a, g, s, B, D, L))
  BY <1>2, <1>4, ClosedReading
<1>6. Placing(p, a, g, M, s, Buffer(a, s), S, R, B, D, L, F)
  BY <1>1, <1>3, <1>5 DEF Placing
<1> QED BY <1>6 DEF Traced

\* CheckReceivingList frees the buffer of stream s.
LEMMA ClosedFields ==
  ASSUME NEW e, Sound(e), NEW s \in Stream
  PROVE  /\ ~Closed(e, s).recv[s].open /\ \A t \in Stream : t # s => Closed(e, s).recv[t] = e.recv[t]
         /\ Closed(e, s).inRel = e.inRel /\ SameSender(Closed(e, s), e)
<1> DEFINE x == Closed(e, s)
           l == [e.recv[s] EXCEPT !.open = FALSE, !.buf = <<>>]
<1>0. e \in ChannelRecord
  BY SenderParts
<1>1. e.recv \in [Stream -> ListType] /\ e.recv[s] \in ListType
  BY <1>0 DEF ChannelRecord
<1>2. e.recv[s] \in [open : BOOLEAN, total : Nat, acked : Nat, file : BOOLEAN,
                     buf : Seq({<<>>} \cup (Seq(Msg) \X Nat))]
  BY <1>1 DEF ListType
<1>3. ~l.open
  BY <1>2
<1>4. x = [e EXCEPT !.recv = [@ EXCEPT ![s] = l]]
  BY <1>0, <1>1 DEF Closed, ChannelRecord
<1> HIDE DEF l, x
<1>5. /\ x.recv = [e.recv EXCEPT ![s] = l] /\ x.inRel = e.inRel /\ x.waiting = e.waiting
      /\ x.stream = e.stream /\ x.sub = e.sub /\ x.outRel = e.outRel /\ x.inSeq = e.inSeq
  BY <1>0, <1>4 DEF ChannelRecord
<1>6. x.recv[s] = l /\ \A t \in Stream : t # s => x.recv[t] = e.recv[t]
  BY <1>1, <1>5
<1> QED BY <1>3, <1>5, <1>6 DEF x, SameSender

\* Clear frees both.
LEMMA ClearFields ==
  ASSUME NEW e, Sound(e), NEW z
  PROVE  LET d == ClearAndSignon(z, e)
         IN  /\ \A t \in Stream : ~d.recv[t].open
             /\ d.inRel = e.inRel /\ d.inSeq = e.inSeq
<1> DEFINE d == ClearAndSignon(z, e)
           recv == [t \in Stream |-> [e.recv[t] EXCEPT !.open = FALSE, !.buf = <<>>]]
<1>0. e \in ChannelRecord
  BY SenderParts
<1>1. \A t \in Stream : e.recv[t] \in [open : BOOLEAN, total : Nat, acked : Nat, file : BOOLEAN,
                                       buf : Seq({<<>>} \cup (Seq(Msg) \X Nat))]
  BY <1>0 DEF ChannelRecord, ListType
<1>2. \A t \in Stream : ~recv[t].open
  BY <1>1
<1>3. d.recv = recv /\ d.inRel = e.inRel /\ d.inSeq = e.inSeq
  <2> DEFINE c == Clear(e)
  <2>1. c.recv = recv /\ c.inRel = e.inRel /\ c.inSeq = e.inSeq
    BY <1>0 DEF Clear, ChannelRecord
  <2>2. c \in ChannelRecord
    BY ClearSound, SenderParts
  <2> HIDE DEF c, recv
  <2>3. d.recv = c.recv /\ d.inRel = c.inRel /\ d.inSeq = c.inSeq
    <3>1. d = WriteToBuffer(c, Signon[z])
      BY DEF ClearAndSignon, c
    <3> HIDE DEF d
    <3> QED BY <2>2, <3>1 DEF WriteToBuffer, ChannelRecord
  <2> QED BY <2>1, <2>3
<1> HIDE DEF recv, d
<1> QED BY <1>2, <1>3 DEF d

\* What CheckReceivingList of stream s does to the channel, as a receiver and
\* as a sender.
Clears(m) == m # <<>> /\ m[Len(m)] \in Clearing
Lists(e, s, g, m, got) ==
  /\ Sound(g) /\ g.inRel = e.inRel /\ g.inSeq = e.inSeq
  /\ \A t \in Stream : g.recv[t] = e.recv[t] \/ ~g.recv[t].open
  /\ m \in Seq(Msg \cup {Garbage})
  /\ ~Complete(e.recv[s]) => m = <<>>
  /\ Complete(e.recv[s]) => /\ m = Handled(e.recv[s], got)
                            /\ \/ ~g.recv[s].open
                               \/ g.recv[s] = e.recv[s] /\ m # <<>> /\ m[Len(m)] \in Failing
Leaves(z, e, g, m, more) ==
  \/ Clears(m) /\ ~more /\ g = ClearAndSignon(z, e)
  \/ ~Clears(m) /\ SameSender(g, e)

\* One list is checked: what is handled, and whether the channel is cleared.
LEMMA CheckLists ==
  ASSUME NEW z \in Peer, NEW e, Sound(e), NEW s \in Stream, NEW got,
         NEW c, c = CheckReceivingList(z, e, s, got)
  PROVE  Lists(e, s, c[1], c[2], got) /\ Leaves(z, e, c[1], c[2], c[3])
<1> DEFINE list == e.recv[s]
           msgs == Handled(list, got)
           last == msgs[Len(msgs)]
<1>1. Sound(c[1]) /\ c[2] \in Seq(Msg \cup {Garbage})
  BY CheckReceivingSound
<1>2. SameSender(e, e) /\ ~Clears(<<>>)
  BY DEF SameSender, Clears
<1>3. CASE ~Complete(list)
  <2>1. c = <<e, <<>>, ~TooMany(list)>>
    BY <1>3 DEF CheckReceivingList
  <2> QED BY <1>1, <1>2, <1>3, <2>1 DEF Lists, Leaves
<1>4. CASE Complete(list) /\ msgs # <<>> /\ last \in Clearing
  <2>1. c = <<ClearAndSignon(z, e), msgs, FALSE>>
    BY <1>4 DEF CheckReceivingList
  <2>2. Clears(msgs)
    BY <1>4 DEF Clears
  <2> HIDE DEF msgs
  <2>3. Lists(e, s, c[1], c[2], got)
    BY <1>1, <1>4, <2>1, ClearFields DEF Lists, msgs
  <2> QED BY <2>1, <2>2, <2>3 DEF Leaves
<1>5. CASE Complete(list) /\ msgs # <<>> /\ last \in Failing \ Clearing
  <2>1. c = <<e, msgs, FALSE>>
    BY <1>5 DEF CheckReceivingList
  <2>2. ~Clears(msgs)
    BY <1>5 DEF Clears
  <2> HIDE DEF msgs
  <2>3. Lists(e, s, c[1], c[2], got)
    BY <1>1, <1>5, <2>1 DEF Lists, msgs
  <2> QED BY <1>2, <2>1, <2>2, <2>3 DEF Leaves
<1>6. CASE Complete(list) /\ ~(msgs # <<>> /\ last \in Clearing)
                          /\ ~(msgs # <<>> /\ last \in Failing \ Clearing)
  <2>1. c = <<Closed(e, s), msgs, TRUE>>
    BY <1>6 DEF CheckReceivingList, Closed
  <2>2. ~Clears(msgs)
    BY <1>6 DEF Clears
  <2> HIDE DEF msgs
  <2>3. /\ ~c[1].recv[s].open /\ \A t \in Stream : t # s => c[1].recv[t] = e.recv[t]
        /\ c[1].inRel = e.inRel /\ SameSender(c[1], e)
    BY <2>1, ClosedFields
  <2>4. Lists(e, s, c[1], c[2], got)
    BY <1>1, <1>6, <2>1, <2>3 DEF Lists, msgs, SameSender
  <2> QED BY <2>1, <2>2, <2>3, <2>4 DEF Leaves
<1> QED BY <1>3, <1>4, <1>5, <1>6

\* The stream that is checked.
LEMMA CheckedTraced ==
  ASSUME NEW p, NEW a, NEW e, Sound(e), NEW M, NEW s \in Stream, NEW S,
         NEW R \in Seq(Msg \cup {Garbage}), Traced(p, a, e, M, s, S, R),
         NEW g, NEW m, NEW got, Lists(e, s, g, m, got)
  PROVE  Traced(p, a, g, M, s, S, R \o m)
<1>1. CASE ~Complete(e.recv[s])
  <2>1. m = <<>> /\ R \o <<>> = R
    BY <1>1, ConcatEmptySeq DEF Lists
  <2>2. Traced(p, a, g, M, s, S, R)
    BY ClosedTraced DEF Lists
  <2> QED BY <2>1, <2>2
<1>2. CASE Complete(e.recv[s])
  <2>1. e.recv[s].total \in Nat
    <3>1. e.recv[s] \in ListType
      BY Fields DEF Sound
    <3> QED BY <3>1 DEF ListType
  <2>2. /\ g.inRel = e.inRel /\ g.inSeq = e.inSeq /\ m = Handled(e.recv[s], got)
        /\ ~g.recv[s].open \/ (g.recv[s] = e.recv[s] /\ m # <<>> /\ m[Len(m)] \in Failing)
    BY <1>2 DEF Lists
  <2> QED BY <1>2, <2>1, <2>2, ListTraced
<1> QED BY <1>1, <1>2

\* The other stream.
LEMMA UncheckedTraced ==
  ASSUME NEW p, NEW a, NEW e, NEW M, NEW s, NEW t \in Stream, NEW S,
         NEW R, Traced(p, a, e, M, t, S, R),
         NEW g, NEW m, NEW got, Lists(e, s, g, m, got)
  PROVE  Traced(p, a, g, M, t, S, R)
BY ClosedTraced DEF Lists

\* Handlers of stream 1 get no message of the reliable stream.
LEMMA FileMessages ==
  ASSUME NEW p, NEW a, NEW e, NEW M, NEW S, NEW R, Traced(p, a, e, M, 1, S, R),
         NEW i \in DOMAIN R
  PROVE  R[i] \notin NetMsg
<1>1. PICK B, D, L, F : Placing(p, a, e, M, 1, Buffer(a, 1), S, R, B, D, L, F)
  BY DEF Traced
<1>2. /\ S \in Seq(Msg) /\ (\A n \in 1 .. Len(S) : S[n] \notin NetMsg) /\ Len(S) \in Nat
      /\ Placed(S, R, F) /\ F \in Nat /\ L.hi \in Nat /\ F <= L.hi /\ L.hi <= Len(S)
  <2>1. S \in Seq(Msg) /\ \A n \in 1 .. Len(S) : S[n] \notin NetMsg
    BY <1>1 DEF Placing, Fits
  <2>2. Placed(S, R, F)
    BY <1>1 DEF Placing, Reading
  <2>3. L \in Span /\ F \in Nat /\ F <= L.hi /\ L.hi <= Len(S)
    BY <1>1 DEF Placing, Level
  <2> QED BY <2>1, <2>2, <2>3, SpanTyped, PieceCount
<1>3. CASE R[i] = Garbage
  BY <1>3, MessageAssumption DEF Msg
<1>4. CASE R[i] # Garbage
  <2>1. PICK f \in [Whole(R) -> 1 .. F] : \A n \in Whole(R) : R[n] = S[f[n]]
    BY <1>2 DEF Placed
  <2>2. i \in Whole(R)
    BY <1>4 DEF Whole
  <2>3. f[i] \in 1 .. F
    BY <2>1, <2>2
  <2>4. f[i] \in 1 .. Len(S)
    BY <1>2, <2>3
  <2> QED BY <1>2, <2>1, <2>2, <2>4
<1> QED BY <1>3, <1>4

\* The receiver with the chunks of datagram k, when all of them were read.
Flipped(h, k) == [ReadAll(h, k) EXCEPT !.inRel = FlipBit(@, k.subch)]

\* The receiver after both chunks and the bit of the subchannel.
LEMMA FlippedFields ==
  ASSUME NEW h, Sound(h), NEW k \in DatagramType, k.subch # -1, AllRead(h, k),
         NEW b, h.recv = b.recv, h.inRel = b.inRel, h.inSeq = k.seq
  PROVE  /\ Sound(Flipped(h, k)) /\ SameSender(Flipped(h, k), h)
         /\ Flipped(h, k).outSeq = h.outSeq /\ \A s \in Stream : HasRead(b, Flipped(h, k), k, s)
<1> DEFINE f == ReadAll(h, k)
           e == Flipped(h, k)
           recv == [s \in Stream |-> ReadSubChannelData(h.recv[s], k.chunk[s])]
<1>1. k.subch \in Subchannels
  BY DEF DatagramType
<1>2. Sound(f) /\ SameEnds(f, h)
  BY ReadAllSound
<1>3. h \in ChannelRecord /\ f \in ChannelRecord
  BY <1>2, SenderParts
<1>4. \A s \in Stream : ReadOk(h.recv[s], k.chunk[s])
  BY DEF AllRead
<1>5. f.recv = recv /\ f.waiting = h.waiting /\ f.stream = h.stream
  <2>1. f = [h EXCEPT !.recv = recv]
    BY <1>4, Streams DEF ReadAll
  <2> HIDE DEF recv, f
  <2> QED BY <1>3, <2>1 DEF ChannelRecord
<1> HIDE DEF f
<1>6. e = [f EXCEPT !.inRel = FlipBit(f.inRel, k.subch)]
  <2>1. e = [f EXCEPT !.inRel = FlipBit(@, k.subch)]
    BY DEF Flipped, f
  <2> HIDE DEF e
  <2> QED BY <1>3, <2>1 DEF ChannelRecord
<1>7. Sound(e)
  <2>1. e = [f EXCEPT !.inRel = FlipBit(@, k.subch)]
    BY DEF Flipped, f
  <2> HIDE DEF e
  <2> QED BY <1>1, <1>2, <2>1, FlipSound
<1> HIDE DEF e
<1>8. /\ e.recv = f.recv /\ e.inRel = FlipBit(f.inRel, k.subch) /\ e.inSeq = f.inSeq
      /\ e.waiting = f.waiting /\ e.stream = f.stream /\ e.sub = f.sub /\ e.outRel = f.outRel
      /\ e.outSeq = f.outSeq
  BY <1>3, <1>6 DEF ChannelRecord
<1>9. SameSender(e, h) /\ e.outSeq = h.outSeq
  BY <1>2, <1>5, <1>8 DEF SameSender, SameEnds
<1>10. \A s \in Stream : e.recv[s] = ReadSubChannelData(b.recv[s], k.chunk[s])
  BY <1>5, <1>8
<1> HIDE DEF recv
<1>11. \A s \in Stream : HasRead(b, e, k, s)
  BY <1>2, <1>8, <1>10 DEF HasRead, SameEnds
<1> QED BY <1>7, <1>9, <1>11 DEF e

\* Both streams of one direction.
AllTraced(p, a, b, N, S, R) == \A s \in Stream : Traced(p, a, b, N, s, S[s], R[s])

\* A datagram of which a chunk is refused changes nothing.
LEMMA RefusedKeeps ==
  ASSUME NEW p, NEW q, NEW a, NEW b, NEW N \in SUBSET DatagramType,
         Sound(a), Sound(b), Protocol(p, q, a, b, N), NEW S, NEW R, AllTraced(p, a, b, N, S, R),
         NEW k \in Accepts(p, b, N), k.subch # -1, NEW h, Sound(h), h.recv = b.recv, ~AllRead(h, k)
  PROVE  ReadAll(h, k) = h
<1>1. h \in ChannelRecord
  BY SenderParts
<1>2. PICK s \in Stream : ~ReadOk(b.recv[s], k.chunk[s])
  BY DEF AllRead
<1>3. s = 0 /\ ReadSubChannelData(b.recv[s], k.chunk[s]) = b.recv[s]
  <2>1. Traced(p, a, b, N, s, S[s], R[s])
    BY DEF AllTraced
  <2> QED BY <1>2, <2>1, RefusedChunk
<1>4. \A t \in Stream :
        (IF t = 0 \/ ReadOk(h.recv[0], k.chunk[0]) THEN ReadSubChannelData(h.recv[t], k.chunk[t])
         ELSE h.recv[t]) = h.recv[t]
  BY <1>2, <1>3
<1>5. ReadAll(h, k) = [h EXCEPT !.recv = [t \in Stream |-> h.recv[t]]]
  BY <1>4 DEF ReadAll
<1>6. h.recv = [t \in Stream |-> h.recv[t]]
  BY <1>1 DEF ChannelRecord
<1> QED BY <1>1, <1>5, <1>6 DEF ChannelRecord

\* What is left of the datagrams under way when k has arrived is no more.
LEMMA AcceptsLess ==
  ASSUME NEW p, NEW b, Sound(b), NEW N \in SUBSET DatagramType, NEW M, M \subseteq N,
         NEW k \in Accepts(p, b, N), NEW h, h.inSeq = k.seq
  PROVE  Accepts(p, h, M) \subseteq Accepts(p, b, N)
<1>1. b.inSeq \in Nat /\ k.seq \in Nat /\ k.seq > b.inSeq /\ \A l \in N : l.seq \in Nat
  BY SoundNumbers, TypedStamps DEF Accepts, Numbers, Stamps
<1> QED BY <1>1 DEF Accepts

\* What ProcessPacket of z does to its channel h, after the header, and to what
\* was handled, R.
Outcome(z, h, k, R, d, V, cleared) ==
  LET c0 == CheckReceivingList(z, Flipped(h, k), 0, R[0])
      c1 == CheckReceivingList(z, c0[1], 1, R[1])
  IN  \/ k.subch = -1 /\ d = h /\ V = R /\ ~cleared
      \/ k.subch # -1 /\ ~AllRead(h, k) /\ d = ReadAll(h, k) /\ V = R /\ ~cleared
      \/ /\ k.subch # -1 /\ AllRead(h, k) /\ ~c0[3] /\ d = c0[1]
         /\ V = [R EXCEPT ![0] = @ \o c0[2]] /\ (cleared <=> Clears(c0[2]))
      \/ /\ k.subch # -1 /\ AllRead(h, k) /\ c0[3] /\ d = c1[1]
         /\ V = [R EXCEPT ![0] = @ \o c0[2], ![1] = @ \o c1[2]] /\ ~cleared

\* The direction whose packet it is, whatever way the packet ends.
LEMMA PacketTraced ==
  ASSUME NEW p, NEW z \in Peer, NEW a, NEW b, NEW N \in SUBSET DatagramType,
         Sound(a), Sound(b), Protocol(p, z, a, b, N), NEW S,
         NEW R \in [Stream -> Seq(Msg \cup {Garbage})], AllTraced(p, a, b, N, S, R),
         NEW k \in Accepts(p, b, N),
         NEW h, Sound(h), h.recv = b.recv, h.inRel = b.inRel, h.inSeq = k.seq,
         NEW d, NEW V, NEW cleared, Outcome(z, h, k, R, d, V, cleared), NEW M, M \subseteq N
  PROVE  /\ AllTraced(p, a, d, M, S, V)
         /\ \/ ~cleared /\ SameSender(d, h)
            \/ cleared /\ d = ClearAndSignon(z, Flipped(h, k)) /\ k.subch # -1 /\ AllRead(h, k)
<1> DEFINE e == Flipped(h, k)
           c0 == CheckReceivingList(z, e, 0, R[0])
           c1 == CheckReceivingList(z, c0[1], 1, R[1])
<1>1. k \in DatagramType /\ Accepts(p, h, M) \subseteq Accepts(p, b, N)
  BY AcceptsLess DEF Accepts
<1>2. SameSender(h, h)
  BY DEF SameSender
<1>3. AllTraced(p, a, h, M, S, R)
  <2>1. ASSUME NEW s \in Stream PROVE Traced(p, a, h, M, s, S[s], R[s])
    <3>1. Traced(p, a, b, N, s, S[s], R[s]) /\ h.recv[s] = b.recv[s] /\ a.waiting[s] = a.waiting[s]
      BY DEF AllTraced
    <3> QED BY <1>1, <3>1, TracedRests
  <2> QED BY <2>1 DEF AllTraced
<1>4. CASE k.subch = -1 /\ d = h /\ V = R /\ ~cleared
  BY <1>2, <1>3, <1>4
<1>5. CASE k.subch # -1 /\ ~AllRead(h, k) /\ d = ReadAll(h, k) /\ V = R /\ ~cleared
  <2>1. ReadAll(h, k) = h
    BY <1>5, RefusedKeeps
  <2> QED BY <1>2, <1>3, <1>5, <2>1
<1>6. ASSUME k.subch # -1, AllRead(h, k)
      PROVE  /\ Sound(e) /\ SameSender(e, h) /\ AllTraced(p, a, e, M, S, R)
             /\ Lists(e, 0, c0[1], c0[2], R[0]) /\ Leaves(z, e, c0[1], c0[2], c0[3])
             /\ Traced(p, a, c0[1], M, 0, S[0], R[0] \o c0[2])
             /\ Traced(p, a, c0[1], M, 1, S[1], R[1])
  <2>1. Sound(e) /\ SameSender(e, h) /\ \A s \in Stream : HasRead(b, e, k, s)
    BY <1>1, <1>6, FlippedFields
  <2> HIDE DEF e
  <2>2. ASSUME NEW s \in Stream PROVE Traced(p, a, e, M, s, S[s], R[s])
    <3>1. Traced(p, a, b, N, s, S[s], R[s]) /\ HasRead(b, e, k, s)
      BY <2>1 DEF AllTraced
    <3>2. ReadOk(b.recv[s], k.chunk[s])
      BY <1>6 DEF AllRead
    <3> QED BY <1>6, <3>1, <3>2, ReadTraced
  <2>3. Lists(e, 0, c0[1], c0[2], R[0]) /\ Leaves(z, e, c0[1], c0[2], c0[3])
    BY <2>1, CheckLists, Streams
  <2> HIDE DEF c0
  <2>4. Traced(p, a, c0[1], M, 0, S[0], R[0] \o c0[2])
    BY <2>1, <2>2, <2>3, CheckedTraced, Streams
  <2>5. Traced(p, a, c0[1], M, 1, S[1], R[1])
    BY <2>2, <2>3, UncheckedTraced, Streams
  <2> QED BY <2>1, <2>2, <2>3, <2>4, <2>5 DEF AllTraced
<1>7. CASE /\ k.subch # -1 /\ AllRead(h, k) /\ ~c0[3] /\ d = c0[1]
           /\ V = [R EXCEPT ![0] = @ \o c0[2]] /\ (cleared <=> Clears(c0[2]))
  <2> HIDE DEF e, c0
  <2>1. V[0] = R[0] \o c0[2] /\ V[1] = R[1]
    BY <1>7, Streams
  <2>2. AllTraced(p, a, d, M, S, V)
    BY <1>6, <1>7, <2>1, Streams DEF AllTraced
  <2>3. CASE Clears(c0[2]) /\ d = ClearAndSignon(z, e)
    BY <1>7, <2>2, <2>3 DEF e
  <2>4. CASE ~Clears(c0[2]) /\ SameSender(d, e)
    BY <1>6, <1>7, <2>2, <2>4 DEF SameSender
  <2> QED BY <1>6, <1>7, <2>3, <2>4 DEF Leaves
<1>8. CASE /\ k.subch # -1 /\ AllRead(h, k) /\ c0[3] /\ d = c1[1]
           /\ V = [R EXCEPT ![0] = @ \o c0[2], ![1] = @ \o c1[2]] /\ ~cleared
  <2> DEFINE f == c0[1]
  <2>1. Sound(f) /\ SameSender(f, h)
    BY <1>6, <1>8 DEF Lists, Leaves, SameSender
  <2> HIDE DEF f
  <2>2. Lists(f, 1, c1[1], c1[2], R[1]) /\ Leaves(z, f, c1[1], c1[2], c1[3])
    BY <2>1, CheckLists, Streams DEF f
  <2> HIDE DEF c1
  <2>3. Traced(p, a, c1[1], M, 1, S[1], R[1] \o c1[2])
    BY <1>6, <1>8, <2>1, <2>2, CheckedTraced, Streams DEF f
  <2>4. Traced(p, a, c1[1], M, 0, S[0], R[0] \o c0[2])
    BY <1>6, <1>8, <2>2, UncheckedTraced, Streams DEF f
  <2>5. V[0] = R[0] \o c0[2] /\ V[1] = R[1] \o c1[2]
    <3> HIDE DEF c0
    <3> QED BY <1>8, Streams
  <2>6. AllTraced(p, a, d, M, S, V)
    BY <1>8, <2>3, <2>4, <2>5, Streams DEF AllTraced
  <2>7. ~Clears(c1[2])
    <3> SUFFICES ASSUME c1[2] # <<>>, c1[2][Len(c1[2])] \in Clearing PROVE FALSE
      BY DEF Clears
    <3> DEFINE m == c1[2]
               Q == R[1]
    <3>1. m \in Seq(Msg \cup {Garbage}) /\ Q \in Seq(Msg \cup {Garbage})
      BY <2>2, Streams DEF Lists
    <3> HIDE DEF m, Q
    <3>2. Len(m) \in Nat /\ Len(m) # 0 /\ Len(Q) \in Nat
      BY <3>1, EmptySeq, LenProperties DEF m
    <3>3. Len(Q) + Len(m) \in DOMAIN (Q \o m) /\ (Q \o m)[Len(Q) + Len(m)] = m[Len(m)]
      BY <3>1, <3>2
    <3>4. m[Len(m)] \notin NetMsg
      BY <2>3, <3>3, FileMessages DEF m, Q
    <3> QED BY <3>4, MessageAssumption DEF m
  <2>8. SameSender(d, h)
    BY <1>8, <2>1, <2>2, <2>7 DEF Leaves, SameSender
  <2> QED BY <1>8, <2>6, <2>8
<1> HIDE DEF c0, c1
<1> QED BY <1>4, <1>5, <1>7, <1>8 DEF Outcome, c0, c1, e

-----------------------------------------------------------------------------
(* The actions.                                                            *)

\* The sender did something its streams do not show.
LEMMA SenderRest ==
  ASSUME NEW p, NEW a, NEW b, NEW d, NEW N, NEW M, NEW S, NEW R, AllTraced(p, a, b, N, S, R),
         d.sub = a.sub, d.outRel = a.outRel, d.waiting = a.waiting, d.stream = a.stream,
         M \subseteq N
  PROVE  AllTraced(p, d, b, M, S, R)
<1>1. Accepts(p, b, M) \subseteq Accepts(p, b, N)
  BY DEF Accepts
<1>2. ASSUME NEW s \in Stream PROVE Traced(p, d, b, M, s, S[s], R[s])
  <2>1. Traced(p, a, b, N, s, S[s], R[s]) /\ d.waiting[s] = a.waiting[s] /\ Buffer(d, s) = Buffer(a, s)
    BY DEF AllTraced, Buffer
  <2> QED BY <1>1, <2>1, TracedRests
<1> QED BY <1>2 DEF AllTraced

\* The receiver did something as a sender.
LEMMA ReceiverRest ==
  ASSUME NEW p, NEW a, NEW b, NEW e, NEW N, NEW M, NEW S, NEW R, AllTraced(p, a, b, N, S, R),
         e.recv = b.recv, e.inRel = b.inRel, Accepts(p, e, M) \subseteq Accepts(p, b, N)
  PROVE  AllTraced(p, a, e, M, S, R)
<1>1. ASSUME NEW s \in Stream PROVE Traced(p, a, e, M, s, S[s], R[s])
  <2>1. Traced(p, a, b, N, s, S[s], R[s]) /\ e.recv[s] = b.recv[s] /\ a.waiting[s] = a.waiting[s]
    BY DEF AllTraced
  <2> QED BY <2>1, TracedRests
<1> QED BY <1>1 DEF AllTraced

\* The two directions, seen from p.
TwoWays(p, q, a, b, N, S, R) == AllTraced(p, a, b, N, S[p], R[p]) /\ AllTraced(q, b, a, N, S[q], R[q])

\* What holds of the two peers before a step of p.
Ends(p, q) ==
  /\ TypeInv /\ p # q
  /\ Protocol(p, q, chan[p], chan[q], net) /\ Protocol(q, p, chan[q], chan[p], net)
  /\ TwoWays(p, q, chan[p], chan[q], net, sent, received)

\* The invariant of both directions, for two ends.
LEMMA EndsTyped ==
  ASSUME NEW p \in Peer, NEW q \in Peer, Ends(p, q)
  PROVE  /\ p # q /\ Sound(chan[p]) /\ Sound(chan[q]) /\ net \in SUBSET DatagramType
         /\ chan \in [Peer -> ChannelType] /\ chan[p] \in ChannelRecord /\ chan[q] \in ChannelRecord
         /\ sent \in [Peer -> [Stream -> Seq(Msg)]]
         /\ received \in [Peer -> [Stream -> Seq(Msg \cup {Garbage})]]
         /\ Protocol(p, q, chan[p], chan[q], net) /\ Protocol(q, p, chan[q], chan[p], net)
         /\ AllTraced(p, chan[p], chan[q], net, sent[p], received[p])
         /\ AllTraced(q, chan[q], chan[p], net, sent[q], received[q])
<1>1. TypeInv
  BY DEF Ends
<1>2. /\ chan \in [Peer -> ChannelType] /\ Sound(chan[p]) /\ Sound(chan[q]) /\ net \subseteq DatagramType
      /\ sent \in [Peer -> [Stream -> Seq(Msg)]]
      /\ received \in [Peer -> [Stream -> Seq(Msg \cup {Garbage})]]
  BY <1>1, TypeInvSound
<1>3. chan[p] \in ChannelRecord /\ chan[q] \in ChannelRecord
  BY <1>2, SenderParts
<1> QED BY <1>2, <1>3 DEF Ends, TwoWays

\* What was accepted, with m on stream s.
LEMMA SentMore ==
  ASSUME sent \in [Peer -> [Stream -> Seq(Msg)]], NEW p \in Peer, NEW q \in Peer, p # q,
         NEW s \in Stream, NEW m, sent' = [sent EXCEPT ![p][s] = Append(@, m)]
  PROVE  /\ sent'[q] = sent[q] /\ sent'[p][s] = Append(sent[p][s], m)
         /\ \A t \in Stream : t # s => sent'[p][t] = sent[p][t]
OBVIOUS

\* SendNetMsg keeps the places of both directions.
LEMMA SendNetMsgTraced ==
  ASSUME NEW p \in Peer, NEW q \in Peer, Ends(p, q), NEW m \in Msg, SendNetMsg(p, m)
  PROVE  TwoWays(p, q, chan'[p], chan'[q], net', sent', received')
<1> DEFINE a == chan[p]
           b == chan[q]
           d == WriteToBuffer(a, m)
<1>1. /\ p # q /\ Sound(a) /\ Sound(b) /\ a \in ChannelRecord /\ net \in SUBSET DatagramType
      /\ chan \in [Peer -> ChannelType] /\ Protocol(p, q, a, b, net)
      /\ sent \in [Peer -> [Stream -> Seq(Msg)]]
      /\ AllTraced(p, a, b, net, sent[p], received[p])
      /\ AllTraced(q, b, a, net, sent[q], received[q])
  BY EndsTyped
<1>2. /\ chan' = [chan EXCEPT ![p] = d] /\ net' = net /\ received' = received /\ m \in NetMsg
      /\ sent' = [sent EXCEPT ![p][0] = Append(@, m)]
  BY DEF SendNetMsg
<1>3. /\ d.recv = a.recv /\ d.inRel = a.inRel /\ d.inSeq = a.inSeq
      /\ d.sub = a.sub /\ d.outRel = a.outRel /\ d.waiting = a.waiting
  BY <1>1 DEF WriteToBuffer, ChannelRecord
<1>4. chan'[p] = d /\ chan'[q] = b
  BY <1>1, <1>2
<1>5. /\ sent'[q] = sent[q] /\ sent'[p][0] = Append(sent[p][0], m) /\ sent'[p][1] = sent[p][1]
  BY <1>1, <1>2, SentMore, Streams
<1>6. Traced(p, d, b, net, 0, Append(sent[p][0], m), received[p][0])
  <2>1. Traced(p, a, b, net, 0, sent[p][0], received[p][0])
    BY <1>1, Streams DEF AllTraced
  <2> HIDE DEF a, b
  <2> QED BY <1>1, <1>2, <2>1, WriteTraced
<1> HIDE DEF d, a, b
<1>7. Traced(p, d, b, net, 1, sent[p][1], received[p][1])
  <2>1. Traced(p, a, b, net, 1, sent[p][1], received[p][1]) /\ d.waiting[1] = a.waiting[1]
    BY <1>1, <1>3, Streams DEF AllTraced
  <2>2. Buffer(d, 1) = Buffer(a, 1)
    BY DEF Buffer
  <2> QED BY <1>3, <2>1, <2>2, TracedRests
<1>8. AllTraced(p, d, b, net, sent'[p], received[p])
  BY <1>5, <1>6, <1>7, Streams DEF AllTraced
<1>9. Accepts(q, d, net) \subseteq Accepts(q, a, net)
  BY <1>3 DEF Accepts
<1>10. AllTraced(q, b, d, net, sent[q], received[q])
  BY <1>1, <1>3, <1>9, ReceiverRest
<1> QED BY <1>2, <1>4, <1>5, <1>8, <1>10 DEF TwoWays

\* An item added to the list of stream 1.
LEMMA Enqueued ==
  ASSUME NEW a \in ChannelRecord, NEW h, NEW d, d = [a EXCEPT !.waiting[1] = Append(@, h)]
  PROVE  /\ d.recv = a.recv /\ d.inRel = a.inRel /\ d.inSeq = a.inSeq
         /\ d.sub = a.sub /\ d.outRel = a.outRel /\ d.waiting[0] = a.waiting[0] /\ d.stream = a.stream
<1>1. a.waiting \in [Stream -> Seq(ItemType)]
  BY DEF ChannelRecord
<1>2. d = [a EXCEPT !.waiting = [a.waiting EXCEPT ![1] = Append(a.waiting[1], h)]]
  BY <1>1 DEF ChannelRecord
<1> DEFINE w == [a.waiting EXCEPT ![1] = Append(a.waiting[1], h)]
<1>3. w[0] = a.waiting[0]
  BY <1>1, Streams
<1> HIDE DEF w
<1> QED BY <1>2, <1>3 DEF ChannelRecord, w

\* SendFile keeps the places of both directions.
LEMMA SendFileTraced ==
  ASSUME WholeFiles, NEW p \in Peer, NEW q \in Peer, Ends(p, q), NEW m \in Msg, SendFile(p, m)
  PROVE  TwoWays(p, q, chan'[p], chan'[q], net', sent', received')
<1> DEFINE a == chan[p]
           b == chan[q]
           d == [a EXCEPT !.waiting[1] = Append(@, Item(<<m>>, Size[m], m \in FileMsg))]
<1>1. /\ p # q /\ Sound(a) /\ Sound(b) /\ a \in ChannelRecord /\ net \in SUBSET DatagramType
      /\ chan \in [Peer -> ChannelType] /\ Protocol(p, q, a, b, net)
      /\ sent \in [Peer -> [Stream -> Seq(Msg)]]
      /\ AllTraced(p, a, b, net, sent[p], received[p])
      /\ AllTraced(q, b, a, net, sent[q], received[q])
  BY EndsTyped
<1>2. /\ chan' = [chan EXCEPT ![p] = d] /\ net' = net /\ received' = received
      /\ m \in AsyncMsg \cup FileMsg
      /\ sent' = [sent EXCEPT ![p][1] = Append(@, m)]
  BY <1>1 DEF SendFile
<1>3. /\ d.recv = a.recv /\ d.inRel = a.inRel /\ d.inSeq = a.inSeq
      /\ d.sub = a.sub /\ d.outRel = a.outRel /\ d.waiting[0] = a.waiting[0] /\ d.stream = a.stream
  <2> DEFINE h == Item(<<m>>, Size[m], m \in FileMsg)
  <2>1. d = [a EXCEPT !.waiting[1] = Append(@, h)]
    OBVIOUS
  <2> HIDE DEF h, d, a
  <2> QED BY <1>1, <2>1, Enqueued
<1>4. chan'[p] = d /\ chan'[q] = b
  BY <1>1, <1>2
<1>5. /\ sent'[q] = sent[q] /\ sent'[p][1] = Append(sent[p][1], m) /\ sent'[p][0] = sent[p][0]
  BY <1>1, <1>2, SentMore, Streams
<1>6. Traced(p, d, b, net, 1, Append(sent[p][1], m), received[p][1])
  <2>1. Traced(p, a, b, net, 1, sent[p][1], received[p][1])
    BY <1>1, Streams DEF AllTraced
  <2>2. d = [a EXCEPT !.waiting[1] = Append(@, Item(<<m>>, Size[m], m \in FileMsg))]
    OBVIOUS
  <2> HIDE DEF a, b, d
  <2> QED BY <1>1, <1>2, <2>1, <2>2, FileTraced
<1> HIDE DEF d, a, b
<1>7. Traced(p, d, b, net, 0, sent[p][0], received[p][0])
  <2>1. Traced(p, a, b, net, 0, sent[p][0], received[p][0])
    BY <1>1, Streams DEF AllTraced
  <2>2. Buffer(d, 0) = Buffer(a, 0)
    BY <1>3 DEF Buffer
  <2> QED BY <1>3, <2>1, <2>2, TracedRests
<1>8. AllTraced(p, d, b, net, sent'[p], received[p])
  BY <1>5, <1>6, <1>7, Streams DEF AllTraced
<1>9. Accepts(q, d, net) \subseteq Accepts(q, a, net)
  BY <1>3 DEF Accepts
<1>10. AllTraced(q, b, d, net, sent[q], received[q])
  BY <1>1, <1>3, <1>9, ReceiverRest
<1> QED BY <1>2, <1>4, <1>5, <1>8, <1>10 DEF TwoWays

\* SetChoked keeps the places of both directions.
LEMMA SetChokedTraced ==
  ASSUME NEW p \in Peer, NEW q \in Peer, Ends(p, q), SetChoked(p)
  PROVE  TwoWays(p, q, chan'[p], chan'[q], net', sent', received')
<1> DEFINE a == chan[p]
           b == chan[q]
           d == [a EXCEPT !.outSeq = @ + 1, !.choked = @ + 1]
<1>1. /\ p # q /\ a \in ChannelRecord /\ chan \in [Peer -> ChannelType]
      /\ AllTraced(p, a, b, net, sent[p], received[p])
      /\ AllTraced(q, b, a, net, sent[q], received[q])
  BY EndsTyped
<1>2. chan' = [chan EXCEPT ![p] = d] /\ net' = net /\ received' = received /\ sent' = sent
  BY <1>1 DEF SetChoked
<1>3. /\ d.recv = a.recv /\ d.inRel = a.inRel /\ d.inSeq = a.inSeq
      /\ d.waiting = a.waiting /\ d.stream = a.stream /\ d.sub = a.sub /\ d.outRel = a.outRel
  BY <1>1 DEF ChannelRecord
<1> HIDE DEF d
<1>4. Accepts(q, d, net) \subseteq Accepts(q, a, net)
  BY <1>3 DEF Accepts
<1>5. chan'[p] = d /\ chan'[q] = b
  BY <1>1, <1>2
<1> HIDE DEF a, b
<1>6. AllTraced(p, d, b, net, sent[p], received[p])
  BY <1>1, <1>3, SenderRest
<1>7. AllTraced(q, b, d, net, sent[q], received[q])
  BY <1>1, <1>3, <1>4, ReceiverRest
<1> QED BY <1>2, <1>5, <1>6, <1>7 DEF TwoWays

\* SendDatagram keeps the places of both directions.
LEMMA SendDatagramTraced ==
  ASSUME NEW p \in Peer, NEW q \in Peer, Ends(p, q), SendDatagram(p)
  PROVE  TwoWays(p, q, chan'[p], chan'[q], net', sent', received')
<1> DEFINE a == chan[p]
           b == chan[q]
<1>1. PICK ch \in CompressFragments(CreateFragmentsFromBuffer(a)) :
        /\ chan' = [chan EXCEPT ![p] = AfterSend(UpdateSubChannels(ch))]
        /\ net'  = net \cup {Datagram(p, UpdateSubChannels(ch))}
  BY DEF SendDatagram
<1> DEFINE made  == CreateFragmentsFromBuffer(a)
           ready == UpdateSubChannels(ch)
           d     == AfterSend(ready)
           M     == net \cup {Datagram(p, ready)}
           S     == sent[p]
           R     == received[p]
<1>2. /\ p # q /\ Sound(a) /\ Sound(b) /\ net \in SUBSET DatagramType
      /\ chan \in [Peer -> ChannelType] /\ Protocol(p, q, a, b, net)
      /\ AllTraced(p, a, b, net, S, R)
      /\ AllTraced(q, b, a, net, sent[q], received[q])
  BY EndsTyped
<1>3. sent' = sent /\ received' = received
  BY DEF SendDatagram
<1>4. chan'[p] = d /\ chan'[q] = b /\ net' = M
  BY <1>1, <1>2
<1>5. d.recv = a.recv /\ d.inRel = a.inRel /\ d.inSeq = a.inSeq
  <2> HIDE DEF a
  <2> QED BY <1>2, SendKeepsReceiver
<1>6. ch \in CompressFragments(made)
  OBVIOUS
<1> HIDE DEF a, b, S, R
<1>7. Sound(made) /\ Protocol(p, q, made, b, net)
  BY <1>2, CreateSound, SameProtocol
<1>8. \A s \in Stream : Traced(p, made, b, net, s, S[s], R[s])
  BY <1>2, CreateTraced DEF AllTraced
<1> HIDE DEF made
<1>9. Sound(ch) /\ Protocol(p, q, ch, b, net)
  BY <1>6, <1>7, CompressSound, SameProtocol
<1>10. \A s \in Stream : Traced(p, ch, b, net, s, S[s], R[s])
  BY <1>2, <1>6, <1>7, <1>8, CompressTraced
<1>11. Sound(ready)
  BY <1>9, UpdateSound
<1>12. Protocol(p, q, ready, b, net)
  <2>1. CASE ready = ch
    BY <1>9, <2>1
  <2>2. CASE ready # ch
    <3>1. PICK i \in Subchannels : TakesInto(ch, ready, i)
      BY <1>9, <2>2, UpdateTyped
    <3> QED BY <1>9, <3>1, TakeProtocol
  <2> QED BY <2>1, <2>2
<1>13. \A s \in Stream : Traced(p, ready, b, net, s, S[s], R[s])
  BY <1>2, <1>9, <1>10, UpdateTraced
<1> HIDE DEF ready
<1>14. AllTraced(p, d, b, M, S, R)
  <2>1. \A s \in Stream : Traced(p, d, b, M, s, S[s], R[s])
    BY <1>2, <1>11, <1>12, <1>13, SendTraced
  <2> QED BY <2>1 DEF AllTraced
<1>15. Accepts(q, d, M) \subseteq Accepts(q, a, net)
  BY <1>2, <1>5 DEF Accepts, Datagram
<1> HIDE DEF d, M
<1>16. AllTraced(q, b, d, M, sent[q], received[q])
  BY <1>2, <1>5, <1>15, ReceiverRest
<1> QED BY <1>3, <1>4, <1>14, <1>16 DEF TwoWays, S, R

\* Clear, as a step of the sender.
LEMMA ClearsTraced ==
  ASSUME NEW p \in Peer, NEW q, NEW a, NEW b, NEW N \in SUBSET DatagramType,
         Sound(a), Sound(b), Protocol(p, q, a, b, N), NEW S, NEW R, AllTraced(p, a, b, N, S, R),
         NEW V, V[0] = Append(S[0], Signon[p]), V[1] = S[1]
  PROVE  AllTraced(p, ClearAndSignon(p, a), b, N, V, R)
<1>1. ASSUME NEW s \in Stream PROVE Traced(p, ClearAndSignon(p, a), b, N, s, V[s], R[s])
  <2>1. Traced(p, a, b, N, s, S[s], R[s])
    BY DEF AllTraced
  <2>2. Traced(p, ClearAndSignon(p, a), b, N, s, IF s = 0 THEN Append(S[s], Signon[p]) ELSE S[s], R[s])
    BY <2>1, ClearSignonTraced
  <2>3. CASE s = 0
    BY <2>2, <2>3
  <2>4. CASE s = 1
    BY <2>2, <2>4
  <2> QED BY <2>3, <2>4, Streams
<1> QED BY <1>1 DEF AllTraced

\* A channel that its owner clears keeps the places of both directions.
LEMMA ClearChannelTraced ==
  ASSUME NEW p \in Peer, NEW q \in Peer, Ends(p, q), ClearChannel(p)
  PROVE  TwoWays(p, q, chan'[p], chan'[q], net', sent', received')
<1> DEFINE a == chan[p]
           b == chan[q]
           d == ClearAndSignon(p, a)
<1>1. /\ p # q /\ Sound(a) /\ Sound(b) /\ net \in SUBSET DatagramType
      /\ chan \in [Peer -> ChannelType] /\ Protocol(p, q, a, b, net)
      /\ sent \in [Peer -> [Stream -> Seq(Msg)]]
      /\ AllTraced(p, a, b, net, sent[p], received[p])
      /\ AllTraced(q, b, a, net, sent[q], received[q])
  BY EndsTyped
<1>2. /\ chan' = [chan EXCEPT ![p] = d] /\ net' = net /\ received' = received
      /\ sent' = [sent EXCEPT ![p][0] = Append(@, Signon[p])]
  BY <1>1 DEF ClearChannel
<1>3. chan'[p] = d /\ chan'[q] = b
  BY <1>1, <1>2
<1>4. /\ sent'[q] = sent[q] /\ sent'[p][0] = Append(sent[p][0], Signon[p]) /\ sent'[p][1] = sent[p][1]
  BY <1>1, <1>2, SentMore, Streams
<1>5. AllTraced(p, d, b, net, sent'[p], received[p])
  <2> HIDE DEF a, b
  <2> QED BY <1>1, <1>4, ClearsTraced
<1>6. /\ \A t \in Stream : ~d.recv[t].open
      /\ d.inRel = a.inRel /\ d.inSeq = a.inSeq
  <2> HIDE DEF a
  <2> QED BY <1>1, ClearFields
<1> HIDE DEF d, a, b
<1>7. ASSUME NEW s \in Stream PROVE Traced(q, b, d, net, s, sent[q][s], received[q][s])
  <2>1. Traced(q, b, a, net, s, sent[q][s], received[q][s])
    BY <1>1 DEF AllTraced
  <2> QED BY <1>6, <2>1, ClosedTraced
<1>8. AllTraced(q, b, d, net, sent[q], received[q])
  BY <1>7 DEF AllTraced
<1> QED BY <1>2, <1>3, <1>4, <1>5, <1>8 DEF TwoWays

\* How a packet leaves the channel and the history, from the header on.
Outcomes(p, q, h, k) ==
  \E d, V : \E cleared \in BOOLEAN :
    /\ Outcome(p, h, k, received[q], d, V, cleared)
    /\ chan' = [chan EXCEPT ![p] = d] /\ received' = [received EXCEPT ![q] = V]
    /\ sent' = IF cleared THEN [sent EXCEPT ![p][0] = Append(@, Signon[p])] ELSE sent

\* What ProcessPacket does, in these terms.
LEMMA PacketOutcome ==
  ASSUME NEW p \in Peer, NEW q \in Peer, NEW k, k.from = q, ProcessPacket(p, k),
         received \in [Peer -> [Stream -> Seq(Msg \cup {Garbage})]],
         sent \in [Peer -> [Stream -> Seq(Msg)]],
         Invalid(chan[p], k) = {}, NEW h, h = ProcessPacketHeader(chan[p], k)
  PROVE  Outcomes(p, q, h, k)
<1> DEFINE R == received[q]
           c0 == CheckReceivingList(p, Flipped(h, k), 0, R[0])
           c1 == CheckReceivingList(p, c0[1], 1, R[1])
           reliable == k.subch # -1
<1> USE DEF Outcomes
<1>1. R \in [Stream -> Seq(Msg \cup {Garbage})] /\ received = [received EXCEPT ![q] = R]
  OBVIOUS
<1>2. \/ ~reliable /\ chan' = [chan EXCEPT ![p] = h] /\ sent' = sent /\ received' = received
      \/ /\ reliable /\ ~AllRead(h, k)
         /\ chan' = [chan EXCEPT ![p] = ReadAll(h, k)] /\ sent' = sent /\ received' = received
      \/ /\ reliable /\ AllRead(h, k) /\ ~c0[3] /\ chan' = [chan EXCEPT ![p] = c0[1]]
         /\ received' = [received EXCEPT ![q][0] = @ \o c0[2]]
         /\ sent' = IF Clears(c0[2]) THEN [sent EXCEPT ![p][0] = Append(@, Signon[p])] ELSE sent
      \/ /\ reliable /\ AllRead(h, k) /\ c0[3] /\ chan' = [chan EXCEPT ![p] = c1[1]]
         /\ received' = [received EXCEPT ![q][0] = @ \o c0[2], ![q][1] = @ \o c1[2]]
         /\ sent' = sent
  BY DEF ProcessPacket, Flipped, Clears, Last
<1> HIDE DEF c0, c1
<1>3. CASE ~reliable /\ chan' = [chan EXCEPT ![p] = h] /\ sent' = sent /\ received' = received
  <2>1. Outcome(p, h, k, R, h, R, FALSE)
    BY <1>3 DEF Outcome
  <2> QED BY <1>1, <1>3, <2>1
<1>4. CASE /\ reliable /\ ~AllRead(h, k)
           /\ chan' = [chan EXCEPT ![p] = ReadAll(h, k)] /\ sent' = sent /\ received' = received
  <2>1. Outcome(p, h, k, R, ReadAll(h, k), R, FALSE)
    BY <1>4 DEF Outcome
  <2> QED BY <1>1, <1>4, <2>1
<1>5. CASE /\ reliable /\ AllRead(h, k) /\ ~c0[3] /\ chan' = [chan EXCEPT ![p] = c0[1]]
           /\ received' = [received EXCEPT ![q][0] = @ \o c0[2]]
           /\ sent' = IF Clears(c0[2]) THEN [sent EXCEPT ![p][0] = Append(@, Signon[p])] ELSE sent
  <2> DEFINE V == [R EXCEPT ![0] = @ \o c0[2]]
             d == c0[1]
             cleared == c0[2] # <<>> /\ c0[2][Len(c0[2])] \in Clearing
  <2>1. Outcome(p, h, k, R, d, V, cleared)
    BY <1>5 DEF Outcome, c0, Clears
  <2>2. received' = [received EXCEPT ![q] = V]
    BY <1>1, <1>5, Streams
  <2>3. cleared \in BOOLEAN /\ (cleared <=> Clears(c0[2]))
    BY DEF Clears
  <2>4. chan' = [chan EXCEPT ![p] = d]
    BY <1>5
  <2>5. sent' = IF cleared THEN [sent EXCEPT ![p][0] = Append(@, Signon[p])] ELSE sent
    BY <1>5, <2>3
  <2> HIDE DEF V, d, cleared
  <2> QED BY <2>1, <2>2, <2>3, <2>4, <2>5
<1>6. CASE /\ reliable /\ AllRead(h, k) /\ c0[3] /\ chan' = [chan EXCEPT ![p] = c1[1]]
           /\ received' = [received EXCEPT ![q][0] = @ \o c0[2], ![q][1] = @ \o c1[2]]
           /\ sent' = sent
  <2> DEFINE V == [R EXCEPT ![0] = @ \o c0[2], ![1] = @ \o c1[2]]
             d == c1[1]
  <2>1. Outcome(p, h, k, R, d, V, FALSE)
    BY <1>6 DEF Outcome, c0, c1
  <2>2. received' = [received EXCEPT ![q] = V]
    BY <1>1, <1>6, Streams
  <2> HIDE DEF V
  <2> QED BY <1>6, <2>1, <2>2
<1> QED BY <1>2, <1>3, <1>4, <1>5, <1>6

\* ProcessPacket keeps the places of both directions.
LEMMA ProcessPacketTraced ==
  ASSUME NEW p \in Peer, NEW q \in Peer, Ends(p, q), NEW k \in net, ProcessPacket(p, k)
  PROVE  TwoWays(p, q, chan'[p], chan'[q], net', sent', received')
<1> DEFINE a == chan[p]
           b == chan[q]
           h == ProcessPacketHeader(a, k)
           e == Flipped(h, k)
           N == net
           M == net'
<1>1. /\ p # q /\ Sound(a) /\ Sound(b) /\ N \in SUBSET DatagramType
      /\ chan \in [Peer -> ChannelType] /\ Protocol(p, q, a, b, N) /\ Protocol(q, p, b, a, N)
      /\ sent \in [Peer -> [Stream -> Seq(Msg)]]
      /\ received \in [Peer -> [Stream -> Seq(Msg \cup {Garbage})]]
      /\ AllTraced(p, a, b, N, sent[p], received[p])
      /\ AllTraced(q, b, a, N, sent[q], received[q])
  BY EndsTyped
<1>2. k \in Accepts(q, a, N) /\ k \in DatagramType /\ k.from = q
  <2>1. k \in Live(p)
    BY DEF ProcessPacket, Live
  <2>2. k \in Accepts(q, a, N)
    BY <1>1, <2>1, LiveIsAccepts DEF Ends
  <2> HIDE DEF a, N
  <2> QED BY <1>1, <2>2 DEF Accepts
<1>3. Numbers(a) /\ Numbers(b) /\ Stamps(N)
  BY <1>1, SoundNumbers, TypedStamps
<1>4. Invalid(a, k) = {}
  <2> HIDE DEF a, b, N
  <2> QED BY <1>1, <1>2, <1>3, HeaderValid
<1>5. Sound(h) /\ h.inRel = a.inRel /\ h.inSeq = k.seq
  BY <1>1, <1>2, <1>4, HeaderSound
<1>6. /\ h.recv = a.recv /\ h.outSeq = a.outSeq /\ h.sub = AnsweredSub(a, k)
      /\ h.outRel = (a.outRel \ DirtyLost(a, k)) \cup (DirtyLost(a, k) \ a.outRel)
  <2>1. h = ProcessPacketHeader(a, k)
    OBVIOUS
  <2> HIDE DEF a, b, N, h
  <2>2. N \in SUBSET DatagramType /\ Sound(a) /\ Sound(b) /\ Protocol(p, q, a, b, N)
    BY <1>1
  <2> QED BY <1>2, <2>1, <2>2, HeaderFields
<1>7. AllTraced(p, h, b, N, sent[p], received[p])
  <2> DEFINE S == sent[p]
             R == received[p]
  <2> HIDE DEF a, b, N, S, R
  <2>1. ASSUME NEW s \in Stream PROVE Traced(p, h, b, N, s, S[s], R[s])
    <3>1. Traced(p, a, b, N, s, S[s], R[s])
      BY <1>1 DEF AllTraced, S, R
    <3> QED BY <1>1, <1>2, <3>1, HeaderTraced
  <2> QED BY <2>1 DEF AllTraced, S, R
<1>8. PICK d, V : \E cleared \in BOOLEAN :
         /\ Outcome(p, h, k, received[q], d, V, cleared)
         /\ chan' = [chan EXCEPT ![p] = d] /\ received' = [received EXCEPT ![q] = V]
         /\ sent' = IF cleared THEN [sent EXCEPT ![p][0] = Append(@, Signon[p])] ELSE sent
  <2>1. h = ProcessPacketHeader(chan[p], k) /\ Invalid(chan[p], k) = {}
    BY <1>4
  <2> HIDE DEF h, a
  <2>2. Outcomes(p, q, h, k)
    BY <1>1, <1>2, <2>1, PacketOutcome
  <2> QED BY <2>2 DEF Outcomes
<1>9. PICK cleared \in BOOLEAN :
         /\ Outcome(p, h, k, received[q], d, V, cleared)
         /\ chan' = [chan EXCEPT ![p] = d] /\ received' = [received EXCEPT ![q] = V]
         /\ sent' = IF cleared THEN [sent EXCEPT ![p][0] = Append(@, Signon[p])] ELSE sent
  BY <1>8
<1> HIDE DEF h
<1>10. chan'[p] = d /\ chan'[q] = b /\ received'[q] = V /\ received'[p] = received[p]
  BY <1>1, <1>9
<1>11. M \subseteq N /\ M = {x \in N : x.from = k.from => x.seq >= d.inSeq}
  BY <1>10 DEF ProcessPacket
<1>12. /\ AllTraced(q, b, d, M, sent[q], V)
       /\ \/ ~cleared /\ SameSender(d, h)
          \/ cleared /\ d = ClearAndSignon(p, e) /\ k.subch # -1 /\ AllRead(h, k)
  <2> DEFINE S == sent[q]
             R == received[q]
  <2>1. R \in [Stream -> Seq(Msg \cup {Garbage})] /\ AllTraced(q, b, a, N, S, R)
    BY <1>1
  <2>2. Outcome(p, h, k, R, d, V, cleared)
    BY <1>9
  <2> HIDE DEF a, b, N, M, S, R
  <2>3. /\ N \in SUBSET DatagramType /\ Sound(a) /\ Sound(b) /\ Protocol(q, p, b, a, N)
        /\ M \subseteq N /\ Sound(h) /\ h.recv = a.recv /\ h.inRel = a.inRel /\ h.inSeq = k.seq
    BY <1>1, <1>5, <1>6, <1>11
  <2>4. /\ AllTraced(q, b, d, M, S, V)
        /\ \/ ~cleared /\ SameSender(d, h)
           \/ cleared /\ d = ClearAndSignon(p, Flipped(h, k)) /\ k.subch # -1 /\ AllRead(h, k)
    BY <1>2, <2>1, <2>2, <2>3, PacketTraced
  <2> QED BY <2>4 DEF S
<1>13. CASE ~cleared /\ SameSender(d, h)
  <2>1. sent' = sent
    BY <1>9, <1>13
  <2>2. AllTraced(p, d, b, M, sent[p], received[p])
    <3> HIDE DEF a, b, N, M
    <3> QED BY <1>7, <1>11, <1>13, SenderRest DEF SameSender
  <2> QED BY <1>10, <1>12, <2>1, <2>2 DEF TwoWays
<1>14. CASE cleared /\ d = ClearAndSignon(p, e) /\ k.subch # -1 /\ AllRead(h, k)
  <2> HIDE DEF a, b, N, M, e
  <2>1. /\ Sound(e) /\ SameSender(e, h) /\ e.outSeq = h.outSeq /\ HasRead(a, e, k, 0)
    BY <1>2, <1>5, <1>6, <1>14, FlippedFields, Streams DEF e
  <2>2. Receives(a, e, k)
    BY <1>5, <1>6, <1>14, <2>1 DEF Receives, HasRead, SameSender
  <2>3. d.inSeq = k.seq
    <3>1. d.inSeq = e.inSeq
      BY <1>14, <2>1, ClearFields
    <3> QED BY <2>1, <3>1 DEF HasRead
  <2>4. M = StillUnderWay(N, k)
    BY <1>11, <2>3 DEF StillUnderWay
  <2>5. Protocol(p, q, e, b, M)
    BY <1>1, <1>2, <1>3, <2>2, <2>4, ReceiveProtocol
  <2>6. AllTraced(p, e, b, M, sent[p], received[p])
    BY <1>7, <1>11, <2>1, SenderRest DEF SameSender
  <2>7. /\ sent'[q] = sent[q] /\ sent'[p][0] = Append(sent[p][0], Signon[p]) /\ sent'[p][1] = sent[p][1]
    <3>1. sent' = [sent EXCEPT ![p][0] = Append(@, Signon[p])]
      BY <1>9, <1>14
    <3> QED BY <1>1, <3>1, SentMore, Streams
  <2>8. AllTraced(p, d, b, M, sent'[p], received[p])
    <3> DEFINE S == sent[p]
               R == received[p]
               W == sent'[p]
    <3>1. W[0] = Append(S[0], Signon[p]) /\ W[1] = S[1] /\ M \in SUBSET DatagramType
      BY <1>1, <1>11, <2>7
    <3> HIDE DEF S, R, W
    <3> QED BY <1>1, <1>14, <2>1, <2>5, <2>6, <3>1, ClearsTraced DEF S, R, W
  <2>9. TwoWays(p, q, d, b, M, sent', received')
    BY <1>10, <1>12, <2>7, <2>8 DEF TwoWays
  <2> QED BY <1>10, <2>9 DEF M
<1> QED BY <1>12, <1>13, <1>14

-----------------------------------------------------------------------------
(* The invariant.                                                          *)

\* Every direction of every stream has such places.
Placements ==
  \A p, q \in Peer : p # q => AllTraced(p, chan[p], chan[q], net, sent[p], received[p])

OrderInv == ProtocolInv /\ Placements

\* Nothing is accepted, held, under way or handled at first.
LEMMA InitOrder == Init => OrderInv
<1> SUFFICES ASSUME Init PROVE OrderInv
  OBVIOUS
<1>1. ProtocolInv
  BY InitProtocol
<1>2. /\ chan = [p \in Peer |-> NewChannel] /\ net = {}
      /\ \A p \in Peer, s \in Stream : sent[p][s] = <<>> /\ received[p][s] = <<>>
  BY DEF Init
<1>3. ASSUME NEW p \in Peer, NEW q \in Peer, p # q, NEW s \in Stream
      PROVE  Traced(p, chan[p], chan[q], net, s, sent[p][s], received[p][s])
  <2> DEFINE c == NewChannel
             B == [n \in 1 .. 1 |-> 0]
             I == [lo |-> 0, hi |-> 0, total |-> 1]
             D == [i \in Subchannels |-> I]
  <2>1. /\ \A i \in Subchannels : c.sub[i].state = "FREE"
        /\ \A t \in Stream : c.waiting[t] = <<>> /\ ~c.recv[t].open
        /\ c.stream = <<>>
    BY DEF NewChannel, FreeSub, EmptyList
  <2>2. chan[p] = c /\ chan[q] = c /\ sent[p][s] = <<>> /\ received[p][s] = <<>> /\ net = {}
    BY <1>2
  <2> HIDE DEF c
  <2>3. Piece(<<>>, 0, 0) = <<>> /\ Len(<<>>) = 0 /\ <<>> \in Seq(Msg)
    BY SubSeqEmpty DEF Piece
  <2>4. B \in Cuts(<<>>, <<>>) /\ B[1] = 0
    BY DEF Cuts
  <2>5. I \in Span /\ I.lo = 0 /\ I.hi = 0 /\ D \in [Subchannels -> Span]
    BY DEF Span
  <2> HIDE DEF B, I, D
  <2>6. Buffer(c, s) = <<>> /\ Lined(<<>>, <<>>, <<>>, B)
    BY <2>1, <2>3, <2>4 DEF Buffer, Lined
  <2>7. Fits(s, <<>>, <<>>)
    BY <2>3 DEF Fits
  <2>8. Holding(c, s) = {} /\ Out(c, s) = {}
    BY <2>1 DEF Holding, Out
  <2>9. Spans(c, s, <<>>, B, D)
    BY <2>5, <2>8 DEF Spans, Apart
  <2>10. Level(<<>>, <<>>, B, I, 0)
    BY <2>3, <2>4, <2>5 DEF Level
  <2>11. Ahead(c, s, <<>>, D, I, Accepts(p, c, {}))
    BY DEF Ahead, Accepts
  <2>12. Placed(<<>>, <<>>, 0)
    <3>1. Whole(<<>>) = {}
      BY DEF Whole
    <3> DEFINE f == [i \in {} |-> 0]
    <3>2. f \in [{} -> 1 .. 0]
      OBVIOUS
    <3> QED BY <3>1, <3>2 DEF Placed
  <2>13. \A T : Reading(c.recv[s], <<>>, <<>>, I, 0, T)
    BY <2>1, <2>5, <2>12 DEF Reading, Opened, Kept, Complete
  <2>14. Placing(p, c, c, {}, s, Buffer(c, s), <<>>, <<>>, B, D, I, 0)
    BY <2>1, <2>4, <2>6, <2>7, <2>9, <2>10, <2>11, <2>13 DEF Placing
  <2> QED BY <2>2, <2>14 DEF Traced
<1>4. Placements
  BY <1>3 DEF Placements, AllTraced
<1> QED BY <1>1, <1>4 DEF OrderInv

\* Every step keeps the places.
LEMMA StepOrder == WholeFiles /\ OrderInv /\ [Next]_vars => OrderInv'
<1> SUFFICES ASSUME WholeFiles, OrderInv, [Next]_vars PROVE OrderInv'
  OBVIOUS
<1>1. ProtocolInv'
  BY StepProtocol DEF OrderInv
<1>2. CASE UNCHANGED vars
  BY <1>1, <1>2 DEF OrderInv, Placements, vars
<1>3. CASE Next
  <2>1. PICK p \in Peer :
          \/ \E m \in Msg : SendNetMsg(p, m)
          \/ \E m \in Msg : SendFile(p, m)
          \/ SetChoked(p)
          \/ SendDatagram(p)
          \/ ClearChannel(p)
          \/ \E k \in net : ProcessPacket(p, k)
    BY <1>3 DEF Next
  <2>2. PICK q \in Peer : p # q
    BY TwoPeers
  <2>3. Ends(p, q)
    <3>1. TypeInv /\ Corresponds
      BY InvCorresponds DEF ProtocolInv, OrderInv
    <3> QED BY <2>2, <3>1 DEF Ends, TwoWays, Placements, OrderInv, ProtocolInv, Corresponds
  <2>4. TwoWays(p, q, chan'[p], chan'[q], net', sent', received')
    BY <2>1, <2>3, SendNetMsgTraced, SendFileTraced, SetChokedTraced, SendDatagramTraced,
       ClearChannelTraced, ProcessPacketTraced
  <2>5. \A r, t \in Peer : r # t => (r = p /\ t = q) \/ (r = q /\ t = p)
    BY <2>2, TwoPeers
  <2>6. Placements'
    BY <2>4, <2>5 DEF Placements, TwoWays
  <2> QED BY <1>1, <2>6 DEF OrderInv
<1> QED BY <1>2, <1>3

\* A stream whose messages have their places.
LEMMA InvInOrder == OrderInv => InOrderUnlessFailed
<1> SUFFICES ASSUME OrderInv, NEW p \in Peer, NEW s \in Stream
             PROVE  LET whole == {i \in DOMAIN received[p][s] : received[p][s][i] # Garbage}
                    IN  \E f \in [whole -> DOMAIN sent[p][s]] :
                          /\ \A i \in whole : received[p][s][i] = sent[p][s][f[i]]
                          /\ \A i, j \in whole : i < j =>
                               f[i] < f[j] \/ \E n \in i .. j - 1 : received[p][s][n] \in Failing
  BY DEF InOrderUnlessFailed
<1>1. PICK q \in Peer : p # q
  BY TwoPeers
<1>2. Traced(p, chan[p], chan[q], net, s, sent[p][s], received[p][s])
  BY <1>1 DEF OrderInv, Placements, AllTraced
<1> DEFINE S == sent[p][s]
           R == received[p][s]
<1>3. PICK B, D, L, F : Placing(p, chan[p], chan[q], net, s, Buffer(chan[p], s), S, R, B, D, L, F)
  BY <1>2 DEF Traced
<1> HIDE DEF S, R
<1>4. /\ S \in Seq(Msg) /\ Placed(S, R, F)
      /\ L \in Span /\ F \in Nat /\ F <= L.hi /\ L.hi <= Len(S)
  BY <1>3 DEF Placing, Fits, Reading, Level
<1>5. 1 .. F \subseteq DOMAIN S
  BY <1>4, SpanTyped
<1>6. PICK f \in [Whole(R) -> 1 .. F] :
        /\ \A i \in Whole(R) : R[i] = S[f[i]]
        /\ \A i, j \in Whole(R) : i < j => f[i] < f[j] \/ \E n \in i .. j - 1 : R[n] \in Failing
  BY <1>4 DEF Placed
<1>7. f \in [Whole(R) -> DOMAIN S]
  BY <1>5
<1> QED BY <1>6, <1>7 DEF Whole, S, R

\* Handlers get the messages of a stream in the order in which they were
\* accepted and each at most once, unless one of them fails: whatever is lost,
\* repeated, reordered, cleared or sent again.
THEOREM InOrderCorrect ==
  ASSUME WholeFiles
  PROVE  Spec => []InOrderUnlessFailed
<1>1. WholeFiles /\ OrderInv /\ [Next]_vars => OrderInv'
  BY StepOrder
<1>2. Init => OrderInv
  BY InitOrder
<1>3. OrderInv => InOrderUnlessFailed
  BY InvInOrder
<1>4. OrderInv /\ [Next]_vars => OrderInv'
  BY <1>1
<1> QED BY <1>2, <1>3, <1>4, PTL DEF Spec

=============================================================================
