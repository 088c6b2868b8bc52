------------------------- MODULE SplitPacketsProofs -------------------------
(***************************************************************************)
(* What holds of split packets for any number of datagrams, parts and        *)
(* copies, any delay and any queue: the types, what NET_GetLong returns, the  *)
(* order of the parts, and when the thread wakes up.                         *)
(***************************************************************************)
EXTENDS SplitPackets, FiniteSetTheorems, SequenceTheorems, WellFoundedInduction, TLAPS

LEMMA Constants ==
  /\ Parts \in Seq(Nat \ {0}) /\ Datagrams = 1 .. Len(Parts) /\ Len(Parts) \in Nat /\ 1 \in Datagrams
  /\ \A d \in Datagrams : Parts[d] \in Nat /\ Parts[d] >= 1 /\ SplitSize[d] \in Nat /\ d \in Nat /\ d >= 1
  /\ SplitRate \in Nat /\ SplitRate >= 1 /\ MaxQueued \in Nat /\ Delay \in Nat /\ IdleWait \in Nat
  /\ TimeWidth \in Nat /\ TimeWidth >= 1 /\ StaleTime \in Nat
<1>1. Parts \in Seq(Nat \ {0}) /\ Parts # <<>> /\ SplitSize \in [Datagrams -> Nat]
  BY PartsAssumption
<1>2. Datagrams = 1 .. Len(Parts) /\ Len(Parts) \in Nat /\ 1 \in Datagrams
  BY <1>1 DEF Datagrams
<1>3. \A d \in Datagrams : Parts[d] \in Nat \ {0}
  BY <1>1, <1>2
<1>4. \A d \in Datagrams : SplitSize[d] \in Nat
  BY <1>1
<1> QED BY <1>1, <1>2, <1>3, <1>4, NumbersAssumption

-----------------------------------------------------------------------------
(* Least and greatest numbers.                                             *)

\* Every set of natural numbers that is not empty has a least one.
LEMMA Least ==
  ASSUME NEW T, T \subseteq Nat, T # {} PROVE \E x \in T : \A y \in T : x <= y
<1> DEFINE R == {p \in Nat \X Nat : p[1] < p[2]}
<1>1. IsWellFoundedOn(R, Nat)
  BY NatLessThanWellFounded DEF OpToRel
<1>2. \E x \in T : \A y \in T : ~(<<y, x>> \in R)
  <2> HIDE DEF R
  <2> QED BY <1>1, WFMin
<1>3. PICK x \in T : \A y \in T : ~(<<y, x>> \in R)
  BY <1>2
<1>4. \A y \in T : ~(y < x)
  BY <1>3
<1> QED BY <1>4

LEMMA MinOf ==
  ASSUME NEW T, T \subseteq Nat, T # {} PROVE Min(T) \in T /\ \A y \in T : Min(T) <= y
<1>1. \E x \in T : \A y \in T : x =< y
  BY Least
<1> QED BY <1>1 DEF Min

LEMMA MinOfTwo ==
  ASSUME NEW a \in Nat, NEW b \in Nat
  PROVE  Min({a, b}) \in Nat /\ Min({a, b}) <= a /\ Min({a, b}) <= b /\ Min({a, b}) \in {a, b}
<1>1. {a, b} \subseteq Nat /\ {a, b} # {}
  OBVIOUS
<1>2. Min({a, b}) \in {a, b} /\ \A y \in {a, b} : Min({a, b}) <= y
  BY <1>1, MinOf
<1> QED BY <1>2

\* There is a datagram with the most parts: otherwise there would be a first one without a bound for
\* those before it.
LEMMA PartsBounded == \E b \in Nat : \A d \in Datagrams : Parts[d] <= b
<1> DEFINE T == {n \in Nat : n <= Len(Parts) /\ ~(\E b \in Nat : \A d \in 1 .. n : Parts[d] <= b)}
<1>1. SUFFICES ASSUME T # {} PROVE FALSE
  <2>1. Len(Parts) \notin T
    BY <1>1
  <2> QED BY <2>1, Constants
<1>2. T \subseteq Nat
  OBVIOUS
<1>3. PICK n \in T : \A y \in T : n <= y
  <2> HIDE DEF T
  <2> QED BY <1>1, <1>2, Least
<1>4. n \in Nat /\ n <= Len(Parts) /\ ~(\E b \in Nat : \A d \in 1 .. n : Parts[d] <= b)
  BY <1>3
<1>5. n # 0
  <2>1. \A d \in 1 .. 0 : Parts[d] <= 0
    OBVIOUS
  <2> QED BY <1>4, <2>1
<1>6. n - 1 \in Nat /\ n - 1 <= Len(Parts) /\ n - 1 \notin T
  <2>1. n - 1 \in Nat /\ n - 1 <= Len(Parts) /\ ~(n <= n - 1)
    BY <1>4, <1>5, Constants
  <2> HIDE DEF T
  <2> QED BY <1>3, <2>1
<1>7. PICK b \in Nat : \A d \in 1 .. n - 1 : Parts[d] <= b
  BY <1>6
<1>8. Parts[n] \in Nat
  BY <1>4, <1>5, Constants
<1>9. b + Parts[n] \in Nat /\ \A d \in 1 .. n : Parts[d] <= b + Parts[n]
  <2> HIDE DEF T
  <2>1. \A d \in 1 .. n : d \in 1 .. n - 1 \/ d = n
    BY <1>4
  <2>2. \A d \in 1 .. n : Parts[d] \in Nat
    <3>1. \A d \in 1 .. n : d \in 1 .. Len(Parts)
      BY <1>4, Constants
    <3> QED BY <3>1, Constants
  <2>3. \A d \in 1 .. n - 1 : Parts[d] <= b + Parts[n]
    <3>1. \A d \in 1 .. n - 1 : d \in 1 .. n
      BY <1>4
    <3> QED BY <1>7, <1>8, <2>2, <3>1
  <2>4. Parts[n] <= b + Parts[n]
    BY <1>7, <1>8
  <2>5. b + Parts[n] \in Nat
    BY <1>7, <1>8
  <2> QED BY <2>1, <2>3, <2>4, <2>5
<1> QED BY <1>4, <1>9

LEMMA MaxPartsIs ==
  MaxParts \in Nat /\ MaxParts >= 1 /\ \A d \in Datagrams : Parts[d] <= MaxParts
<1> DEFINE S == {Parts[d] : d \in Datagrams}
           T == {b \in Nat : \A d \in Datagrams : Parts[d] <= b}
<1>1. T \subseteq Nat /\ T # {} /\ S \subseteq Nat /\ S # {}
  BY PartsBounded, Constants
<1>2. PICK b \in T : \A y \in T : b <= y
  <2> HIDE DEF T
  <2> QED BY <1>1, Least
<1>3. b \in Nat /\ \A d \in Datagrams : Parts[d] <= b
  BY <1>2
<1>4. b \in S
  <2> SUFFICES ASSUME b \notin S PROVE FALSE
    OBVIOUS
  <2>1. \A d \in Datagrams : Parts[d] <= b - 1 /\ Parts[d] >= 1
    BY <1>3, Constants
  <2>2. b - 1 \in Nat
    BY <1>3, <2>1, Constants
  <2>3. b - 1 \in T
    BY <2>1, <2>2
  <2> QED BY <1>2, <1>3, <2>3
<1>5. \A y \in S : b >= y
  BY <1>3, Constants
<1>6. Max(S) \in S /\ \A y \in S : Max(S) >= y
  BY <1>4, <1>5 DEF Max
<1>7. MaxParts \in Nat /\ \A d \in Datagrams : Parts[d] <= MaxParts
  BY <1>1, <1>6 DEF MaxParts
<1> QED BY <1>7, Constants

LEMMA IndexIs ==
  ASSUME NEW d \in Datagrams, NEW n \in Nat, n < Parts[d] PROVE n \in Index
<1>1. MaxParts \in Nat /\ Parts[d] <= MaxParts
  BY MaxPartsIs
<1> QED BY <1>1, Constants DEF Index

-----------------------------------------------------------------------------
(* The parts on their way.                                                 *)

\* What NET_SendLong makes of its datagram, whatever the number.
Sound == {f \in PartType : /\ f.part < Parts[f.datagram]
                           /\ f.count = Parts[f.datagram] /\ f.size = SplitSize[f.datagram]}
QueuedOf(S) == [time : Nat, due : Nat, chan : Nat, frag : S]
PartsIn(S) ==
  /\ sending \in Seq(S) /\ list \in Seq(S) /\ wire \in Seq(S)
  /\ queue \subseteq QueuedOf(S)

\* The numbers and flags.
Numbers ==
  /\ channel \in Nat /\ sequence \in Nat /\ sent \in 0 .. Len(Parts) /\ restarts \in Nat
  /\ wakeAt \in Nat /\ now \in Nat /\ copies \in Nat
Flags == useThread \in BOOLEAN /\ event \in BOOLEAN /\ awake \in BOOLEAN
Queues == PartsIn(Sound) /\ IsFiniteSet(queue) /\ queued = Len(list)

LEMMA PartSound ==
  ASSUME Numbers, NEW d \in Datagrams, NEW n \in 0 .. Parts[d] - 1
  PROVE  /\ Part(d, n) \in Sound /\ Part(d, n).seq = sequence + 1
         /\ Part(d, n).datagram = d /\ Part(d, n).part = n
<1>1. Parts[d] \in Nat /\ SplitSize[d] \in Nat /\ n \in Nat /\ n < Parts[d] /\ sequence + 1 \in Nat
  BY Constants DEF Numbers
<1>2. n \in Index
  BY <1>1, IndexIs
<1>3. Part(d, n) \in PartType
  BY <1>1, <1>2 DEF Part, PartType
<1> QED BY <1>1, <1>3 DEF Part, Sound

LEMMA SoundFields ==
  ASSUME NEW f \in Sound
  PROVE  /\ f.datagram \in Datagrams /\ f.part \in Index /\ f.part \in Nat /\ f.part < Parts[f.datagram] /\ f.seq \in Nat
         /\ f.count = Parts[f.datagram] /\ f.size = SplitSize[f.datagram]
         /\ f.count \in Nat /\ f.count >= 1 /\ f.size \in Nat /\ f.count <= MaxParts
<1>1. f \in PartType /\ f.part < Parts[f.datagram] /\ f.count = Parts[f.datagram] /\ f.size = SplitSize[f.datagram]
  BY DEF Sound
<1>2. f.datagram \in Datagrams /\ f.part \in Index /\ f.seq \in Nat
  BY <1>1 DEF PartType
<1>3. f.part \in Nat
  BY <1>2, MaxPartsIs DEF Index
<1> QED BY <1>1, <1>2, <1>3, Constants, MaxPartsIs

LEMMA FunSeq == ASSUME NEW S, NEW n \in Nat, NEW f \in [1 .. n -> S] PROVE f \in Seq(S)
OBVIOUS

\* What is taken out of the wire leaves the rest in its order.
LEMMA RemoveAtIs ==
  ASSUME NEW S, NEW s \in Seq(S), NEW i \in DOMAIN s
  PROVE  /\ RemoveAt(s, i) \in Seq(S)
         /\ Len(RemoveAt(s, i)) = Len(s) - 1
         /\ \A k \in 1 .. Len(s) - 1 : RemoveAt(s, i)[k] = IF k < i THEN s[k] ELSE s[k + 1]
<1>1. i \in 1 .. Len(s) /\ Len(s) \in Nat
  OBVIOUS
<1> DEFINE a == SubSeq(s, 1, i - 1)
           b == SubSeq(s, i + 1, Len(s))
<1>2. a \in Seq(S) /\ Len(a) = i - 1 /\ \A k \in 1 .. i - 1 : a[k] = s[k]
  BY <1>1
<1>3. b \in Seq(S) /\ Len(b) = Len(s) - i /\ \A k \in 1 .. Len(s) - i : b[k] = s[k + i]
  BY <1>1
<1>4. RemoveAt(s, i) = a \o b
  BY DEF RemoveAt
<1> HIDE DEF a, b
<1>5. a \o b \in Seq(S) /\ Len(a \o b) = Len(s) - 1
  BY <1>1, <1>2, <1>3
<1>6. \A k \in 1 .. Len(s) - 1 : (a \o b)[k] = IF k < i THEN s[k] ELSE s[k + 1]
  <2> SUFFICES ASSUME NEW k \in 1 .. Len(s) - 1
               PROVE  (a \o b)[k] = IF k < i THEN s[k] ELSE s[k + 1]
    OBVIOUS
  <2>1. (a \o b)[k] = IF k <= Len(a) THEN a[k] ELSE b[k - Len(a)]
    BY <1>1, <1>2, <1>3
  <2>2. CASE k < i
    BY <1>1, <1>2, <2>1, <2>2
  <2>3. CASE ~(k < i)
    <3>1. k - Len(a) \in 1 .. Len(s) - i /\ (k - Len(a)) + i = k + 1 /\ ~(k <= Len(a))
      BY <1>1, <1>2, <2>3
    <3> QED BY <1>3, <2>1, <2>3, <3>1
  <2> QED BY <2>2, <2>3
<1> QED BY <1>4, <1>5, <1>6

\* The first parts, and the others, of the next datagram.
LEMMA PartsOfNext ==
  ASSUME Numbers, SendLong, NEW S, \A n \in 0 .. Parts[sent + 1] - 1 : Part(sent + 1, n) \in S
  PROVE  \E a, b \in Seq(S) : wire' = wire \o a /\ sending' = b /\ sent + 1 \in Datagrams /\ sent' = sent + 1
<1> DEFINE d == sent + 1
           first == Min({Parts[d], SplitRate})
<1>1. d \in Datagrams /\ sent' = d /\ wire' = wire \o PartsFrom(d, 0, first - 1) /\ sending' = PartsFrom(d, first, Parts[d] - 1)
  <2>1. sent < Len(Parts)
    BY DEF SendLong
  <2>2. d \in Datagrams
    BY <2>1, Constants DEF Numbers
  <2> QED BY <2>2 DEF SendLong
<1>2. Parts[d] \in Nat /\ SplitRate \in Nat
  BY <1>1, Constants
<1> HIDE DEF d
<1>3. first \in Nat /\ first <= Parts[d]
  BY <1>2, MinOfTwo
<1> HIDE DEF first
<1>4. \A n \in 0 .. Parts[d] - 1 : Part(d, n) \in S
  BY DEF d
<1>5. PartsFrom(d, 0, first - 1) \in Seq(S)
  <2>1. PartsFrom(d, 0, first - 1) = [n \in 1 .. first |-> Part(d, 0 + n - 1)]
    <3>1. (first - 1) - 0 + 1 = first
      BY <1>3
    <3> QED BY <3>1 DEF PartsFrom
  <2>2. \A n \in 1 .. first : 0 + n - 1 \in 0 .. Parts[d] - 1
    BY <1>2, <1>3
  <2>3. \A n \in 1 .. first : Part(d, 0 + n - 1) \in S
    BY <1>4, <2>2
  <2>4. [n \in 1 .. first |-> Part(d, 0 + n - 1)] \in [1 .. first -> S]
    BY <2>3
  <2> QED BY <1>3, <2>1, <2>4, FunSeq
<1>6. PartsFrom(d, first, Parts[d] - 1) \in Seq(S)
  <2> DEFINE r == Parts[d] - first
  <2>1. r \in Nat /\ PartsFrom(d, first, Parts[d] - 1) = [n \in 1 .. r |-> Part(d, first + n - 1)]
    <3>1. (Parts[d] - 1) - first + 1 = Parts[d] - first /\ r \in Nat
      BY <1>2, <1>3
    <3> QED BY <3>1 DEF PartsFrom
  <2>2. \A n \in 1 .. r : first + n - 1 \in 0 .. Parts[d] - 1
    BY <1>2, <1>3
  <2> HIDE DEF r
  <2>3. \A n \in 1 .. r : Part(d, first + n - 1) \in S
    BY <1>4, <2>2
  <2>4. [n \in 1 .. r |-> Part(d, first + n - 1)] \in [1 .. r -> S]
    BY <2>3
  <2> QED BY <2>1, <2>4, FunSeq
<1> QED BY <1>1, <1>5, <1>6 DEF d

\* What the thread sends in one round.
LEMMA RoundParts ==
  ASSUME RunThread, NEW S, queue \subseteq QueuedOf(S), IsFiniteSet(queue)
  PROVE  \E a \in Seq(S) : wire' = wire \o a
<1>1. PICK s \in SetToSeqs(DueNow) : wire' = wire \o [n \in DOMAIN s |-> s[n].frag]
  BY DEF RunThread
<1>2. DueNow \subseteq queue
  BY DEF DueNow
<1>3. IsFiniteSet(DueNow)
  BY <1>2, FS_Subset
<1> DEFINE c == Cardinality(DueNow)
<1>4. c \in Nat
  BY <1>3, FS_CardinalityType
<1>5. s \in [1 .. c -> DueNow]
  BY <1>1 DEF SetToSeqs
<1> HIDE DEF c
<1>6. \A n \in 1 .. c : s[n].frag \in S
  BY <1>2, <1>5 DEF QueuedOf
<1>7. DOMAIN s = 1 .. c
  BY <1>5
<1>8. [n \in DOMAIN s |-> s[n].frag] \in [1 .. c -> S]
  BY <1>6, <1>7
<1>9. [n \in DOMAIN s |-> s[n].frag] \in Seq(S)
  BY <1>4, <1>8, FunSeq
<1> QED BY <1>1, <1>9

LEMMA StampedIn ==
  ASSUME Numbers, NEW S, NEW f \in S, f.part \in Nat PROVE Stamped(f) \in QueuedOf(S)
<1>1. f.part * Delay \in Nat
  BY Constants
<1>2. now + f.part * Delay \in Nat
  BY <1>1 DEF Numbers
<1>3. (now + f.part * Delay) % TimeWidth \in Nat
  BY <1>2, Constants
<1> QED BY <1>2, <1>3 DEF Stamped, QueuedOf, Numbers

LEMMA QueuedType ==
  ASSUME Queues
  PROVE  /\ sending \in Seq(Sound) /\ list \in Seq(Sound) /\ wire \in Seq(Sound) /\ queue \subseteq QueuedOf(Sound)
         /\ IsFiniteSet(queue) /\ queued = Len(list) /\ queued \in Nat
BY DEF Queues, PartsIn

\* No step makes a part but NET_SendLong: what is under way keeps any property that its parts have.
LEMMA PartsKept ==
  ASSUME Numbers, Queues, [Next]_vars, NEW S, S \subseteq Sound, PartsIn(S),
         SendLong => \A n \in 0 .. Parts[sent + 1] - 1 : Part(sent + 1, n) \in S
  PROVE  PartsIn(S)'
<1>1. sending \in Seq(S) /\ list \in Seq(S) /\ wire \in Seq(S) /\ queue \subseteq QueuedOf(S)
  BY DEF PartsIn
<1>2. CASE SendLong
  <2>1. PICK a \in Seq(S), b \in Seq(S) : wire' = wire \o a /\ sending' = b
    BY <1>2, PartsOfNext
  <2>2. list' = list /\ queue' = queue
    BY <1>2 DEF SendLong, queues
  <2>3. wire' \in Seq(S)
    BY <1>1, <2>1
  <2> QED BY <1>1, <2>1, <2>2, <2>3 DEF PartsIn
<1>3. CASE QueuePacketForSend
  <2> DEFINE f == Head(sending)
  <2>1. sending # <<>> /\ sending' = Tail(sending) /\ wire' = wire
    BY <1>3 DEF QueuePacketForSend, Idle
  <2>2. f \in S /\ Tail(sending) \in Seq(S)
    BY <1>1, <2>1
  <2> HIDE DEF f
  <2>3. Stamped(f) \in QueuedOf(S)
    BY <2>2, SoundFields, StampedIn
  <2>4. queue' \subseteq QueuedOf(S)
    <3>1. queue' = queue \/ queue' = queue \cup {Stamped(f)} \/ queue' = queue \cup {}
      BY <1>3 DEF QueuePacketForSend, f
    <3> QED BY <1>1, <2>3, <3>1
  <2>5. list' \in Seq(S)
    <3>1. list' = list \/ list' = Append(list, f)
      BY <1>3 DEF QueuePacketForSend, f
    <3> QED BY <1>1, <2>2, <3>1
  <2> QED BY <1>1, <2>1, <2>2, <2>4, <2>5 DEF PartsIn
<1>4. CASE RunThread
  <2>1. PICK a \in Seq(S) : wire' = wire \o a
    BY <1>1, <1>4, RoundParts DEF Queues
  <2>2. wire' \in Seq(S)
    BY <1>1, <2>1
  <2>3. sending' = sending /\ list' = list /\ queue' = queue \ DueNow
    BY <1>4 DEF RunThread, sender
  <2> QED BY <1>1, <2>2, <2>3 DEF PartsIn
<1>5. CASE SendQueuedPackets
  <2> DEFINE n == Min({Len(list), SplitRate})
  <2>1. n \in Nat /\ n <= Len(list) /\ Len(list) \in Nat
    <3>1. Len(list) \in Nat
      BY <1>1
    <3> QED BY <3>1, Constants, MinOfTwo
  <2>2. wire' = wire \o SubSeq(list, 1, n) /\ list' = SubSeq(list, n + 1, Len(list)) /\ sending' = sending /\ queue' = queue
    BY <1>5 DEF SendQueuedPackets
  <2> HIDE DEF n
  <2>3. SubSeq(list, 1, n) \in Seq(S) /\ SubSeq(list, n + 1, Len(list)) \in Seq(S)
    BY <1>1, <2>1
  <2>4. wire' \in Seq(S)
    BY <1>1, <2>2, <2>3
  <2> QED BY <1>1, <2>2, <2>3, <2>4 DEF PartsIn
<1>6. CASE \E i \in DOMAIN wire : Receive(i) \/ Lose(i)
  <2>1. PICK i \in DOMAIN wire : Receive(i) \/ Lose(i)
    BY <1>6
  <2>2. wire' = RemoveAt(wire, i) \/ wire' = wire
    BY <2>1 DEF Receive, Lose
  <2>3. wire' \in Seq(S)
    BY <1>1, <2>2, RemoveAtIs
  <2>4. sending' = sending /\ list' = list /\ queue' = queue
    BY <2>1 DEF Receive, Lose, sender, queues
  <2> QED BY <1>1, <2>3, <2>4 DEF PartsIn
<1>7. CASE Recreate
  <2>1. list' = <<>> /\ sending' = sending /\ queue' = queue /\ wire' = wire
    BY <1>7 DEF Recreate
  <2> QED BY <1>1, <2>1 DEF PartsIn
<1>8. CASE Reset \/ WakeThread \/ ChangeThread \/ Tick \/ UNCHANGED vars
  <2>1. list' = list /\ sending' = sending /\ queue' = queue /\ wire' = wire
    BY <1>8 DEF Reset, WakeThread, ChangeThread, Tick, vars, sender, queues
  <2> QED BY <1>1, <2>1 DEF PartsIn
<1> QED BY <1>2, <1>3, <1>4, <1>5, <1>6, <1>7, <1>8 DEF Next

\* The thread sleeps a number of milliseconds: what stays in its queue is due later than now.
LEMMA WaitIs ==
  ASSUME Numbers, Queues, NEW Q, Q = queue \ DueNow
  PROVE  WaitInterval(Q) \in Nat /\ \A q \in Q : (now % TimeWidth) + WaitInterval(Q) <= q.time
<1>1. now % TimeWidth \in Nat
  BY Constants DEF Numbers
<1>2. CASE Q = {}
  BY <1>2, Constants DEF WaitInterval
<1>3. CASE Q # {}
  <2> DEFINE T == {q.time : q \in Q}
  <2>1. T \subseteq Nat /\ T # {}
    BY <1>3 DEF Queues, PartsIn, QueuedOf
  <2>2. Min(T) \in T /\ \A y \in T : Min(T) <= y
    BY <2>1, MinOf
  <2>3. \A q \in Q : q.time \in Nat /\ ~(q.time <= now % TimeWidth)
    BY DEF DueNow, Queues, PartsIn, QueuedOf
  <2>4. Min(T) \in Nat /\ ~(Min(T) <= now % TimeWidth) /\ \A q \in Q : Min(T) <= q.time
    BY <2>2, <2>3
  <2>5. WaitInterval(Q) = Min(T) - (now % TimeWidth)
    BY <1>3 DEF WaitInterval
  <2> HIDE DEF T
  <2> QED BY <1>1, <2>3, <2>4, <2>5
<1> QED BY <1>2, <1>3

LEMMA NumbersKept == ASSUME Numbers, Queues, [Next]_vars PROVE Numbers'
<1>1. CASE SendLong
  <2>1. sent' = sent + 1 /\ sent < Len(Parts) /\ sequence' = sequence + 1
        /\ UNCHANGED <<channel, restarts, wakeAt, now, copies>>
    BY <1>1 DEF SendLong, queues
  <2> QED BY <2>1, Constants DEF Numbers
<1>2. CASE QueuePacketForSend
  BY <1>2 DEF QueuePacketForSend, Numbers
<1>3. CASE Reset
  BY <1>3 DEF Reset, Numbers, queues
<1>4. CASE Recreate
  BY <1>4 DEF Recreate, Numbers
<1>5. CASE RunThread
  <2>1. wakeAt' = now + WaitInterval(queue \ DueNow) /\ UNCHANGED <<channel, sequence, sent, restarts, now, copies>>
    BY <1>5 DEF RunThread, sender
  <2>2. WaitInterval(queue \ DueNow) \in Nat
    BY WaitIs
  <2> QED BY <2>1, <2>2 DEF Numbers
<1>6. CASE \E i \in DOMAIN wire : Receive(i) \/ Lose(i)
  BY <1>6 DEF Receive, Lose, sender, queues, Numbers
<1>7. CASE Tick
  BY <1>7 DEF Tick, Numbers, sender, queues
<1>8. CASE WakeThread \/ SendQueuedPackets \/ ChangeThread \/ UNCHANGED vars
  BY <1>8 DEF WakeThread, SendQueuedPackets, ChangeThread, vars, Numbers, sender, queues
<1> QED BY <1>1, <1>2, <1>3, <1>4, <1>5, <1>6, <1>7, <1>8 DEF Next

LEMMA FlagsKept == ASSUME Flags, [Next]_vars PROVE Flags'
<1>1. CASE QueuePacketForSend
  BY <1>1, Zenon DEF QueuePacketForSend, Flags
<1>2. CASE WakeThread \/ RunThread \/ ChangeThread
  BY <1>2, Zenon DEF WakeThread, RunThread, ChangeThread, Flags
<1>3. CASE UNCHANGED <<useThread, event, awake>>
  BY <1>3 DEF Flags
<1>4. SendLong \/ Reset \/ Recreate \/ SendQueuedPackets \/ Tick \/ (\E i \in DOMAIN wire : Receive(i) \/ Lose(i)) \/ UNCHANGED vars
        => UNCHANGED <<useThread, event, awake>>
  BY DEF SendLong, Reset, Recreate, SendQueuedPackets, Tick, Receive, Lose, vars, queues
<1> QED BY <1>1, <1>2, <1>3, <1>4 DEF Next

LEMMA QueuesKept == ASSUME Numbers, Queues, [Next]_vars PROVE Queues'
<1>1. SendLong => \A n \in 0 .. Parts[sent + 1] - 1 : Part(sent + 1, n) \in Sound
  <2> SUFFICES ASSUME SendLong PROVE \A n \in 0 .. Parts[sent + 1] - 1 : Part(sent + 1, n) \in Sound
    OBVIOUS
  <2>1. sent + 1 \in Datagrams
    BY Constants DEF SendLong, Numbers
  <2> QED BY <2>1, PartSound
<1>2. PartsIn(Sound)'
  BY <1>1, PartsKept DEF Queues
<1>3. IsFiniteSet(queue')
  <2>1. IsFiniteSet(queue)
    BY DEF Queues
  <2>2. CASE QueuePacketForSend
    <3>1. queue' = queue \/ queue' = queue \cup {Stamped(Head(sending))} \/ queue' = queue \cup {}
      BY <2>2 DEF QueuePacketForSend
    <3> QED BY <2>1, <3>1, FS_AddElement
  <2>3. CASE RunThread
    <3>1. queue' \subseteq queue
      BY <2>3 DEF RunThread
    <3> QED BY <2>1, <3>1, FS_Subset
  <2>4. ~QueuePacketForSend /\ ~RunThread => queue' = queue
    BY DEF Next, SendLong, Reset, Recreate, WakeThread, ChangeThread, SendQueuedPackets, Tick, Receive, Lose, vars, queues
  <2> QED BY <2>1, <2>2, <2>3, <2>4
<1>4. queued' = Len(list')
  <2>1. list \in Seq(Sound) /\ queued = Len(list) /\ Len(list) \in Nat
    BY QueuedType
  <2>2. CASE QueuePacketForSend
    <3>1. Len(Append(list, Head(sending))) = Len(list) + 1
      BY <2>1
    <3> QED BY <2>1, <2>2, <3>1 DEF QueuePacketForSend
  <2>3. CASE Recreate
    <3>1. queued' = 0 /\ list' = <<>>
      BY <2>3 DEF Recreate
    <3> QED BY <3>1
  <2>4. CASE SendQueuedPackets
    <3> DEFINE n == Min({Len(list), SplitRate})
    <3>1. n \in Nat /\ n <= Len(list)
      BY <2>1, Constants, MinOfTwo
    <3>2. list' = SubSeq(list, n + 1, Len(list)) /\ queued' = Decremented(n)
      BY <2>4 DEF SendQueuedPackets
    <3> HIDE DEF n
    <3>3. Len(SubSeq(list, n + 1, Len(list))) = Len(list) - n
      BY <2>1, <3>1
    <3> QED BY <2>1, <3>1, <3>2, <3>3 DEF Decremented
  <2>5. ~QueuePacketForSend /\ ~Recreate /\ ~SendQueuedPackets => queued' = queued /\ list' = list
    BY DEF Next, SendLong, Reset, WakeThread, RunThread, ChangeThread, Tick, Receive, Lose, vars, sender, queues
  <2> QED BY <2>1, <2>2, <2>3, <2>4, <2>5
<1> QED BY <1>2, <1>3, <1>4 DEF Queues

-----------------------------------------------------------------------------
(* The receiver's entry.                                                   *)

EntryType == [current : Int, count : Int, expected : Nat, total : 0 .. MaxParts, active : Nat,
              flags : [Index -> Int], buffer : [Index -> PieceType]]

\* The entry in which NET_GetLong looks for part f, before the sizes are compared.
Opened(f) == Started([(IF Stale(entry) THEN NewEntry ELSE entry) EXCEPT !.active = now], f)

LEMMA IndexFacts == 0 \in Index /\ Index \subseteq Nat /\ Index = 0 .. MaxParts - 1 /\ MaxParts \in Nat
BY MaxPartsIs DEF Index

LEMMA PieceIs ==
  ASSUME NEW d \in Datagrams, NEW n \in Index
  PROVE  [datagram |-> d, part |-> n] \in PieceType /\ Nothing \in PieceType
BY IndexFacts DEF PieceType, Nothing

LEMMA NewEntryType ==
  ASSUME Numbers
  PROVE  NewEntry \in EntryType /\ NewEntry.current = 0 /\ NewEntry.flags = [n \in Index |-> -1]
<1>1. Nothing \in PieceType
  BY IndexFacts DEF PieceType, Nothing
<1>2. [n \in Index |-> -1] \in [Index -> Int] /\ [n \in Index |-> Nothing] \in [Index -> PieceType]
  BY <1>1
<1>3. 0 \in 0 .. MaxParts /\ now \in Nat
  BY IndexFacts DEF Numbers
<1> QED BY <1>2, <1>3 DEF NewEntry, EntryType

LEMMA OpenedType ==
  ASSUME Numbers, entry \in EntryType, NEW f \in Sound
  PROVE  /\ Opened(f) \in EntryType
         /\ \/ Opened(f).flags = entry.flags /\ Opened(f).buffer = entry.buffer
            \/ Opened(f).flags = [n \in Index |-> -1]
         /\ \/ Opened(f).current = f.seq /\ Opened(f).count = f.count /\ Opened(f).expected = f.size
            \/ /\ entry.current = f.seq /\ Opened(f).flags = entry.flags /\ Opened(f).buffer = entry.buffer
               /\ Opened(f).current = entry.current /\ Opened(f).count = entry.count
               /\ Opened(f).expected = entry.expected /\ Opened(f).total = entry.total
            \/ f.seq = 0
<1> DEFINE a == IF Stale(entry) THEN NewEntry ELSE entry
           e == [a EXCEPT !.active = now]
<1>1. a \in EntryType /\ (a = entry \/ (a.flags = [n \in Index |-> -1] /\ a.current = 0))
  BY NewEntryType
<1> HIDE DEF a
<1>2. now \in Nat
  BY DEF Numbers
<1>3. e \in EntryType /\ e.flags = a.flags /\ e.buffer = a.buffer /\ e.current = a.current /\ e.count = a.count
      /\ e.expected = a.expected /\ e.total = a.total
  BY <1>1, <1>2 DEF EntryType
<1> HIDE DEF e
<1>4. Opened(f) = Started(e, f)
  BY DEF Opened, e, a
<1>5. CASE e.current # -1 /\ f.seq = e.current
  <2>1. Opened(f) = e
    BY <1>4, <1>5 DEF Started
  <2> QED BY <1>1, <1>3, <1>5, <2>1
<1>6. CASE ~(e.current # -1 /\ f.seq = e.current)
  <2> DEFINE o == [e EXCEPT !.current = f.seq, !.count = f.count, !.expected = f.size]
  <2>1. Opened(f) = o
    BY <1>4, <1>6 DEF Started
  <2>2. f.seq \in Int /\ f.count \in Int /\ f.size \in Nat
    BY SoundFields
  <2>3. o \in EntryType /\ o.flags = e.flags /\ o.buffer = e.buffer /\ o.current = f.seq /\ o.count = f.count /\ o.expected = f.size
    BY <1>3, <2>2 DEF EntryType
  <2> HIDE DEF o
  <2> QED BY <1>1, <1>3, <2>1, <2>3
<1> QED BY <1>5, <1>6

LEMMA StoredType ==
  ASSUME NEW e \in EntryType, NEW f \in Sound
  PROVE  /\ Stored(e, f) \in EntryType
         /\ Stored(e, f).current = e.current /\ Stored(e, f).expected = e.expected
         /\ Stored(e, f).buffer = [e.buffer EXCEPT ![f.part] = [datagram |-> f.datagram, part |-> f.part]]
         /\ \/ /\ e.flags[f.part] = f.seq
               /\ Stored(e, f).flags = e.flags /\ Stored(e, f).count = e.count /\ Stored(e, f).total = e.total
            \/ /\ e.flags[f.part] # f.seq
               /\ Stored(e, f).flags = [e.flags EXCEPT ![f.part] = f.seq] /\ Stored(e, f).count = e.count - 1
               /\ Stored(e, f).total = IF f.part = f.count - 1 THEN f.count ELSE e.total
<1>1. f.datagram \in Datagrams /\ f.part \in Index /\ f.seq \in Int /\ f.count \in 0 .. MaxParts
  BY SoundFields, IndexFacts
<1> DEFINE piece == [datagram |-> f.datagram, part |-> f.part]
           c == Counted(e, f)
           t == IF f.part = f.count - 1 THEN f.count ELSE e.total
<1>2. piece \in PieceType
  BY <1>1, PieceIs
<1>3. t \in 0 .. MaxParts
  BY <1>1 DEF EntryType
<1> HIDE DEF piece, t
<1>4. /\ c \in EntryType /\ c.current = e.current /\ c.expected = e.expected /\ c.buffer = e.buffer
      /\ \/ e.flags[f.part] = f.seq /\ c.flags = e.flags /\ c.count = e.count /\ c.total = e.total
         \/ /\ e.flags[f.part] # f.seq /\ c.flags = [e.flags EXCEPT ![f.part] = f.seq] /\ c.count = e.count - 1
            /\ c.total = t
  <2>1. CASE e.flags[f.part] = f.seq
    <3>1. c = e
      BY <2>1 DEF Counted
    <3> QED BY <2>1, <3>1
  <2>2. CASE e.flags[f.part] # f.seq
    <3>1. c = [e EXCEPT !.total = t, !.count = e.count - 1, !.flags = [e.flags EXCEPT ![f.part] = f.seq]]
      BY <2>2 DEF Counted, t, EntryType
    <3>2. e.count - 1 \in Int /\ [e.flags EXCEPT ![f.part] = f.seq] \in [Index -> Int]
      BY <1>1 DEF EntryType
    <3> HIDE DEF c
    <3> QED BY <1>3, <2>2, <3>1, <3>2 DEF EntryType
  <2> QED BY <2>1, <2>2
<1> HIDE DEF c
<1>5. Stored(e, f) = [c EXCEPT !.buffer = [c.buffer EXCEPT ![f.part] = piece]]
  BY <1>4 DEF Stored, c, piece, EntryType
<1>6. [c.buffer EXCEPT ![f.part] = piece] \in [Index -> PieceType]
  BY <1>1, <1>2, <1>4 DEF EntryType
<1>7. /\ Stored(e, f) \in EntryType
      /\ Stored(e, f).current = c.current /\ Stored(e, f).expected = c.expected /\ Stored(e, f).flags = c.flags
      /\ Stored(e, f).count = c.count /\ Stored(e, f).total = c.total
      /\ Stored(e, f).buffer = [c.buffer EXCEPT ![f.part] = piece]
  BY <1>4, <1>5, <1>6 DEF EntryType
<1> QED BY <1>4, <1>7 DEF t, piece

\* The three things that NET_GetLong can do with a part.
LEMMA GetLongIs ==
  ASSUME Numbers, entry \in EntryType, NEW f \in Sound
  PROVE  LET e == Opened(f)
             t == Stored(e, f)
         IN  \/ GetLong(f)[1] = e /\ GetLong(f)[2] = <<>> /\ f.size # e.expected
             \/ GetLong(f)[1] = t /\ GetLong(f)[2] = <<>> /\ f.size = e.expected
             \/ /\ GetLong(f)[1] = [t EXCEPT !.current = -1] /\ GetLong(f)[2] = [n \in 1 .. t.total |-> t.buffer[n - 1]]
                /\ f.size = e.expected /\ ~(t.count > 0)
<1> DEFINE e == Opened(f)
           t == Stored(e, f)
<1>1. GetLong(f) = IF f.size # e.expected THEN <<e, <<>>>>
                   ELSE IF t.count > 0 THEN <<t, <<>>>>
                   ELSE <<[t EXCEPT !.current = -1], [n \in 1 .. t.total |-> t.buffer[n - 1]]>>
  BY DEF GetLong, Opened
<1> HIDE DEF e, t
<1>2. \/ GetLong(f)[1] = e /\ GetLong(f)[2] = <<>> /\ f.size # e.expected
      \/ GetLong(f)[1] = t /\ GetLong(f)[2] = <<>> /\ f.size = e.expected
      \/ /\ GetLong(f)[1] = [t EXCEPT !.current = -1] /\ GetLong(f)[2] = [n \in 1 .. t.total |-> t.buffer[n - 1]]
         /\ f.size = e.expected /\ ~(t.count > 0)
  BY <1>1
<1> QED BY <1>2 DEF e, t

LEMMA GetLongType ==
  ASSUME Numbers, entry \in EntryType, NEW f \in Sound
  PROVE  GetLong(f)[1] \in EntryType /\ GetLong(f)[2] \in Seq(PieceType)
<1> DEFINE e == Opened(f)
           t == Stored(e, f)
<1>1. e \in EntryType
  BY OpenedType
<1>2. t \in EntryType
  BY <1>1, StoredType
<1>3. \/ GetLong(f)[1] = e /\ GetLong(f)[2] = <<>>
      \/ GetLong(f)[1] = t /\ GetLong(f)[2] = <<>>
      \/ GetLong(f)[1] = [t EXCEPT !.current = -1] /\ GetLong(f)[2] = [n \in 1 .. t.total |-> t.buffer[n - 1]]
  BY GetLongIs
<1> HIDE DEF e, t
<1>4. [t EXCEPT !.current = -1] \in EntryType
  BY <1>2 DEF EntryType
<1>5. t.total \in 0 .. MaxParts /\ t.buffer \in [Index -> PieceType]
  BY <1>2 DEF EntryType
<1>6. \A n \in 1 .. t.total : n - 1 \in Index
  BY <1>5, IndexFacts
<1>7. [n \in 1 .. t.total |-> t.buffer[n - 1]] \in [1 .. t.total -> PieceType]
  BY <1>5, <1>6
<1>8. t.total \in Nat
  BY <1>5, IndexFacts
<1> DEFINE b == [n \in 1 .. t.total |-> t.buffer[n - 1]]
<1>9. <<>> \in Seq(PieceType)
  OBVIOUS
<1>13. b \in [1 .. t.total -> PieceType]
  BY <1>7
<1>10. GetLong(f)[2] = <<>> \/ GetLong(f)[2] = b
  BY <1>3
<1> HIDE DEF b
<1>14. b \in Seq(PieceType)
  BY <1>8, <1>13, FunSeq
<1>11. GetLong(f)[2] \in Seq(PieceType)
  BY <1>9, <1>10, <1>14
<1>12. GetLong(f)[1] \in EntryType
  BY <1>1, <1>2, <1>3, <1>4
<1> QED BY <1>11, <1>12

Received == entry \in EntryType /\ out \in Seq(PieceType) /\ whole \subseteq Datagrams

LEMMA ReceivedKept == ASSUME Numbers, Queues, Received, [Next]_vars PROVE Received'
<1>1. CASE \E i \in DOMAIN wire : Receive(i)
  <2>1. PICK i \in DOMAIN wire : Receive(i)
    BY <1>1
  <2>2. wire[i] \in Sound
    <3>1. wire \in Seq(Sound)
      BY QueuedType
    <3> QED BY <2>1, <3>1
  <2>3. entry' = GetLong(wire[i])[1] /\ out' = GetLong(wire[i])[2] /\ whole' = whole \cup {d \in Datagrams : out' = Whole(d)}
    BY <2>1 DEF Receive
  <2>4. entry' \in EntryType /\ out' \in Seq(PieceType)
    BY <2>2, <2>3, GetLongType DEF Received
  <2>5. whole' \subseteq Datagrams
    BY <2>3 DEF Received
  <2> QED BY <2>4, <2>5 DEF Received
<1>2. ~(\E i \in DOMAIN wire : Receive(i)) => UNCHANGED receiver
  BY DEF Next, vars, SendLong, QueuePacketForSend, Reset, Recreate, WakeThread, RunThread, SendQueuedPackets,
     ChangeThread, Tick, Lose
<1> QED BY <1>1, <1>2 DEF receiver, Received

-----------------------------------------------------------------------------
(* Types.                                                                  *)

TypeInv == Numbers /\ Flags /\ Queues /\ Received

LEMMA InitTypeInv == Init => TypeInv
<1> SUFFICES ASSUME Init PROVE TypeInv
  OBVIOUS
<1>1. Numbers
  BY Constants DEF Init, Numbers
<1>2. Flags
  BY Zenon DEF Init, Flags
<1>3. PartsIn(Sound)
  BY DEF Init, PartsIn
<1>4. IsFiniteSet(queue) /\ queued = Len(list)
  BY FS_EmptySet DEF Init
<1>5. Received
  BY <1>1, NewEntryType DEF Init, Received
<1> QED BY <1>1, <1>2, <1>3, <1>4, <1>5 DEF TypeInv, Queues

LEMMA NextTypeInv == TypeInv /\ [Next]_vars => TypeInv'
BY NumbersKept, FlagsKept, QueuesKept, ReceivedKept DEF TypeInv

LEMMA TypeInvariant == Spec => []TypeInv
BY InitTypeInv, NextTypeInv, PTL DEF Spec

LEMMA TypesFollow == TypeInv => TypeOK
<1> SUFFICES ASSUME TypeInv PROVE TypeOK
  OBVIOUS
<1>1. sending \in Seq(PartType) /\ list \in Seq(PartType) /\ wire \in Seq(PartType)
  <2>1. Sound \subseteq PartType
    BY DEF Sound
  <2>2. \A s \in Seq(Sound) : s \in Seq(PartType)
    BY <2>1
  <2> QED BY <2>2, QueuedType DEF TypeInv
<1>2. queue \subseteq [time : Nat, due : Nat, chan : Nat, frag : PartType]
  BY QueuedType DEF TypeInv, QueuedOf, Sound
<1>3. entry \in [current : Int, count : Int, expected : Nat, total : Nat, active : Nat,
                 flags : [Index -> Int], buffer : [Index -> PieceType]]
  BY IndexFacts DEF TypeInv, Received, EntryType
<1>4. queued \in Nat
  BY QueuedType DEF TypeInv
<1> QED BY <1>1, <1>2, <1>3, <1>4 DEF TypeInv, Numbers, Flags, Received, TypeOK

\* Every variable keeps its values, for any datagrams and any network: no part is stored or marked
\* outside of splitflags and of the buffer, whatever arrives after whatever.
THEOREM SplitTypeCorrect == Spec => []TypeOK
BY TypeInvariant, TypesFollow, PTL

-----------------------------------------------------------------------------
(* What NET_GetLong returns.                                               *)

\* A part whose number tells its datagram: those made before the numbers start again.
Fresh == {f \in Sound : f.seq = f.datagram + 1}

\* The parts that an entry has marked with its number since the series started: what it counts down is
\* what is missing of them.
Marked(e, M) ==
  LET d == e.current - 1
  IN  /\ M \subseteq 0 .. Parts[d] - 1
      /\ \A n \in M : e.flags[n] = e.current
      /\ e.count = Parts[d] - Cardinality(M)
      /\ Parts[d] - 1 \in M => e.total = Parts[d]

\* A mark tells whose part lies in the buffer, and a series in progress is of one datagram.
Kept(e) ==
  /\ \A n \in Index : e.flags[n] # -1 => /\ e.flags[n] - 1 \in Datagrams
                                         /\ e.buffer[n] = [datagram |-> e.flags[n] - 1, part |-> n]
  /\ e.current \in {-1, 0} \/ (e.current - 1 \in Datagrams /\ \E M : Marked(e, M))

FirstRun ==
  restarts = 0 => /\ sequence = sent + 1
                  /\ PartsIn(Fresh)
                  /\ Kept(entry)
                  /\ WholeDatagrams

LEMMA FreshFields ==
  ASSUME NEW f \in Fresh
  PROVE  /\ f \in Sound /\ f.datagram \in Datagrams /\ f.seq - 1 = f.datagram /\ f.seq = f.datagram + 1
         /\ f.seq \notin {-1, 0} /\ f.seq # 0
BY SoundFields, Constants DEF Fresh

LEMMA OpenedKept ==
  ASSUME Numbers, entry \in EntryType, Kept(entry), NEW f \in Fresh
  PROVE  Kept(Opened(f)) /\ Opened(f).current = f.seq /\ \E M : Marked(Opened(f), M)
<1> DEFINE e == Opened(f)
           d == f.datagram
<1>1. /\ \/ e.flags = entry.flags /\ e.buffer = entry.buffer
         \/ e.flags = [n \in Index |-> -1]
      /\ \/ e.current = f.seq /\ e.count = f.count /\ e.expected = f.size
         \/ /\ entry.current = f.seq /\ e.flags = entry.flags /\ e.buffer = entry.buffer
            /\ e.current = entry.current /\ e.count = entry.count /\ e.expected = entry.expected /\ e.total = entry.total
  BY OpenedType, FreshFields
<1>2. f.seq - 1 = d /\ d \in Datagrams /\ f.seq \notin {-1, 0} /\ f.count = Parts[d] /\ Parts[d] \in Nat /\ Parts[d] >= 1
  BY FreshFields, SoundFields, Constants
<1> HIDE DEF e, d
<1>3. \A n \in Index : e.flags[n] # -1 => e.flags[n] - 1 \in Datagrams /\ e.buffer[n] = [datagram |-> e.flags[n] - 1, part |-> n]
  BY <1>1 DEF Kept
<1>4. e.current = f.seq
  BY <1>1
<1>5. \E M : Marked(e, M)
  <2>1. CASE e.count = f.count
    <3>1. Marked(e, {})
      BY <1>2, <1>4, <2>1, FS_EmptySet DEF Marked
    <3> QED BY <3>1
  <2>2. CASE entry.current = f.seq /\ e.flags = entry.flags /\ e.current = entry.current /\ e.count = entry.count /\ e.total = entry.total
    <3>1. PICK M : Marked(entry, M)
      BY <1>2, <2>2 DEF Kept
    <3>2. Marked(e, M)
      BY <2>2, <3>1 DEF Marked
    <3> QED BY <3>2
  <2> QED BY <1>1, <2>1, <2>2
<1>6. Kept(e)
  BY <1>2, <1>3, <1>4, <1>5 DEF Kept
<1> QED BY <1>4, <1>5, <1>6 DEF e

LEMMA StoredKept ==
  ASSUME NEW e \in EntryType, NEW f \in Fresh, Kept(e), e.current = f.seq, \E M : Marked(e, M)
  PROVE  Kept(Stored(e, f)) /\ Stored(e, f).current = f.seq /\ \E M : Marked(Stored(e, f), M)
<1> DEFINE t == Stored(e, f)
           d == f.datagram
           p == f.part
<1>1. f \in Sound
  BY FreshFields
<1>2. /\ t \in EntryType /\ t.current = e.current
      /\ t.buffer = [e.buffer EXCEPT ![p] = [datagram |-> d, part |-> p]]
      /\ \/ e.flags[p] = f.seq /\ t.flags = e.flags /\ t.count = e.count /\ t.total = e.total
         \/ /\ e.flags[p] # f.seq /\ t.flags = [e.flags EXCEPT ![p] = f.seq] /\ t.count = e.count - 1
            /\ t.total = IF p = f.count - 1 THEN f.count ELSE e.total
  BY <1>1, StoredType
<1>3. f.seq - 1 = d /\ d \in Datagrams /\ f.seq \notin {-1, 0} /\ f.count = Parts[d] /\ Parts[d] \in Nat /\ Parts[d] >= 1
      /\ p \in Index /\ p \in Nat /\ p < Parts[d]
  BY <1>1, FreshFields, SoundFields, Constants
<1>4. e.flags \in [Index -> Int] /\ e.buffer \in [Index -> PieceType] /\ e.count \in Int
  BY DEF EntryType
<1> HIDE DEF t, d, p
<1>5. \A n \in Index : t.flags[n] # -1 => t.flags[n] - 1 \in Datagrams /\ t.buffer[n] = [datagram |-> t.flags[n] - 1, part |-> n]
  <2> SUFFICES ASSUME NEW n \in Index, t.flags[n] # -1
               PROVE  t.flags[n] - 1 \in Datagrams /\ t.buffer[n] = [datagram |-> t.flags[n] - 1, part |-> n]
    OBVIOUS
  <2>1. CASE n = p
    <3>1. t.flags[p] = f.seq /\ t.buffer[p] = [datagram |-> d, part |-> p]
      BY <1>2, <1>3, <1>4
    <3> QED BY <1>3, <2>1, <3>1
  <2>2. CASE n # p
    <3>1. t.flags[n] = e.flags[n] /\ t.buffer[n] = e.buffer[n]
      BY <1>2, <1>3, <1>4, <2>2
    <3> QED BY <3>1 DEF Kept
  <2> QED BY <2>1, <2>2
<1>6. \E M : Marked(t, M)
  <2>1. PICK M : Marked(e, M)
    OBVIOUS
  <2>2. M \subseteq 0 .. Parts[d] - 1 /\ (\A n \in M : e.flags[n] = f.seq) /\ e.count = Parts[d] - Cardinality(M)
        /\ (Parts[d] - 1 \in M => e.total = Parts[d])
    BY <1>3, <2>1 DEF Marked
  <2>3. CASE t.flags = e.flags /\ t.count = e.count /\ t.total = e.total
    <3>1. Marked(t, M)
      BY <1>2, <2>1, <2>3 DEF Marked
    <3> QED BY <3>1
  <2>4. CASE /\ e.flags[p] # f.seq /\ t.flags = [e.flags EXCEPT ![p] = f.seq] /\ t.count = e.count - 1
             /\ t.total = IF p = f.count - 1 THEN f.count ELSE e.total
    <3> DEFINE N == M \cup {p}
    <3>1. p \notin M
      BY <2>2, <2>4
    <3>2. IsFiniteSet(M)
      <4>1. IsFiniteSet(0 .. Parts[d] - 1)
        BY <1>3, FS_Interval
      <4> QED BY <2>2, <4>1, FS_Subset
    <3>3. Cardinality(N) = Cardinality(M) + 1 /\ Cardinality(M) \in Nat
      BY <3>1, <3>2, FS_AddElement, FS_CardinalityType
    <3>4. N \subseteq 0 .. Parts[d] - 1
      BY <1>3, <2>2
    <3>5. \A n \in N : t.flags[n] = f.seq
      <4>1. \A n \in M : n \in Index
        BY <1>3, <2>2, IndexIs
      <4> QED BY <1>3, <1>4, <2>2, <2>4, <4>1
    <3>6. t.count = Parts[d] - Cardinality(N)
      BY <1>3, <2>2, <2>4, <3>3
    <3>7. Parts[d] - 1 \in N => t.total = Parts[d]
      BY <1>3, <2>2, <2>4
    <3> HIDE DEF N
    <3>8. Marked(t, N)
      BY <1>2, <1>3, <3>4, <3>5, <3>6, <3>7 DEF Marked
    <3> QED BY <3>8
  <2> QED BY <1>2, <2>3, <2>4
<1>7. Kept(t)
  BY <1>2, <1>3, <1>5, <1>6 DEF Kept
<1> QED BY <1>2, <1>6, <1>7 DEF t

\* When nothing is missing, every part has been marked since the series started: the buffer holds the
\* datagram, and its length is that of the last part.
LEMMA Complete ==
  ASSUME NEW t \in EntryType, Kept(t), t.current - 1 \in Datagrams, \E M : Marked(t, M), ~(t.count > 0)
  PROVE  [n \in 1 .. t.total |-> t.buffer[n - 1]] = Whole(t.current - 1)
<1> DEFINE d == t.current - 1
<1>1. PICK M : Marked(t, M)
  OBVIOUS
<1>2. M \subseteq 0 .. Parts[d] - 1 /\ (\A n \in M : t.flags[n] = t.current) /\ t.count = Parts[d] - Cardinality(M)
      /\ (Parts[d] - 1 \in M => t.total = Parts[d])
  BY <1>1 DEF Marked
<1>3. Parts[d] \in Nat /\ Parts[d] >= 1 /\ t.current \in Int /\ t.count \in Int /\ d \in Datagrams /\ d \in Nat
  BY Constants DEF EntryType
<1> HIDE DEF d
<1>4. IsFiniteSet(0 .. Parts[d] - 1) /\ Cardinality(0 .. Parts[d] - 1) = Parts[d]
  <2>1. 0 \in Int /\ Parts[d] - 1 \in Int /\ ~(0 > Parts[d] - 1) /\ (Parts[d] - 1) - 0 + 1 = Parts[d]
    BY <1>3
  <2>2. IsFiniteSet(0 .. Parts[d] - 1)
    BY <2>1, FS_Interval
  <2>3. Cardinality(0 .. Parts[d] - 1) = IF 0 > Parts[d] - 1 THEN 0 ELSE (Parts[d] - 1) - 0 + 1
    BY <2>1, FS_Interval
  <2> QED BY <2>1, <2>2, <2>3
<1>5. IsFiniteSet(M) /\ Cardinality(M) <= Parts[d] /\ (Parts[d] = Cardinality(M) => M = 0 .. Parts[d] - 1)
  BY <1>2, <1>4, FS_Subset
<1>6. Cardinality(M) \in Nat
  BY <1>5, FS_CardinalityType
<1>7. M = 0 .. Parts[d] - 1
  BY <1>2, <1>3, <1>5, <1>6
<1>8. t.total = Parts[d]
  BY <1>2, <1>3, <1>7
<1>9. \A n \in 1 .. Parts[d] : t.buffer[n - 1] = [datagram |-> d, part |-> n - 1]
  <2> SUFFICES ASSUME NEW n \in 1 .. Parts[d] PROVE t.buffer[n - 1] = [datagram |-> d, part |-> n - 1]
    OBVIOUS
  <2>1. n - 1 \in 0 .. Parts[d] - 1 /\ n - 1 \in Nat /\ n - 1 < Parts[d]
    BY <1>3
  <2>2. n - 1 \in Index /\ t.flags[n - 1] = t.current
    BY <1>2, <1>3, <1>7, <2>1, IndexIs
  <2>3. t.current # -1 /\ d = t.current - 1
    BY <1>3 DEF d
  <2> QED BY <2>2, <2>3 DEF Kept
<1> QED BY <1>8, <1>9 DEF Whole, d

LEMMA GetLongKept ==
  ASSUME Numbers, entry \in EntryType, Kept(entry), NEW f \in Fresh
  PROVE  Kept(GetLong(f)[1]) /\ (GetLong(f)[2] # <<>> => \E d \in Datagrams : GetLong(f)[2] = Whole(d))
<1> DEFINE e == Opened(f)
           t == Stored(e, f)
<1>1. f \in Sound
  BY FreshFields
<1>2. e \in EntryType /\ Kept(e) /\ e.current = f.seq /\ \E M : Marked(e, M)
  BY <1>1, OpenedType, OpenedKept
<1>3. t \in EntryType /\ Kept(t) /\ t.current = f.seq /\ \E M : Marked(t, M)
  <2> HIDE DEF e
  <2> QED BY <1>1, <1>2, StoredType, StoredKept
<1>4. \/ GetLong(f)[1] = e /\ GetLong(f)[2] = <<>>
      \/ GetLong(f)[1] = t /\ GetLong(f)[2] = <<>>
      \/ /\ GetLong(f)[1] = [t EXCEPT !.current = -1] /\ GetLong(f)[2] = [n \in 1 .. t.total |-> t.buffer[n - 1]]
         /\ ~(t.count > 0)
  BY <1>1, GetLongIs
<1> HIDE DEF e, t
<1>5. CASE GetLong(f)[2] = <<>> /\ (GetLong(f)[1] = e \/ GetLong(f)[1] = t)
  BY <1>2, <1>3, <1>5
<1>6. CASE /\ GetLong(f)[1] = [t EXCEPT !.current = -1] /\ GetLong(f)[2] = [n \in 1 .. t.total |-> t.buffer[n - 1]]
           /\ ~(t.count > 0)
  <2>1. t.current - 1 \in Datagrams
    BY <1>3, FreshFields
  <2>2. GetLong(f)[2] = Whole(t.current - 1)
    BY <1>3, <1>6, <2>1, Complete
  <2>3. [t EXCEPT !.current = -1].flags = t.flags /\ [t EXCEPT !.current = -1].buffer = t.buffer
        /\ [t EXCEPT !.current = -1].current = -1
    BY <1>3 DEF EntryType
  <2>4. Kept([t EXCEPT !.current = -1])
    BY <1>3, <2>3 DEF Kept
  <2> QED BY <1>6, <2>1, <2>2, <2>4
<1> QED BY <1>4, <1>5, <1>6

LEMMA InitFirstRun == Init => FirstRun
<1> SUFFICES ASSUME Init PROVE FirstRun
  OBVIOUS
<1>1. sequence = sent + 1
  BY DEF Init
<1>2. PartsIn(Fresh)
  BY DEF Init, PartsIn
<1>3. Kept(entry)
  <2>1. Numbers
    BY InitTypeInv DEF TypeInv
  <2>2. entry.current = 0 /\ entry.flags = [n \in Index |-> -1]
    BY <2>1, NewEntryType DEF Init
  <2> QED BY <2>2 DEF Kept
<1>4. WholeDatagrams
  BY DEF Init, WholeDatagrams
<1> QED BY <1>1, <1>2, <1>3, <1>4 DEF FirstRun

LEMMA NextFirstRun == TypeInv /\ FirstRun /\ [Next]_vars => FirstRun'
<1> SUFFICES ASSUME TypeInv, FirstRun, [Next]_vars, restarts' = 0 PROVE (sequence = sent + 1 /\ PartsIn(Fresh) /\ Kept(entry) /\ WholeDatagrams)'
  BY DEF FirstRun
<1>1. Numbers /\ Queues /\ entry \in EntryType /\ restarts \in Nat
  BY DEF TypeInv, Received, Numbers
<1>2. ~Reset /\ ~Recreate
  BY <1>1 DEF Reset, Recreate
<1>3. restarts = 0
  BY <1>1, <1>2 DEF Next, vars, sender, SendLong, QueuePacketForSend, WakeThread, RunThread, SendQueuedPackets,
        ChangeThread, Tick, Receive, Lose
<1>4. sequence = sent + 1 /\ PartsIn(Fresh) /\ Kept(entry) /\ WholeDatagrams
  BY <1>3 DEF FirstRun
<1>5. sequence' = sent' + 1
  <2>1. CASE SendLong
    BY <1>1, <1>4, <2>1 DEF SendLong, Numbers
  <2>2. CASE ~SendLong
    BY <1>2, <1>4, <2>2 DEF Next, vars, sender, QueuePacketForSend, WakeThread, RunThread, SendQueuedPackets,
          ChangeThread, Tick, Receive, Lose
  <2> QED BY <2>1, <2>2
<1>6. PartsIn(Fresh)'
  <2>1. SendLong => \A n \in 0 .. Parts[sent + 1] - 1 : Part(sent + 1, n) \in Fresh
    <3> SUFFICES ASSUME SendLong, NEW n \in 0 .. Parts[sent + 1] - 1 PROVE Part(sent + 1, n) \in Fresh
      OBVIOUS
    <3>1. sent + 1 \in Datagrams
      BY <1>1, Constants DEF SendLong, Numbers
    <3>2. Part(sent + 1, n) \in Sound /\ Part(sent + 1, n).seq = sequence + 1 /\ Part(sent + 1, n).datagram = sent + 1
      BY <1>1, <3>1, PartSound
    <3> QED BY <1>4, <3>2 DEF Fresh
  <2>2. Fresh \subseteq Sound
    BY DEF Fresh
  <2> QED BY <1>1, <1>4, <2>1, <2>2, PartsKept
<1>7. Kept(entry)' /\ WholeDatagrams'
  <2>1. CASE \E i \in DOMAIN wire : Receive(i)
    <3>1. PICK i \in DOMAIN wire : Receive(i)
      BY <2>1
    <3>2. wire[i] \in Fresh
      <4>1. wire \in Seq(Fresh)
        BY <1>4 DEF PartsIn
      <4> QED BY <3>1, <4>1
    <3>3. entry' = GetLong(wire[i])[1] /\ out' = GetLong(wire[i])[2]
      BY <3>1 DEF Receive
    <3>4. Kept(entry')
      BY <1>1, <1>4, <3>2, <3>3, GetLongKept
    <3>5. out' # <<>> => \E d \in Datagrams : out' = Whole(d)
      BY <1>1, <1>4, <3>2, <3>3, GetLongKept
    <3> QED BY <3>4, <3>5 DEF WholeDatagrams, Kept, Marked
  <2>2. CASE ~(\E i \in DOMAIN wire : Receive(i))
    <3>1. entry' = entry /\ out' = out
      BY <1>2, <2>2 DEF Next, vars, SendLong, QueuePacketForSend, WakeThread, RunThread, SendQueuedPackets,
         ChangeThread, Tick, Lose, receiver
    <3> QED BY <1>4, <3>1 DEF Kept, Marked, WholeDatagrams
  <2> QED BY <2>1, <2>2
<1> QED BY <1>5, <1>6, <1>7

\* As long as the sender has not started its numbers again, NET_GetLong returns nothing or one datagram
\* whole: for any datagrams, and a network that loses, repeats and reorders their parts, although an
\* entry remembers the marks and the pieces of all the datagrams before.
THEOREM WholeUntilRestartCorrect == Spec => []WholeUntilRestart
<1>1. FirstRun => WholeUntilRestart
  BY DEF FirstRun, WholeUntilRestart
<1> QED BY <1>1, TypeInvariant, InitFirstRun, NextFirstRun, PTL DEF Spec

-----------------------------------------------------------------------------
(* The order in which the parts leave.                                     *)

\* The parts of one datagram.
PartsOf(d) == {f \in Sound : f.datagram = d}

\* What waits to be sent is of the datagram sent last, as long as the channel keeps its address: CanPacket
\* finds it.
InTurn ==
  channel = 0 => /\ sending \in Seq(PartsOf(sent)) /\ list \in Seq(PartsOf(sent))
                 /\ queue \subseteq QueuedOf(PartsOf(sent)) /\ \A q \in queue : q.chan = 0
                 /\ \A k \in DOMAIN wire : wire[k].datagram <= sent
                 /\ NotInterleaved

\* Parts of one datagram follow those of the same and of earlier ones.
LEMMA Extended ==
  ASSUME wire \in Seq(Sound), NEW d \in Nat, NEW a \in Seq(PartsOf(d)), wire' = wire \o a,
         \A k \in DOMAIN wire : wire[k].datagram <= d, NotInterleaved
  PROVE  NotInterleaved' /\ \A k \in DOMAIN wire' : wire'[k].datagram <= d
<1>1. \A k \in DOMAIN wire : wire[k].datagram \in Nat
  <2>1. \A k \in DOMAIN wire : wire[k] \in Sound
    OBVIOUS
  <2> QED BY <2>1, SoundFields, Constants
<1>2. \A k \in DOMAIN a : a[k].datagram = d
  <2>1. \A k \in DOMAIN a : a[k] \in PartsOf(d)
    OBVIOUS
  <2> QED BY <2>1 DEF PartsOf
<1>3. /\ DOMAIN wire = 1 .. Len(wire) /\ DOMAIN a = 1 .. Len(a) /\ Len(wire) \in Nat /\ Len(a) \in Nat
      /\ DOMAIN wire' = 1 .. Len(wire) + Len(a)
      /\ \A k \in 1 .. Len(wire) + Len(a) : wire'[k] = IF k <= Len(wire) THEN wire[k] ELSE a[k - Len(wire)]
  OBVIOUS
<1>4. \A k \in DOMAIN wire' : \/ k \in DOMAIN wire /\ wire'[k] = wire[k]
                              \/ k \notin DOMAIN wire /\ wire'[k].datagram = d
  <2> SUFFICES ASSUME NEW k \in DOMAIN wire', k \notin DOMAIN wire PROVE wire'[k].datagram = d
    BY <1>3
  <2>1. wire'[k] = a[k - Len(wire)] /\ k - Len(wire) \in DOMAIN a
    BY <1>3
  <2> QED BY <1>2, <2>1
<1>5. \A k \in DOMAIN wire' : wire'[k].datagram <= d
  BY <1>4
<1>6. \A i, j \in DOMAIN wire' : i < j => wire'[i].datagram <= wire'[j].datagram
  <2> SUFFICES ASSUME NEW i \in DOMAIN wire', NEW j \in DOMAIN wire', i < j
               PROVE  wire'[i].datagram <= wire'[j].datagram
    OBVIOUS
  <2>1. CASE j \in DOMAIN wire
    <3>1. i \in DOMAIN wire
      BY <1>3, <2>1
    <3> QED BY <1>4, <2>1, <3>1 DEF NotInterleaved
  <2>2. CASE j \notin DOMAIN wire
    BY <1>4, <1>5, <2>2
  <2> QED BY <2>1, <2>2
<1> QED BY <1>5, <1>6 DEF NotInterleaved

\* A part that leaves the wire leaves the others in their order.
LEMMA Shortened ==
  ASSUME wire \in Seq(Sound), NEW i \in DOMAIN wire, wire' = RemoveAt(wire, i), NEW d \in Nat,
         \A k \in DOMAIN wire : wire[k].datagram <= d, NotInterleaved
  PROVE  NotInterleaved' /\ \A k \in DOMAIN wire' : wire'[k].datagram <= d
<1>1. /\ wire' \in Seq(Sound) /\ Len(wire') = Len(wire) - 1
      /\ \A k \in 1 .. Len(wire) - 1 : wire'[k] = IF k < i THEN wire[k] ELSE wire[k + 1]
  BY RemoveAtIs
<1> DEFINE From(k) == IF k < i THEN k ELSE k + 1
<1>2. DOMAIN wire' = 1 .. Len(wire) - 1 /\ DOMAIN wire = 1 .. Len(wire) /\ Len(wire) \in Nat /\ i \in 1 .. Len(wire)
  BY <1>1
<1>3. \A k \in DOMAIN wire' : From(k) \in DOMAIN wire /\ wire'[k] = wire[From(k)]
  BY <1>1, <1>2
<1>4. \A k, l \in DOMAIN wire' : k < l => From(k) < From(l)
  BY <1>2
<1> HIDE DEF From
<1>5. \A k \in DOMAIN wire' : wire'[k].datagram <= d
  BY <1>3
<1>6. \A k, l \in DOMAIN wire' : k < l => wire'[k].datagram <= wire'[l].datagram
  BY <1>3, <1>4 DEF NotInterleaved
<1> QED BY <1>5, <1>6 DEF NotInterleaved

LEMMA InitInTurn == Init => InTurn
<1> SUFFICES ASSUME Init PROVE InTurn
  OBVIOUS
<1>1. sending = <<>> /\ list = <<>> /\ queue = {} /\ wire = <<>>
  BY DEF Init
<1>2. sending \in Seq(PartsOf(sent)) /\ list \in Seq(PartsOf(sent))
  BY <1>1
<1>3. queue \subseteq QueuedOf(PartsOf(sent)) /\ \A q \in queue : q.chan = 0
  BY <1>1
<1>4. DOMAIN wire = {}
  BY <1>1
<1> QED BY <1>2, <1>3, <1>4 DEF InTurn, NotInterleaved

LEMMA NextInTurn == Forced = {} /\ TypeInv /\ InTurn /\ [Next]_vars => InTurn'
<1> SUFFICES ASSUME Forced = {}, TypeInv, InTurn, [Next]_vars, channel' = 0 PROVE InTurn'
  BY DEF InTurn
<1>1. Numbers /\ Queues /\ wire \in Seq(Sound) /\ sent \in Nat
  BY QueuedType, Constants DEF TypeInv, Numbers
<1>2. channel = 0
  <2>1. channel' = channel \/ channel' = channel + 1
    BY DEF Next, vars, sender, SendLong, QueuePacketForSend, Reset, Recreate, WakeThread, RunThread,
       SendQueuedPackets, ChangeThread, Tick, Receive, Lose
  <2> QED BY <1>1, <2>1 DEF Numbers
<1>3. /\ sending \in Seq(PartsOf(sent)) /\ list \in Seq(PartsOf(sent))
      /\ queue \subseteq QueuedOf(PartsOf(sent)) /\ \A q \in queue : q.chan = 0
      /\ \A k \in DOMAIN wire : wire[k].datagram <= sent
      /\ NotInterleaved
  BY <1>2 DEF InTurn
<1>4. CASE SendLong
  <2>1. sent + 1 \in Datagrams
    BY <1>1, <1>4, Constants DEF SendLong, Numbers
  <2>2. queue = {} /\ list = <<>>
    <3>1. ~HasQueuedPackets
      BY <1>4 DEF SendLong, CanPacket
    <3>2. ~(Len(list) > 0)
      BY <1>1, <3>1 DEF HasQueuedPackets, Queues
    <3>3. list = <<>>
      BY <1>3, <3>2, EmptySeq
    <3> QED BY <1>2, <1>3, <3>1, <3>3 DEF HasQueuedPackets
  <2>3. \A n \in 0 .. Parts[sent + 1] - 1 : Part(sent + 1, n) \in PartsOf(sent + 1)
    BY <1>1, <2>1, PartSound DEF PartsOf
  <2>4. PICK a \in Seq(PartsOf(sent + 1)), b \in Seq(PartsOf(sent + 1)) :
               wire' = wire \o a /\ sending' = b /\ sent' = sent + 1
    BY <1>1, <1>4, <2>3, PartsOfNext
  <2>5. \A k \in DOMAIN wire : wire[k].datagram <= sent + 1
    <3>1. \A k \in DOMAIN wire : wire[k] \in Sound
      BY <1>1
    <3>2. \A k \in DOMAIN wire : wire[k].datagram \in Nat
      BY <3>1, SoundFields, Constants
    <3> QED BY <1>1, <1>3, <3>2
  <2>6. NotInterleaved' /\ \A k \in DOMAIN wire' : wire'[k].datagram <= sent'
    <3> DEFINE d == sent + 1
    <3>1. d \in Nat /\ a \in Seq(PartsOf(d)) /\ wire' = wire \o a /\ (\A k \in DOMAIN wire : wire[k].datagram <= d)
          /\ sent' = d
      BY <1>1, <2>4, <2>5
    <3> HIDE DEF d
    <3>2. NotInterleaved' /\ \A k \in DOMAIN wire' : wire'[k].datagram <= d
      BY <1>1, <1>3, <3>1, Extended
    <3> QED BY <3>1, <3>2
  <2>7. list' = <<>> /\ queue' = {}
    BY <1>4, <2>2 DEF SendLong, queues
  <2>8. list' \in Seq(PartsOf(sent'))
    BY <2>7
  <2> QED BY <2>4, <2>6, <2>7, <2>8 DEF InTurn
<1>5. CASE QueuePacketForSend
  <2> DEFINE f == Head(sending)
             S == PartsOf(sent)
  <2>1. sending # <<>> /\ sending' = Tail(sending) /\ wire' = wire /\ sent' = sent
    BY <1>5 DEF QueuePacketForSend, Idle
  <2>2. S \subseteq Sound
    BY DEF PartsOf
  <2>3. sending \in Seq(S) /\ list \in Seq(S) /\ queue \subseteq QueuedOf(S)
    BY <1>3
  <2> HIDE DEF S
  <2>4. f \in S /\ Tail(sending) \in Seq(S)
    BY <2>1, <2>3
  <2>5. queue' = queue \/ queue' = queue \cup {Stamped(f)} \/ queue' = queue \cup {}
    BY <1>5 DEF QueuePacketForSend, f
  <2>6. list' = list \/ list' = Append(list, f)
    BY <1>5 DEF QueuePacketForSend, f
  <2> HIDE DEF f
  <2>7. f.part \in Nat
    BY <2>2, <2>4, SoundFields
  <2>8. Stamped(f) \in QueuedOf(S)
    BY <1>1, <2>4, <2>7, StampedIn
  <2>9. Stamped(f).chan = 0
    BY <1>2 DEF Stamped
  <2>10. queue' \subseteq QueuedOf(S) /\ \A q \in queue' : q.chan = 0
    BY <1>3, <2>3, <2>5, <2>8, <2>9
  <2>11. list' \in Seq(S) /\ sending' \in Seq(S)
    <3>1. Append(list, f) \in Seq(S)
      BY <2>3, <2>4
    <3> QED BY <2>1, <2>3, <2>4, <2>6, <3>1
  <2>12. (\A k \in DOMAIN wire' : wire'[k].datagram <= sent') /\ NotInterleaved'
    BY <1>3, <2>1 DEF NotInterleaved
  <2> QED BY <2>1, <2>10, <2>11, <2>12 DEF InTurn, S
<1>6. CASE RunThread
  <2>1. PICK a \in Seq(PartsOf(sent)) : wire' = wire \o a
    BY <1>1, <1>3, <1>6, RoundParts DEF Queues
  <2>2. NotInterleaved' /\ \A k \in DOMAIN wire' : wire'[k].datagram <= sent
    BY <1>1, <1>3, <2>1, Extended
  <2>3. queue' \subseteq queue /\ UNCHANGED <<list, sending, sent>>
    BY <1>6 DEF RunThread, sender
  <2> QED BY <1>3, <2>2, <2>3 DEF InTurn
<1>7. CASE SendQueuedPackets
  <2> DEFINE n == Min({Len(list), SplitRate})
  <2>1. wire' = wire \o SubSeq(list, 1, n) /\ list' = SubSeq(list, n + 1, Len(list)) /\ UNCHANGED <<queue, sending, sent>>
    BY <1>7 DEF SendQueuedPackets
  <2>2. n \in Nat /\ n <= Len(list) /\ Len(list) \in Nat
    <3>1. Len(list) \in Nat
      BY <1>3
    <3> QED BY <3>1, Constants, MinOfTwo
  <2> HIDE DEF n
  <2>3. SubSeq(list, 1, n) \in Seq(PartsOf(sent)) /\ SubSeq(list, n + 1, Len(list)) \in Seq(PartsOf(sent))
    BY <1>3, <2>2
  <2>4. NotInterleaved' /\ \A k \in DOMAIN wire' : wire'[k].datagram <= sent
    BY <1>1, <1>3, <2>1, <2>3, Extended
  <2> QED BY <1>3, <2>1, <2>3, <2>4 DEF InTurn
<1>8. CASE \E i \in DOMAIN wire : Receive(i) \/ Lose(i)
  <2>1. PICK i \in DOMAIN wire : Receive(i) \/ Lose(i)
    BY <1>8
  <2>2. wire' = RemoveAt(wire, i) \/ wire' = wire
    BY <2>1 DEF Receive, Lose
  <2>3. UNCHANGED <<list, sending, queue, sent>>
    BY <2>1 DEF Receive, Lose, sender, queues
  <2>4. (\A k \in DOMAIN wire' : wire'[k].datagram <= sent) /\ NotInterleaved'
    <3>1. CASE wire' = wire
      BY <1>3, <3>1 DEF NotInterleaved
    <3>2. CASE wire' = RemoveAt(wire, i)
      BY <1>1, <1>3, <3>2, Shortened
    <3> QED BY <2>2, <3>1, <3>2
  <2> QED BY <1>3, <2>3, <2>4 DEF InTurn
<1>9. CASE Recreate
  <2>1. list' = <<>> /\ UNCHANGED <<sending, queue, wire, sent>>
    BY <1>9 DEF Recreate
  <2>2. list' \in Seq(PartsOf(sent))
    BY <2>1
  <2>3. (\A k \in DOMAIN wire' : wire'[k].datagram <= sent) /\ NotInterleaved'
    BY <1>3, <2>1 DEF NotInterleaved
  <2> QED BY <1>3, <2>1, <2>2, <2>3 DEF InTurn
<1>10. CASE Reset \/ WakeThread \/ ChangeThread \/ Tick \/ UNCHANGED vars
  <2>1. UNCHANGED <<list, sending, queue, wire, sent>>
    BY <1>10 DEF Reset, WakeThread, ChangeThread, Tick, vars, sender, queues
  <2>2. (\A k \in DOMAIN wire' : wire'[k].datagram <= sent) /\ NotInterleaved'
    BY <1>3, <2>1 DEF NotInterleaved
  <2> QED BY <1>3, <2>1, <2>2 DEF InTurn
<1> QED BY <1>4, <1>5, <1>6, <1>7, <1>8, <1>9, <1>10 DEF Next

\* When every datagram is sent through CanPacket, the parts of one leave before the first part of the
\* next, wherever they are queued and however often net_queued_packet_thread changes in between; also
\* after a reset, and after the channel was created again if it has its old address.
THEOREM NotInterleavedCorrect ==
  ASSUME Forced = {} PROVE Spec => [](channel = 0 => NotInterleaved)
<1>1. InTurn => (channel = 0 => NotInterleaved)
  BY DEF InTurn
<1>2. TypeInv /\ InTurn /\ [Next]_vars => InTurn'
  BY NextInTurn
<1> QED BY <1>1, <1>2, TypeInvariant, InitInTurn, PTL DEF Spec

-----------------------------------------------------------------------------
(* When the thread wakes up.                                               *)

\* No time stamp made up to now has wrapped.
BeforeWrap == now + MaxParts * Delay < TimeWidth

Timely == BeforeWrap => (\A q \in queue : q.time = q.due) /\ SentWhenDue

LEMMA TimesMonotone ==
  ASSUME NEW a \in Nat, NEW b \in Nat, NEW c \in Nat, a <= b PROVE a * c <= b * c
<1>1. PICK k \in Nat : b = a + k
  <2>1. b - a \in Nat /\ b = a + (b - a)
    OBVIOUS
  <2> QED BY <2>1
<1>2. b * c = a * c + k * c /\ k * c \in Nat /\ a * c \in Nat
  BY <1>1
<1> QED BY <1>2

LEMMA StampedDue ==
  ASSUME Numbers, BeforeWrap, NEW f \in Sound PROVE Stamped(f).time = Stamped(f).due
<1>1. f.part \in Nat /\ MaxParts \in Nat /\ f.part <= MaxParts /\ Delay \in Nat /\ now \in Nat /\ TimeWidth \in Nat
  BY SoundFields, MaxPartsIs, Constants DEF Numbers
<1>2. f.part * Delay <= MaxParts * Delay /\ f.part * Delay \in Nat /\ MaxParts * Delay \in Nat
  BY <1>1, TimesMonotone
<1> DEFINE t == now + f.part * Delay
<1>3. t \in Nat /\ t < TimeWidth
  BY <1>1, <1>2 DEF BeforeWrap
<1>4. Stamped(f).time = t % TimeWidth /\ Stamped(f).due = t
  BY DEF Stamped
<1> HIDE DEF t
<1>5. t % TimeWidth = t
  BY <1>1, <1>3
<1> QED BY <1>4, <1>5

LEMMA InitTimely == Init => Timely
BY DEF Init, Timely, SentWhenDue

LEMMA NextTimely == TypeInv /\ Timely /\ [Next]_vars => Timely'
<1> SUFFICES ASSUME TypeInv, Timely, [Next]_vars, BeforeWrap'
             PROVE  (\A q \in queue' : q.time = q.due) /\ SentWhenDue'
  BY DEF Timely
<1>1. Numbers /\ Queues /\ now \in Nat /\ wakeAt \in Nat /\ TimeWidth \in Nat /\ MaxParts * Delay \in Nat
  BY Constants, MaxPartsIs DEF TypeInv, Numbers
<1>2. BeforeWrap
  <2>1. now' = now \/ now' = now + 1
    BY DEF Next, vars, SendLong, QueuePacketForSend, Reset, Recreate, WakeThread, RunThread,
       SendQueuedPackets, ChangeThread, Tick, Receive, Lose
  <2>2. now' + MaxParts * Delay < TimeWidth
    BY DEF BeforeWrap
  <2> DEFINE m == MaxParts * Delay
  <2>3. m \in Nat /\ now' + m < TimeWidth
    BY <1>1, <2>2
  <2> HIDE DEF m
  <2>4. now + m < TimeWidth
    BY <1>1, <2>1, <2>3
  <2> QED BY <2>4 DEF BeforeWrap, m
<1>3. (\A q \in queue : q.time = q.due) /\ SentWhenDue
  BY <1>2 DEF Timely
<1>4. CASE QueuePacketForSend
  <2> DEFINE f == Head(sending)
  <2>1. f \in Sound
    <3>1. sending \in Seq(Sound) /\ sending # <<>>
      BY <1>1, <1>4, QueuedType DEF QueuePacketForSend, Idle
    <3> QED BY <3>1
  <2>2. \/ event' = TRUE /\ (queue' = queue \/ queue' = queue \cup {Stamped(f)} \/ queue' = queue \cup {})
        \/ UNCHANGED <<queue, event>>
    BY <1>4 DEF QueuePacketForSend, f
  <2>3. UNCHANGED <<awake, wakeAt>>
    BY <1>4 DEF QueuePacketForSend
  <2> HIDE DEF f
  <2>4. Stamped(f).time = Stamped(f).due
    BY <1>1, <1>2, <2>1, StampedDue
  <2> QED BY <1>3, <2>2, <2>3, <2>4 DEF SentWhenDue
<1>5. CASE WakeThread
  <2>1. awake' = TRUE /\ queue' = queue
    BY <1>5 DEF WakeThread
  <2> QED BY <1>3, <2>1 DEF SentWhenDue
<1>6. CASE RunThread
  <2> DEFINE Q == queue \ DueNow
  <2>1. queue' = Q /\ wakeAt' = now + WaitInterval(Q)
    BY <1>6 DEF RunThread
  <2>2. WaitInterval(Q) \in Nat /\ \A q \in Q : (now % TimeWidth) + WaitInterval(Q) <= q.time
    BY <1>1, WaitIs
  <2>3. now % TimeWidth = now
    <3>1. now < TimeWidth
      <4> DEFINE m == MaxParts * Delay
      <4>1. m \in Nat /\ now + m < TimeWidth
        BY <1>1, <1>2 DEF BeforeWrap
      <4> HIDE DEF m
      <4> QED BY <1>1, <4>1
    <3> QED BY <1>1, <3>1
  <2>4. \A q \in Q : q.time = q.due
    BY <1>3
  <2> HIDE DEF Q
  <2>5. \A q \in Q : now + WaitInterval(Q) <= q.due
    BY <2>2, <2>3, <2>4
  <2> QED BY <2>1, <2>4, <2>5 DEF SentWhenDue
<1>7. CASE ~QueuePacketForSend /\ ~WakeThread /\ ~RunThread
  <2>1. UNCHANGED <<queue, event, awake, wakeAt>>
    BY <1>7 DEF Next, vars, queues, SendLong, Reset, Recreate, SendQueuedPackets, ChangeThread, Tick, Receive, Lose
  <2> QED BY <1>3, <2>1 DEF SentWhenDue
<1> QED BY <1>4, <1>5, <1>6, <1>7

\* As long as the milliseconds have not come near the end of their 32 bits, the thread that sleeps wakes
\* up before the first part in its queue is due, or has been woken: for any delay and any number of
\* parts, queued at any time between its rounds.
THEOREM SentWhenDueCorrect == Spec => [](now + MaxParts * Delay < TimeWidth => SentWhenDue)
<1>1. Timely => (now + MaxParts * Delay < TimeWidth => SentWhenDue)
  BY DEF Timely, BeforeWrap
<1> QED BY <1>1, TypeInvariant, InitTimely, NextTimely, PTL DEF Spec
=============================================================================
